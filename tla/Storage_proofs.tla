--------------------------- MODULE Storage_proofs ---------------------------
(***************************************************************************)
(* Proofs about what is stored: the encrypted file and its key, the schema *)
(* of the database, and the rows of clusters, nodes and devices, for any   *)
(* number of processes, tables, callers and rows.                          *)
(***************************************************************************)
EXTENDS EncryptedStorage, Migrations, MCInventory, TLAPS

-----------------------------------------------------------------------------
(* EncryptedStorage: what is stored can be opened by the next start.       *)

\* With a key in the environment, every process that opens or runs uses it.
EnvironmentKey ==
  envKey # Absent =>
    /\ \A p \in Processes : stage[p] \in {"open", "running"} => gcm[p] = envKey
    /\ \A e \in Entries : sealed[e] \in {Absent, envKey}

\* Only a process that is saving its key leaves draw with the file short, and
\* it is alone; nobody opens or runs, and nothing is sealed, but with the key
\* that the file holds.
FileKey ==
  /\ \A p \in Processes : stage[p] \in {"open", "running"} => gcm[p] = keyFile /\ keyFile \in Int
  /\ \A e \in Entries : sealed[e] \in {Absent, keyFile}
  /\ \A p \in Processes : stage[p] = "save" => keyFile = Short
  /\ \A p, q \in Processes : stage[p] = "save" /\ stage[q] = "save" => p = q

KeysInv ==
  /\ StorageTypeOK
  /\ \A p \in Processes : stage[p] = "save" => gcm[p] \in 1..MaxDrawn
  /\ \A p \in Processes : stage[p] \in {"draw", "read", "save"} => envKey = Absent
  /\ EnvironmentKey
  /\ envKey # Absent \/ raced \/ lost \/ FileKey

\* The key of the environment, the key of the file and no key at all differ.
LEMMA KeysDiffer ==
  /\ Keys \subseteq Int
  /\ Absent \notin Int /\ Missing \notin Int /\ Short \notin Int /\ Missing # Short
BY StorageAssumption DEF Keys, StorageAssumption

LEMMA KeysInitially == StorageInit => KeysInv
<1> SUFFICES ASSUME StorageInit PROVE KeysInv
  OBVIOUS
<1> USE StorageAssumption, KeysDiffer
<1>1. StorageTypeOK
  <2>1. synced \in BOOLEAN /\ raced \in BOOLEAN /\ lost \in BOOLEAN
    BY DEF StorageInit
  <2>2. drawn \in 0..MaxDrawn
    BY DEF StorageInit, StorageAssumption
  <2> QED
    BY <2>1, <2>2 DEF StorageInit, StorageTypeOK
<1>2. EnvironmentKey /\ FileKey
  BY DEF StorageInit, EnvironmentKey, FileKey
<1>3. \A p \in Processes : stage[p] = "off"
  BY DEF StorageInit
<1>4. /\ \A p \in Processes : stage[p] = "save" => gcm[p] \in 1..MaxDrawn
      /\ \A p \in Processes : stage[p] \in {"draw", "read", "save"} => envKey = Absent
  BY <1>3
<1> QED
  BY <1>1, <1>2, <1>4 DEF KeysInv

LEMMA KeysStep == KeysInv /\ [StorageNext]_storageVars => KeysInv'
<1> SUFFICES ASSUME KeysInv, [StorageNext]_storageVars PROVE KeysInv'
  OBVIOUS
<1> USE StorageAssumption, KeysDiffer DEF KeysInv, Enter, UseKey, Leave
<1>1. ASSUME NEW p \in Processes, LoadOrGenerateKey(p) PROVE KeysInv'
  <2>1. StorageTypeOK'
    BY <1>1 DEF LoadOrGenerateKey, StorageTypeOK, Keys
  <2>2. (\A q \in Processes : stage[q] = "save" => gcm[q] \in 1..MaxDrawn)'
    BY <1>1 DEF LoadOrGenerateKey, StorageTypeOK
  <2>3. (\A q \in Processes : stage[q] \in {"draw", "read", "save"} => envKey = Absent)'
    BY <1>1 DEF LoadOrGenerateKey, StorageTypeOK
  <2>4. EnvironmentKey'
    BY <1>1 DEF LoadOrGenerateKey, StorageTypeOK, EnvironmentKey
  <2>5. (envKey # Absent \/ raced \/ lost \/ FileKey)'
    BY <1>1 DEF LoadOrGenerateKey, StorageTypeOK, FileKey
  <2> QED
    BY <2>1, <2>2, <2>3, <2>4, <2>5
<1>2. ASSUME NEW p \in Processes, ReadKeyFile(p) PROVE KeysInv'
  <2>1. StorageTypeOK'
    BY <1>2 DEF ReadKeyFile, StorageTypeOK, Keys
  <2>2. (\A q \in Processes : stage[q] = "save" => gcm[q] \in 1..MaxDrawn)'
    BY <1>2 DEF ReadKeyFile, StorageTypeOK
  <2>3. (\A q \in Processes : stage[q] \in {"draw", "read", "save"} => envKey = Absent)'
    BY <1>2 DEF ReadKeyFile, StorageTypeOK
  <2>4. EnvironmentKey'
    BY <1>2 DEF ReadKeyFile, StorageTypeOK, EnvironmentKey
  <2>5. (envKey # Absent \/ raced \/ lost \/ FileKey)'
    BY <1>2 DEF ReadKeyFile, StorageTypeOK, FileKey
  <2> QED
    BY <2>1, <2>2, <2>3, <2>4, <2>5
<1>3. ASSUME NEW p \in Processes, GenerateKey(p) PROVE KeysInv'
  <2>1. StorageTypeOK'
    BY <1>3 DEF GenerateKey, StorageTypeOK, Keys
  <2>2. (\A q \in Processes : stage[q] = "save" => gcm[q] \in 1..MaxDrawn)'
    BY <1>3 DEF GenerateKey, StorageTypeOK
  <2>3. (\A q \in Processes : stage[q] \in {"draw", "read", "save"} => envKey = Absent)'
    BY <1>3 DEF GenerateKey, StorageTypeOK
  <2>4. EnvironmentKey'
    BY <1>3 DEF GenerateKey, StorageTypeOK, EnvironmentKey
  <2>5. CASE keyFile = Missing
    BY <1>3, <2>1, <2>2, <2>3, <2>4, <2>5 DEF GenerateKey, StorageTypeOK, FileKey
  <2>6. CASE keyFile # Missing
    BY <1>3, <2>1, <2>2, <2>3, <2>4, <2>6 DEF GenerateKey
  <2> QED
    BY <2>5, <2>6
<1>4. ASSUME NEW p \in Processes, SaveKey(p) PROVE KeysInv'
  <2>1. StorageTypeOK'
    BY <1>4 DEF SaveKey, StorageTypeOK, Keys
  <2>2. (\A q \in Processes : stage[q] = "save" => gcm[q] \in 1..MaxDrawn)'
    BY <1>4 DEF SaveKey, StorageTypeOK
  <2>3. (\A q \in Processes : stage[q] \in {"draw", "read", "save"} => envKey = Absent)'
    BY <1>4 DEF SaveKey, StorageTypeOK
  <2>4. EnvironmentKey'
    BY <1>4 DEF SaveKey, StorageTypeOK, EnvironmentKey
  <2>5. (envKey # Absent \/ raced \/ lost \/ FileKey)'
    BY <1>4 DEF SaveKey, StorageTypeOK, FileKey
  <2> QED
    BY <2>1, <2>2, <2>3, <2>4, <2>5
<1>5. ASSUME NEW p \in Processes, OpenBolt(p) PROVE KeysInv'
  BY <1>5 DEF OpenBolt, StorageTypeOK, EnvironmentKey, FileKey
<1>6. ASSUME NEW p \in Processes, Store(p) PROVE KeysInv'
  <2>1. StorageTypeOK'
    BY <1>6 DEF Store, StorageTypeOK
  <2>2. EnvironmentKey'
    BY <1>6 DEF Store, StorageTypeOK, EnvironmentKey
  <2>3. (envKey # Absent \/ raced \/ lost \/ FileKey)'
    BY <1>6 DEF Store, StorageTypeOK, FileKey
  <2> QED
    BY <1>6, <2>1, <2>2, <2>3 DEF Store
<1>7. ASSUME NEW p \in Processes, Remove(p) PROVE KeysInv'
  <2>1. StorageTypeOK'
    BY <1>7 DEF Remove, StorageTypeOK
  <2>2. EnvironmentKey'
    BY <1>7 DEF Remove, StorageTypeOK, EnvironmentKey
  <2>3. (envKey # Absent \/ raced \/ lost \/ FileKey)'
    BY <1>7 DEF Remove, StorageTypeOK, FileKey
  <2> QED
    BY <1>7, <2>1, <2>2, <2>3 DEF Remove
<1>8. ASSUME NEW p \in Processes, EndProcess(p) PROVE KeysInv'
  BY <1>8 DEF EndProcess, StorageTypeOK, EnvironmentKey, FileKey
<1>9. CASE Sync
  BY <1>9 DEF Sync, StorageTypeOK, EnvironmentKey, FileKey
<1>10. CASE PowerFails
  BY <1>10 DEF PowerFails, StorageTypeOK, EnvironmentKey, FileKey
<1>11. CASE UNCHANGED storageVars
  BY <1>11 DEF storageVars, StorageTypeOK, EnvironmentKey, FileKey
<1> QED
  BY <1>1, <1>2, <1>3, <1>4, <1>5, <1>6, <1>7, <1>8, <1>9, <1>10, <1>11 DEF StorageNext

THEOREM KeysHold == StorageSpec => []KeysInv
BY KeysInitially, KeysStep, PTL DEF StorageSpec

(* Everything that is stored can be opened by the next start, for any      *)
(* number of processes that are killed anywhere, unless two first starts   *)
(* raced or the power failed before the key file was on the disk.          *)
THEOREM StoredCanBeRead == StorageSpec => []StoredIsReadable
<1>1. KeysInv => StoredIsReadable
  BY DEF KeysInv, EnvironmentKey, FileKey, StoredIsReadable, KeyOfNextStart
<1> QED
  BY <1>1, KeysHold, PTL

-----------------------------------------------------------------------------
(* Migrations.                                                             *)

(* The index migration is the last; Log is none.                           *)
LEMMA IDFacts ==
  /\ N \in Nat /\ N > 0
  /\ Indexes \in IDs /\ Indexes \notin Data /\ Log \notin Data /\ Log \notin IDs
  /\ Data \subseteq IDs /\ 1 \in IDs
  /\ \A i \in IDs : i # Indexes => i \in Data
BY NAssumption DEF Indexes, IDs, Data, Log

(* A command never records or drops what is not a migration of the code.   *)
THEOREM TypeCorrect == Spec => []TypeOK
  <1>1. Init => TypeOK
    <2> SUFFICES ASSUME Init PROVE TypeOK
      OBVIOUS
    <2>1. readings \in BOOLEAN
      BY DEF Init
    <2>2. /\ tables = {} /\ older = {} /\ indexed = {} /\ record = {}
          /\ now \in Nat /\ plan \in Plans
          /\ appliedAt \in [IDs -> Nat]
      BY DEF Init
    <2>3. /\ pending \in [Procs -> SUBSET IDs] /\ target \in [Procs -> IDs]
          /\ todo \in [Procs -> SUBSET ({Log} \cup Data)] /\ first \in [Procs -> SUBSET Data]
      BY IDFacts DEF Init
    <2>4. /\ pc = [p \in Procs |-> "idle"] /\ cmd = [p \in Procs |-> "status"]
          /\ outcome = [p \in Procs |-> "failed"]
      BY DEF Init
    <2> QED
      BY <2>1, <2>2, <2>3, <2>4 DEF TypeOK, Commands
  <1>2. TypeOK /\ [Next]_vars => TypeOK'
    <2> SUFFICES ASSUME TypeOK, [Next]_vars PROVE TypeOK'
      OBVIOUS
    <2> USE IDFacts
    <2> USE DEF TypeOK
    <2>1. CASE UNCHANGED vars
      BY <2>1 DEF vars, schema, locals
    <2>2. CASE ClockSteps
      BY <2>2, ClockAssumption DEF ClockSteps, schema, locals
    <2>4. CASE AddReading \/ PurgeReadings
      <3>1. readings' \in BOOLEAN
        BY <2>4 DEF AddReading, PurgeReadings
      <3> QED
        BY <2>4, <3>1 DEF AddReading, PurgeReadings, locals
    <2>3. ASSUME NEW p \in Procs, Step(p) PROVE TypeOK'
      <3>0. plan.commands \subseteq Commands
        BY PlansAssumption DEF Plan
      <3>1. CASE Begin(p)
        BY <3>0, <3>1 DEF Begin, schema, locals
      <3>2. CASE Abort(p)
        BY <3>2 DEF Abort, Return, schema
      <3>3. CASE EnsureMigrationTable(p)
        <4>1. (IF cmd[p] = "reset" THEN "up" ELSE cmd[p]) \in {"up", "down", "status"}
          BY DEF Commands
        <4>2. older' \subseteq Data
          BY <3>3 DEF EnsureMigrationTable
        <4> QED
          BY <3>3, <4>1, <4>2 DEF EnsureMigrationTable, Goto, locals
      <3>4. CASE Status(p)
        BY <3>4 DEF Status, Return, schema
      <3>5. CASE ReadApplied(p)
        BY <3>5 DEF ReadApplied, Goto, schema
      <3>6. CASE Apply(p)
        BY <3>6 DEF Apply, RunUp
      <3>7. CASE UpReturns(p)
        BY <3>7 DEF UpReturns, Return, schema
      <3>8. CASE ReadLast(p)
        BY <3>8 DEF ReadLast, Return, Goto, schema
      <3>9. CASE Rollback(p)
        BY <3>9 DEF Rollback, RunDown, Return
      <3>10. CASE List(p)
        BY <3>10 DEF List, Goto, schema
      <3>11. CASE Drop(p)
        BY <3>11 DEF Drop
      <3>12. CASE Dropped(p)
        BY <3>12 DEF Dropped, Goto, schema, locals
      <3>13. CASE Refuse(p)
        BY <3>13 DEF Refuse, Return, schema
      <3> QED
        BY <2>3, <3>1, <3>2, <3>3, <3>4, <3>5, <3>6, <3>7, <3>8, <3>9, <3>10, <3>11, <3>12,
           <3>13 DEF Step
    <2> QED
      BY <2>1, <2>2, <2>3, <2>4 DEF Next
  <1> QED
    BY <1>1, <1>2, PTL DEF Spec

-----------------------------------------------------------------------------
(* Nobody is in the middle of a Reset when no plan has one.                *)
NoReset ==
  "reset" \notin plan.commands => \A p \in Procs : pc[p] \notin {"list", "drop"}

TablesInv == TypeOK /\ NoReset /\ TableIffRecorded

(* Without Reset the tables in the file are those of the recorded          *)
(* migrations, for any number of processes whose commands are killed, fail *)
(* and overlap in any way: every change of a table and of its record is    *)
(* one transaction, and those that find the record changed are refused.    *)
THEOREM TablesRecorded == Spec => []TableIffRecorded
  <1>1. Init => NoReset /\ TableIffRecorded
    BY DEF Init, NoReset, TableIffRecorded
  <1>2. TablesInv /\ [Next]_vars => (NoReset /\ TableIffRecorded)'
    <2> SUFFICES ASSUME TablesInv, [Next]_vars, "reset" \notin plan.commands, plan' = plan
                 PROVE  (NoReset /\ TableIffRecorded)'
      <3>1. [Next]_vars => plan' = plan
        BY DEF Next, vars, Step, ClockSteps, AddReading, PurgeReadings, Begin, Abort, EnsureMigrationTable, Status,
           ReadApplied, Apply, UpReturns, ReadLast, Rollback, List, Drop, Dropped, Refuse
      <3> QED
        BY <3>1 DEF NoReset, TableIffRecorded
    <2> USE IDFacts
    <2> USE DEF TablesInv, TypeOK, NoReset, TableIffRecorded
    <2>1. CASE UNCHANGED vars
      BY <2>1 DEF vars, schema, locals
    <2>2. CASE ClockSteps \/ AddReading \/ PurgeReadings
      BY <2>2 DEF ClockSteps, AddReading, PurgeReadings, schema
    <2>3. ASSUME NEW p \in Procs, Step(p) PROVE (NoReset /\ TableIffRecorded)'
      <3>1. CASE Begin(p)
        BY <3>1 DEF Begin, schema
      <3>2. CASE Abort(p)
        BY <3>2 DEF Abort, Return, schema
      <3>3. CASE EnsureMigrationTable(p)
        <4>1. (IF cmd[p] = "reset" THEN "up" ELSE cmd[p]) \notin {"list", "drop"}
          BY DEF Commands
        <4> QED
          BY <3>3, <4>1 DEF EnsureMigrationTable, Goto
      <3>4. CASE Status(p)
        BY <3>4 DEF Status, Return, schema
      <3>5. CASE ReadApplied(p)
        BY <3>5 DEF ReadApplied, Goto, schema
      <3>6. CASE Apply(p)
        BY <3>6 DEF Apply, RunUp
      <3>7. CASE UpReturns(p)
        BY <3>7 DEF UpReturns, Return, schema
      <3>8. CASE ReadLast(p)
        BY <3>8 DEF ReadLast, Return, Goto, schema
      <3>9. CASE Rollback(p)
        BY <3>9 DEF Rollback, RunDown, Return
      <3>10. CASE List(p)
        BY <3>10 DEF List
      <3>11. CASE Drop(p)
        BY <3>11 DEF Drop
      <3>12. CASE Dropped(p)
        BY <3>12 DEF Dropped, Goto, schema
      <3>13. CASE Refuse(p)
        BY <3>13 DEF Refuse, Return, schema
      <3> QED
        BY <2>3, <3>1, <3>2, <3>3, <3>4, <3>5, <3>6, <3>7, <3>8, <3>9, <3>10, <3>11, <3>12,
           <3>13 DEF Step
    <2> QED
      BY <2>1, <2>2, <2>3 DEF Next
  <1> QED
    BY <1>1, <1>2, TypeCorrect, PTL DEF Spec, TablesInv

-----------------------------------------------------------------------------
(* An operator alone: the other processes never start, what a command has  *)
(* read of the file is still so, and each place belongs to its commands.   *)
Sole(o) ==
  /\ \A p \in Procs \ {o} : pc[p] = "idle" /\ outcome[p] = "failed"
  /\ pc[o] \in {"up", "apply"} => cmd[o] \in {"up", "reset"}
  /\ pc[o] \in {"down", "rollback"} => cmd[o] = "down"
  /\ pc[o] = "status" => cmd[o] = "status"
  /\ pc[o] \in {"list", "drop"} => cmd[o] = "reset"
  /\ pc[o] = "apply" => pending[o] = IDs \ record
  /\ pc[o] = "drop" => todo[o] = tables

\* What a file holds that no transaction of the code was ever half of.
FileInv ==
  /\ Log \notin tables => record = {}
  /\ indexed \subseteq tables

\* How far a Reset has come.
ResetInv(o) ==
  cmd[o] = "reset" =>
    /\ pc[o] = "ensure" => tables = {}
    /\ pc[o] = "up" => tables = {Log} /\ record = {}
    /\ pc[o] = "apply" => /\ Log \in tables
                          /\ record \cap Data = tables \cap Data
                          /\ Indexes \in record => indexed = Data

UpInv(o) == Succeeded(o, "up") \/ Succeeded(o, "reset") => record = IDs

RebuiltInv(o) ==
  Succeeded(o, "reset") => tables = {Log} \cup Data /\ indexed = Data /\ record = IDs

SoleInv(o) == Sole(o) /\ FileInv /\ ResetInv(o) /\ UpInv(o) /\ RebuiltInv(o)

AllSole == \A o \in Procs : plan.crew = {o} => SoleInv(o)

(* Every statement of a command leaves the operator's own view right.      *)
LEMMA StepKeepsSole ==
  ASSUME TypeOK, NEW o \in Procs, plan.crew = {o}, SoleInv(o), Step(o)
  PROVE  SoleInv(o)'
  <1> USE IDFacts
  <1> USE DEF TypeOK, SoleInv, Sole, FileInv, ResetInv, UpInv, RebuiltInv, Succeeded
  <1>1. CASE Begin(o)
    BY <1>1 DEF Begin, schema, locals
  <1>2. CASE Abort(o)
    BY <1>2 DEF Abort, Return, schema
  <1>3. CASE EnsureMigrationTable(o)
    BY <1>3 DEF EnsureMigrationTable, Goto, locals, Commands
  <1>4. CASE Status(o)
    BY <1>4 DEF Status, Return, schema
  <1>5. CASE ReadApplied(o)
    BY <1>5 DEF ReadApplied, Goto, schema
  <1>6. CASE Apply(o)
    BY <1>6 DEF Apply, RunUp, IsNext, Applicable
  <1>7. CASE UpReturns(o)
    <2>1. record = IDs
      BY <1>7 DEF UpReturns
    <2>2. cmd[o] = "reset" => tables = {Log} \cup Data /\ indexed = Data
      <3> SUFFICES ASSUME cmd[o] = "reset" PROVE tables = {Log} \cup Data /\ indexed = Data
        OBVIOUS
      <3>1. Log \in tables /\ record \cap Data = tables \cap Data
        BY <1>7 DEF UpReturns
      <3>2. indexed = Data
        BY <1>7, <2>1 DEF UpReturns
      <3>3. Data \subseteq tables
        BY <2>1, <3>1
      <3> QED
        BY <3>1, <3>2, <3>3
    <2>3. UNCHANGED <<tables, indexed, record, cmd>> /\ pc' = [pc EXCEPT ![o] = "idle"]
      BY <1>7 DEF UpReturns, Return, schema
    <2>4. outcome' = [outcome EXCEPT ![o] = "ok"]
      BY <1>7 DEF UpReturns, Return
    <2> QED
      BY <2>1, <2>2, <2>3, <2>4
  <1>8. CASE ReadLast(o)
    BY <1>8 DEF ReadLast, Return, Goto, schema
  <1>9. CASE Rollback(o)
    BY <1>9 DEF Rollback, RunDown, Return
  <1>10. CASE List(o)
    BY <1>10 DEF List, Goto, schema
  <1>11. CASE Drop(o)
    BY <1>11 DEF Drop
  <1>12. CASE Dropped(o)
    BY <1>12 DEF Dropped, Goto, schema, locals
  <1>13. CASE Refuse(o)
    BY <1>13 DEF Refuse, Return, schema
  <1> QED
    BY <1>1, <1>2, <1>3, <1>4, <1>5, <1>6, <1>7, <1>8, <1>9, <1>10, <1>11, <1>12, <1>13 DEF Step

(* Whoever works alone on the file finds it as its own commands left it.   *)
LEMMA SoleInvariant == Spec => [](TypeOK /\ AllSole)
  <1>1. Init => AllSole
    BY DEF Init, AllSole, SoleInv, Sole, FileInv, ResetInv, UpInv, RebuiltInv, Succeeded
  <1>2. TypeOK /\ AllSole /\ [Next]_vars => AllSole'
    <2> SUFFICES ASSUME TypeOK, AllSole, [Next]_vars, NEW o \in Procs, plan'.crew = {o}
                 PROVE  SoleInv(o)'
      BY DEF AllSole
    <2>1. CASE UNCHANGED vars
      BY <2>1 DEF vars, schema, locals, AllSole, SoleInv, Sole, FileInv, ResetInv, UpInv,
                  RebuiltInv, Succeeded
    <2>2. CASE ClockSteps \/ AddReading \/ PurgeReadings
      BY <2>2 DEF ClockSteps, AddReading, PurgeReadings, schema, locals, AllSole, SoleInv, Sole, FileInv,
                  ResetInv, UpInv, RebuiltInv, Succeeded
    <2>3. ASSUME NEW p \in Procs, Step(p) PROVE SoleInv(o)'
      <3>1. plan' = plan
        BY <2>3 DEF Step, Begin, Abort, EnsureMigrationTable, Status, ReadApplied, Apply,
           UpReturns, ReadLast, Rollback, List, Drop, Dropped, Refuse
      <3>2. SoleInv(o)
        BY <3>1 DEF AllSole
      <3>3. pc[p] # "idle" \/ p \in plan.crew
        BY <2>3 DEF Step, Begin, Abort, EnsureMigrationTable, Status, ReadApplied, Apply,
           UpReturns, ReadLast, Rollback, List, Drop, Dropped, Refuse
      <3>4. p = o
        BY <3>1, <3>2, <3>3 DEF SoleInv, Sole
      <3> QED
        BY <2>3, <3>1, <3>2, <3>4, StepKeepsSole
    <2> QED
      BY <2>1, <2>2, <2>3 DEF Next
  <1> QED
    BY <1>1, <1>2, TypeCorrect, PTL DEF Spec

(* Alone names an operator whose invariant holds.                          *)
LEMMA SoleFacts ==
  ASSUME TypeOK, AllSole, Alone
  PROVE  \E o \in Procs : plan.crew = {o} /\ SoleInv(o)
BY DEF AllSole, Alone

(* An Up that succeeded has recorded every migration of the code, for any  *)
(* number of them, when no other process is at work.                       *)
THEOREM UpRecords == Spec => []UpRecordsAll
  <1>1. TypeOK /\ AllSole => UpRecordsAll
    BY SoleFacts DEF SoleInv, Sole, UpInv, UpRecordsAll, Succeeded
  <1> QED
    BY <1>1, SoleInvariant, PTL

(* A Reset that succeeded has rebuilt the whole schema, from any remains   *)
(* that interrupted commands before it have left in the file.              *)
THEOREM ResetRebuildsSchema == Spec => []ResetRebuilds
  <1>1. TypeOK /\ AllSole => ResetRebuilds
    BY SoleFacts DEF SoleInv, Sole, RebuiltInv, ResetRebuilds, Succeeded
  <1> QED
    BY <1>1, SoleInvariant, PTL

-----------------------------------------------------------------------------
(* With a clock that goes forward as well, the order in which Log says the *)
(* migrations were applied is the order of their IDs.                      *)
OrderInv(o) ==
  /\ \A i \in record : \A j \in 1..i : j \in record
  /\ \A i, j \in record : i < j => appliedAt[i] < appliedAt[j]
  /\ \A i \in record : appliedAt[i] < now
  /\ pc[o] = "rollback" => target[o] \in record /\ \A j \in record : j <= target[o]
  /\ Indexes \in record => indexed = tables \ {Log}

AllOrdered == \A o \in Procs : plan.crew = {o} /\ ~plan.clockSteps => OrderInv(o)

(* Up applies the lowest pending migration and Down takes the highest back.*)
LEMMA StepKeepsOrder ==
  ASSUME TypeOK, NEW o \in Procs, plan.crew = {o}, SoleInv(o), OrderInv(o), Step(o)
  PROVE  OrderInv(o)'
  <1> USE IDFacts
  <1> USE DEF TypeOK, OrderInv
  <1>1. CASE Begin(o)
    BY <1>1 DEF Begin, schema, locals
  <1>2. CASE Abort(o)
    BY <1>2 DEF Abort, Return, schema
  <1>3. CASE EnsureMigrationTable(o)
    BY <1>3 DEF EnsureMigrationTable, Goto, locals, Commands
  <1>4. CASE Status(o)
    BY <1>4 DEF Status, Return, schema
  <1>5. CASE ReadApplied(o)
    BY <1>5 DEF ReadApplied, Goto, schema
  <1>6. CASE Apply(o)
    <2>1. PICK i \in IDs :
            /\ IsNext(o, i) /\ Applicable(i)
            /\ tables' = IF i = Indexes THEN tables ELSE tables \cup {i}
            /\ indexed' = IF i = Indexes THEN Data ELSE indexed
            /\ record' = record \cup {i}
            /\ appliedAt' = [appliedAt EXCEPT ![i] = now]
      BY <1>6 DEF Apply, RunUp
    <2>2. now' = now + 1 /\ UNCHANGED <<pc, target>> /\ pc[o] = "apply"
      BY <1>6 DEF Apply
    <2>3. \A j \in IDs : j \notin record => i <= j
      BY <2>1, <2>2 DEF SoleInv, Sole, IsNext
    <2>4. \A j \in 1..i : j = i \/ j \in record
      <3>1. \A j \in 1..i : j \in IDs /\ (j = i \/ j < i)
        BY DEF IDs
      <3>2. \A j \in IDs : j < i => ~(i <= j)
        BY DEF IDs
      <3> QED
        BY <2>3, <3>1, <3>2
    <2>5. \A j \in record : j < i
      <3>1. i \notin record
        BY <2>1 DEF Applicable
      <3>2. \A j \in record : i \in 1..j => i \in record
        OBVIOUS
      <3> QED
        BY <3>1, <3>2 DEF IDs
    <2>6. (\A k \in record : \A j \in 1..k : j \in record)'
      BY <2>1, <2>4
    <2>7. (\A k, j \in record : k < j => appliedAt[k] < appliedAt[j])'
      <3> SUFFICES ASSUME NEW k \in record \cup {i}, NEW j \in record \cup {i}, k < j
                   PROVE  appliedAt'[k] < appliedAt'[j]
        BY <2>1
      <3>1. k \in IDs /\ j \in IDs
        OBVIOUS
      <3>2. k # i
        BY <2>5, <3>1 DEF IDs
      <3>3. k \in record /\ appliedAt'[k] = appliedAt[k]
        BY <2>1, <3>1, <3>2
      <3>4. CASE j = i
        BY <2>1, <3>3, <3>4
      <3>5. CASE j # i
        BY <2>1, <3>1, <3>3, <3>5
      <3> QED
        BY <3>4, <3>5
    <2>8. (\A k \in record : appliedAt[k] < now)'
      BY <2>1, <2>2
    <2>9. (Indexes \in record => indexed = tables \ {Log})'
      <3>1. Indexes \in record' => i = Indexes
        BY <2>1, <2>5 DEF IDs, Indexes
      <3>2. i = Indexes => Data \subseteq tables
        BY <2>1 DEF Applicable
      <3> QED
        BY <2>1, <3>1, <3>2
    <2> QED
      BY <2>2, <2>6, <2>7, <2>8, <2>9
  <1>7. CASE UpReturns(o)
    BY <1>7 DEF UpReturns, Return, schema
  <1>8. CASE ReadLast(o)
    <2>1. UNCHANGED <<tables, indexed, record, appliedAt, now>>
      BY <1>8 DEF ReadLast, schema
    <2>2. pc'[o] = "rollback" => \E i \in IDs : IsLast(i) /\ target'[o] = i
      BY <1>8 DEF ReadLast, Return, Goto
    <2>3. \A i \in IDs : IsLast(i) => i \in record /\ \A j \in record : j <= i
      <3> SUFFICES ASSUME NEW i \in IDs, IsLast(i), NEW j \in record PROVE i \in record /\ j <= i
        BY DEF IsLast
      <3>1. i \in record /\ appliedAt[i] \in Nat /\ appliedAt[j] \in Nat /\ j \in IDs
        BY DEF IsLast
      <3>2. j # i => appliedAt[j] <= appliedAt[i]
        BY <3>1 DEF IsLast
      <3>3. i < j => appliedAt[i] < appliedAt[j]
        BY <3>1
      <3> QED
        BY <3>1, <3>2, <3>3 DEF IDs
    <2> QED
      BY <2>1, <2>2, <2>3
  <1>9. CASE Rollback(o)
    <2> DEFINE i == target[o]
    <2>1. /\ tables' = IF i = Indexes THEN tables ELSE tables \ {i}
          /\ indexed' = IF i = Indexes THEN {} ELSE indexed \ {i}
          /\ record' = record \ {i}
          /\ appliedAt' = [appliedAt EXCEPT ![i] = 0]
      BY <1>9 DEF Rollback, RunDown
    <2>2. now' = now /\ pc' = [pc EXCEPT ![o] = "idle"]
      BY <1>9 DEF Rollback, Return
    <2>3. i \in record /\ \A j \in record : j <= i
      BY <1>9 DEF Rollback
    <2> HIDE DEF i
    <2>4. \A k \in record : \A j \in 1..k : j \in IDs /\ (k # i => j # i)
      <3> SUFFICES ASSUME NEW k \in record, NEW j \in 1..k PROVE j \in IDs /\ (k # i => j # i)
        OBVIOUS
      <3>1. k \in IDs /\ i \in IDs /\ k <= i
        BY <2>3
      <3> QED
        BY <3>1 DEF IDs
    <2>5. (\A k \in record : \A j \in 1..k : j \in record)'
      BY <2>1, <2>4
    <2>6. \A k \in record' : k \in record /\ appliedAt'[k] = appliedAt[k]
      BY <2>1, <2>3
    <2>7. (\A k, j \in record : k < j => appliedAt[k] < appliedAt[j])'
      BY <2>6
    <2>8. (\A k \in record : appliedAt[k] < now)'
      BY <2>2, <2>6
    <2>9. Indexes \notin record'
      <3>1. Indexes \in record => i = Indexes
        BY <2>3 DEF IDs, Indexes
      <3> QED
        BY <2>1, <3>1
    <2> QED
      BY <2>2, <2>5, <2>7, <2>8, <2>9
  <1>10. CASE List(o)
    BY <1>10 DEF List, Goto, schema
  <1>11. CASE Drop(o)
    BY <1>11 DEF Drop
  <1>12. CASE Dropped(o)
    BY <1>12 DEF Dropped, Goto, schema, locals
  <1>13. CASE Refuse(o)
    BY <1>13 DEF Refuse, Return, schema
  <1> QED
    BY <1>1, <1>2, <1>3, <1>4, <1>5, <1>6, <1>7, <1>8, <1>9, <1>10, <1>11, <1>12, <1>13 DEF Step

(* The order of IDs is the order of application throughout.                *)
LEMMA OrderInvariant == Spec => [](TypeOK /\ AllOrdered)
  <1>1. Init => AllOrdered
    BY DEF Init, AllOrdered, OrderInv
  <1>2. TypeOK /\ AllSole /\ AllOrdered /\ [Next]_vars => AllOrdered'
    <2> SUFFICES ASSUME TypeOK, AllSole, AllOrdered, [Next]_vars, NEW o \in Procs,
                        plan'.crew = {o}, ~plan'.clockSteps
                 PROVE  OrderInv(o)'
      BY DEF AllOrdered
    <2>1. CASE UNCHANGED vars
      BY <2>1 DEF vars, schema, locals, AllOrdered, OrderInv
    <2>2. CASE ClockSteps
      BY <2>2 DEF ClockSteps
    <2>4. CASE AddReading \/ PurgeReadings
      BY <2>4 DEF AddReading, PurgeReadings, locals, AllOrdered, OrderInv
    <2>3. ASSUME NEW p \in Procs, Step(p) PROVE OrderInv(o)'
      <3>1. plan' = plan
        BY <2>3 DEF Step, Begin, Abort, EnsureMigrationTable, Status, ReadApplied, Apply,
           UpReturns, ReadLast, Rollback, List, Drop, Dropped, Refuse
      <3>2. SoleInv(o) /\ OrderInv(o)
        BY <3>1 DEF AllSole, AllOrdered
      <3>3. pc[p] # "idle" \/ p \in plan.crew
        BY <2>3 DEF Step, Begin, Abort, EnsureMigrationTable, Status, ReadApplied, Apply,
           UpReturns, ReadLast, Rollback, List, Drop, Dropped, Refuse
      <3>4. p = o
        BY <3>1, <3>2, <3>3 DEF SoleInv, Sole
      <3> QED
        BY <2>3, <3>1, <3>2, <3>4, StepKeepsOrder
    <2> QED
      BY <2>1, <2>2, <2>3, <2>4 DEF Next
  <1> QED
    BY <1>1, <1>2, SoleInvariant, PTL DEF Spec

(* The recorded migrations are always the first so many of the code, when  *)
(* one operator works on the file and its clock goes forward, whatever is  *)
(* interrupted: Down takes back the highest one.                           *)
THEOREM PrefixApplied == Spec => []AppliedIsPrefix
  <1>1. TypeOK /\ AllOrdered => AppliedIsPrefix
    BY DEF AllOrdered, OrderInv, AppliedIsPrefix, Orderly, Alone
  <1> QED
    BY <1>1, OrderInvariant, PTL

(* While the index migration is recorded no table in the file lacks its    *)
(* indexes, for any number of tables.                                      *)
THEOREM TablesIndexed == Spec => []IndexedWhileRecorded
  <1>1. TypeOK /\ AllOrdered => IndexedWhileRecorded
    BY DEF AllOrdered, OrderInv, IndexedWhileRecorded, Orderly, Alone
  <1> QED
    BY <1>1, OrderInvariant, PTL

-----------------------------------------------------------------------------
(* Inventory: names and pins, whoever interleaves.                         *)

LiveRow == {r \in DeviceRow : r.state = "live"}

\* A call for a node or a device is for a row that is or was there, and past
\* its first statement it has read a row.
CallsForRows ==
  \A c \in Callers :
    /\ call[c] \in NodeChange =>
         node[call[c].id].state # "free" /\ (call[c].at # "read" => call[c].row \in NodeRow)
    /\ call[c] \in DeviceChange =>
         device[call[c].id].state # "free" /\ (call[c].at # "read" => call[c].row \in LiveRow)

NamesInv == InventoryTypeOK /\ CallsForRows /\ UniqueNames /\ OneDevicePerPin

LEMMA RowFacts ==
  /\ EmptyNode \in NodeRow /\ EmptyDevice \in DeviceRow
  /\ EmptyNode.state = "free" /\ EmptyDevice.state = "free"
  /\ NoCluster \notin Clusters
<1> USE InventoryAssumption DEF InventoryAssumption
<1>1. EmptyNode \in NodeRow
  BY DEF EmptyNode, NodeRow, RowStates
<1>2. EmptyDevice \in DeviceRow
  BY DEF EmptyDevice, DeviceRow, RowStates, Values
<1> QED
  BY <1>1, <1>2 DEF EmptyNode, EmptyDevice

\* The operation tells the kind of call.
LEMMA CallKinds ==
  ASSUME NEW q \in Call \cup {NoCall}
  PROVE  /\ q.op \in NodeCreations => q \in NodeCreation
         /\ q.op \in NodeCalls \ NodeCreations => q \in NodeChange
         /\ q.op = "CreateDevice" => q \in DeviceCreation
         /\ q.op \in DeviceCalls \ {"CreateDevice"} => q \in DeviceChange
         /\ q.op \in NodeCalls \cup DeviceCalls => q # NoCall
         /\ q # NoCall => q \in Call
BY DEF Call, NoCall, NodeCreation, NodeChange, DeviceCreation, DeviceChange, NodeCreations,
       NodeCalls, DeviceCalls

\* Kinds have no call in common.
LEMMA KindsDiffer ==
  /\ \A q \in NodeCreation : q.op \in NodeCreations /\ q \notin NodeChange /\ q \notin DeviceChange
  /\ \A q \in NodeChange : q.op \in NodeCalls \ NodeCreations /\ q \notin DeviceChange
  /\ \A q \in DeviceCreation : q.op = "CreateDevice" /\ q \notin NodeChange /\ q \notin DeviceChange
  /\ \A q \in DeviceChange : q.op \in DeviceCalls \ {"CreateDevice"} /\ q \notin NodeChange
  /\ NoCall \notin NodeChange /\ NoCall \notin DeviceChange
BY DEF NoCall, NodeCreation, NodeChange, DeviceCreation, DeviceChange, NodeCreations,
       NodeCalls, DeviceCalls

LEMMA NamesInitially == InventoryInit => NamesInv
<1> SUFFICES ASSUME InventoryInit PROVE NamesInv
  OBVIOUS
<1>1. InventoryTypeOK
  BY RowFacts DEF InventoryInit, InventoryTypeOK, RowStates, Values
<1>2. CallsForRows
  BY KindsDiffer DEF InventoryInit, CallsForRows
<1>3. UniqueNames
  BY RowFacts DEF InventoryInit, UniqueNames
<1>4. OneDevicePerPin
  BY RowFacts DEF InventoryInit, OneDevicePerPin, LiveDevice
<1> QED
  BY <1>1, <1>2, <1>3, <1>4 DEF NamesInv

\* A step of one call that leaves the tables alone.
LEMMA OneCallMoves ==
  ASSUME NamesInv, NEW c \in Callers, NEW q \in Call \cup {NoCall},
         call' = [call EXCEPT ![c] = q], UNCHANGED <<cluster, node, device, saved>>,
         q \in NodeChange =>
           node[q.id].state # "free" /\ (q.at # "read" => q.row \in NodeRow),
         q \in DeviceChange =>
           device[q.id].state # "free" /\ (q.at # "read" => q.row \in LiveRow)
  PROVE  NamesInv'
<1>1. InventoryTypeOK'
  BY DEF NamesInv, InventoryTypeOK
<1>2. CallsForRows'
  BY DEF NamesInv, InventoryTypeOK, CallsForRows
<1>3. UniqueNames' /\ OneDevicePerPin'
  BY DEF NamesInv, UniqueNames, OneDevicePerPin, LiveDevice
<1> QED
  BY <1>1, <1>2, <1>3 DEF NamesInv

LEMMA FinishMoves ==
  ASSUME NamesInv, NEW c \in Callers, Finish(c), UNCHANGED <<cluster, node, device, saved>>
  PROVE  NamesInv'
BY OneCallMoves, KindsDiffer DEF Finish

\* A call that goes on keeps its kind and its row.
LEMMA CallGoesOn ==
  ASSUME NamesInv, NEW c \in Callers, NEW kind \in {NodeCreation, NodeChange, DeviceCreation, DeviceChange},
         call[c] \in kind, NEW q \in kind, q.id = call[c].id,
         q \in NodeChange => q.row \in NodeRow,
         q \in DeviceChange => q.row \in LiveRow,
         call' = [call EXCEPT ![c] = q], UNCHANGED <<cluster, node, device, saved>>
  PROVE  NamesInv'
<1>1. q \in Call
  BY DEF Call
<1>2. /\ q \in NodeChange => node[q.id].state # "free" /\ q.row \in NodeRow
      /\ q \in DeviceChange => device[q.id].state # "free" /\ q.row \in LiveRow
  BY KindsDiffer DEF NamesInv, CallsForRows
<1> QED
  BY <1>1, <1>2, OneCallMoves

LEMMA BeginKeeps ==
  ASSUME NamesInv, NEW c \in Callers,
         BeginCreateNode(c) \/ BeginNodeCall(c) \/ BeginCreateDevice(c) \/ BeginDeviceCall(c)
  PROVE  NamesInv'
<1> DEFINE begun(op, at, id, new) ==
             [op |-> op, at |-> at, id |-> id, new |-> new, row |-> NoRow, preload |-> NoCluster]
<1>1. CASE BeginCreateNode(c)
  <2>1. PICK new \in NodeFields, op \in NodeCreations, at \in {"name", "write"} :
          BeginCall(c, op, at, NoCluster, new)
    BY <1>1 DEF BeginCreateNode, NodeCreations
  <2>2. begun(op, at, NoCluster, new) \in NodeCreation
    BY DEF NodeCreation
  <2>3. begun(op, at, NoCluster, new) \in Call
    BY <2>2 DEF Call
  <2> QED
    BY <2>1, <2>2, <2>3, KindsDiffer, OneCallMoves DEF BeginCall
<1>2. CASE BeginNodeCall(c)
  <2>1. PICK n \in Nodes, new \in NodeFields, op \in NodeCalls \ NodeCreations :
          node[n].state # "free" /\ BeginCall(c, op, "read", n, new)
    BY <1>2 DEF BeginNodeCall, NodeCreations, NodeCalls
  <2>2. begun(op, "read", n, new) \in NodeChange
    BY DEF NodeChange
  <2>3. begun(op, "read", n, new) \in Call
    BY <2>2 DEF Call
  <2> QED
    BY <2>1, <2>2, <2>3, KindsDiffer, OneCallMoves DEF BeginCall
<1>3. CASE BeginCreateDevice(c)
  <2>1. PICK n \in Nodes, p \in Pins :
          BeginCall(c, "CreateDevice", "node", NoCluster, [node |-> n, pin |-> p])
    BY <1>3 DEF BeginCreateDevice
  <2>2. begun("CreateDevice", "node", NoCluster, [node |-> n, pin |-> p]) \in DeviceCreation
    BY DEF DeviceCreation
  <2>3. begun("CreateDevice", "node", NoCluster, [node |-> n, pin |-> p]) \in Call
    BY <2>2 DEF Call
  <2> QED
    BY <2>1, <2>2, <2>3, KindsDiffer, OneCallMoves DEF BeginCall
<1>4. CASE BeginDeviceCall(c)
  <2>1. PICK d \in Devices, new \in [value : Values, writable : BOOLEAN],
             op \in DeviceCalls \ {"CreateDevice"} :
          device[d].state # "free" /\ BeginCall(c, op, "read", d, new)
    BY <1>4 DEF BeginDeviceCall, DeviceCalls, Values
  <2>2. begun(op, "read", d, new) \in DeviceChange
    BY DEF DeviceChange
  <2>3. begun(op, "read", d, new) \in Call
    BY <2>2 DEF Call
  <2> QED
    BY <2>1, <2>2, <2>3, KindsDiffer, OneCallMoves DEF BeginCall
<1> QED
  BY <1>1, <1>2, <1>3, <1>4

\* The steps that look.
LEMMA LooksKeep ==
  ASSUME NamesInv, NEW c \in Callers,
         \/ ReadNode(c) \/ CheckName(c) \/ CheckIP(c) \/ CheckCluster(c)
         \/ CheckNode(c) \/ CheckPin(c) \/ ReadDevice(c)
  PROVE  NamesInv'
<1>1. call[c] \in Call \cup {NoCall}
  BY DEF NamesInv, InventoryTypeOK
<1>2. UNCHANGED <<cluster, node, device, saved>>
  BY DEF ReadNode, CheckName, CheckIP, CheckCluster, CheckNode, CheckPin, ReadDevice
<1>3. CASE Finish(c)
  BY <1>2, <1>3, FinishMoves
<1>4. CASE ReadNode(c) /\ ~Finish(c)
  <2>1. /\ call[c].op \in NodeCalls /\ call[c].at = "read"
        /\ call' = [call EXCEPT ![c] =
             [call[c] EXCEPT !.at = AfterNodeRead(call[c].op), !.row = node[call[c].id],
                !.preload = IF LiveCluster(node[call[c].id].cluster)
                            THEN node[call[c].id].cluster ELSE NoCluster]]
    BY <1>4 DEF ReadNode, Doing
  <2>2. call[c] \in NodeChange /\ call[c].op \in NodeCalls \ NodeCreations
    <3>1. call[c] \in NodeCreation => call[c].at # "read"
      BY DEF NodeCreation
    <3> QED
      BY <1>1, <2>1, <3>1, CallKinds
  <2>3. AfterNodeRead(call[c].op) \in {"name", "cluster", "write"}
    BY <2>2 DEF AfterNodeRead, NodeCalls, NodeCreations
  <2>4. /\ node[call[c].id] \in NodeRow
        /\ node[call[c].id].cluster \in Clusters \cup {NoCluster}
    BY <2>2 DEF NamesInv, InventoryTypeOK, NodeChange, NodeRow
  <2> DEFINE q == [call[c] EXCEPT !.at = AfterNodeRead(call[c].op), !.row = node[call[c].id],
                     !.preload = IF LiveCluster(node[call[c].id].cluster)
                                 THEN node[call[c].id].cluster ELSE NoCluster]
  <2>5. q \in NodeChange /\ q.id = call[c].id /\ q.row \in NodeRow
    BY <2>2, <2>3, <2>4 DEF NodeChange
  <2> QED
    BY <1>2, <2>1, <2>2, <2>5, KindsDiffer, CallGoesOn
<1>5. CASE (CheckName(c) \/ CheckIP(c) \/ CheckCluster(c)) /\ ~Finish(c)
  <2>1. PICK at \in {"ip", "cluster", "write"} :
          /\ call[c].op \in NodeCalls /\ call[c].at # "read"
          /\ call' = [call EXCEPT ![c] = [call[c] EXCEPT !.at = at]]
    BY <1>5 DEF CheckName, CheckIP, CheckCluster, Doing, Go
  <2> DEFINE q == [call[c] EXCEPT !.at = at]
  <2>2. CASE call[c] \in NodeCreation
    <3>1. q \in NodeCreation /\ q.id = call[c].id
      BY <2>2 DEF NodeCreation
    <3> QED
      BY <1>2, <2>1, <2>2, <3>1, KindsDiffer, CallGoesOn
  <2>3. CASE call[c] \in NodeChange
    <3>1. q \in NodeChange /\ q.id = call[c].id /\ q.row = call[c].row
      BY <2>3 DEF NodeChange
    <3>2. call[c].row \in NodeRow
      BY <2>1, <2>3 DEF NamesInv, CallsForRows
    <3> QED
      BY <1>2, <2>1, <2>3, <3>1, <3>2, KindsDiffer, CallGoesOn
  <2> QED
    BY <1>1, <2>1, <2>2, <2>3, CallKinds
<1>6. CASE (CheckNode(c) \/ CheckPin(c)) /\ ~Finish(c)
  <2>1. PICK at \in {"pin", "write"} :
          call[c].op = "CreateDevice" /\ call' = [call EXCEPT ![c] = [call[c] EXCEPT !.at = at]]
    BY <1>6 DEF CheckNode, CheckPin, Doing, Go
  <2>2. call[c] \in DeviceCreation
    BY <1>1, <2>1, CallKinds
  <2>3. [call[c] EXCEPT !.at = at] \in DeviceCreation /\ [call[c] EXCEPT !.at = at].id = call[c].id
    BY <2>2 DEF DeviceCreation
  <2> QED
    BY <1>2, <2>1, <2>2, <2>3, KindsDiffer, CallGoesOn
<1>7. CASE ReadDevice(c) /\ ~Finish(c)
  <2>1. /\ call[c].op \in DeviceCalls /\ call[c].at = "read"
        /\ call' = [call EXCEPT ![c] = [call[c] EXCEPT !.at = "write", !.row = device[call[c].id]]]
        /\ device[call[c].id].state = "live"
    BY <1>7 DEF ReadDevice, Doing, LiveDevice
  <2>2. call[c] \in DeviceChange
    <3>1. call[c] \in DeviceCreation => call[c].at # "read"
      BY DEF DeviceCreation
    <3> QED
      BY <1>1, <2>1, <3>1, CallKinds
  <2> DEFINE q == [call[c] EXCEPT !.at = "write", !.row = device[call[c].id]]
  <2>3. q \in DeviceChange /\ q.id = call[c].id /\ q.row \in LiveRow
    BY <2>1, <2>2 DEF NamesInv, InventoryTypeOK, DeviceChange, LiveRow
  <2> QED
    BY <1>2, <2>1, <2>2, <2>3, KindsDiffer, CallGoesOn
<1> QED
  BY <1>3, <1>4, <1>5, <1>6, <1>7

\* A row of nodes is stored under a name that no other row has, or goes away.
LEMMA NodeStored ==
  ASSUME NamesInv, NEW c \in Callers, Finish(c), NEW n \in Nodes, NEW row \in NodeRow,
         node' = [node EXCEPT ![n] = row], UNCHANGED <<cluster, device, saved>>,
         row.state # "free",
         NameFree(row.name, n) \/ (node[n].state # "free" /\ row.name = node[n].name)
  PROVE  NamesInv'
<1>1. /\ node' \in [Nodes -> NodeRow]
      /\ node'[n] = row /\ \A m \in Nodes : m # n => node'[m] = node[m]
  BY DEF NamesInv, InventoryTypeOK
<1>2. call' \in [Callers -> Call \cup {NoCall}] /\ \A d \in Callers : call'[d] \in {call[d], NoCall}
  BY DEF NamesInv, InventoryTypeOK, Finish
<1>3. InventoryTypeOK'
  BY <1>1, <1>2 DEF NamesInv, InventoryTypeOK
<1>4. CallsForRows'
  <2> SUFFICES ASSUME NEW d \in Callers
               PROVE  /\ call'[d] \in NodeChange =>
                           /\ node'[call'[d].id].state # "free"
                           /\ call'[d].at # "read" => call'[d].row \in NodeRow
                      /\ call'[d] \in DeviceChange =>
                           /\ device'[call'[d].id].state # "free"
                           /\ call'[d].at # "read" => call'[d].row \in LiveRow
    BY DEF CallsForRows
  <2>1. call'[d] \in NodeChange => call'[d].id \in Nodes
    BY DEF NodeChange
  <2> QED
    BY <1>1, <1>2, <2>1, KindsDiffer DEF NamesInv, CallsForRows
<1>5. UniqueNames'
  BY <1>1 DEF NamesInv, UniqueNames, NameFree
<1>6. OneDevicePerPin'
  BY DEF NamesInv, OneDevicePerPin, LiveDevice
<1> QED
  BY <1>3, <1>4, <1>5, <1>6 DEF NamesInv

LEMMA NodeWritesKeep ==
  ASSUME NamesInv, NEW c \in Callers, InsertNode(c) \/ SaveNode(c) \/ DeleteNode(c)
  PROVE  NamesInv'
<1>1. call[c] \in Call \cup {NoCall} /\ UNCHANGED <<cluster, device, saved>> /\ Finish(c)
  BY DEF NamesInv, InventoryTypeOK, InsertNode, SaveNode, DeleteNode
<1>2. CASE node' = node
  BY <1>1, <1>2, FinishMoves
<1>3. CASE InsertNode(c) /\ node' # node
  <2>1. call[c].op \in NodeCreations
    BY <1>3 DEF InsertNode, Doing
  <2>2. call[c].new \in NodeFields
    BY <1>1, <2>1, CallKinds DEF NodeCreation, NodeCreations
  <2> DEFINE row == [state |-> "live", name |-> call[c].new.name, ip |-> call[c].new.ip,
                     cluster |-> call[c].new.cluster]
  <2>3. PICK n \in Nodes : NameFree(call[c].new.name, n) /\ node' = [node EXCEPT ![n] = row]
    BY <1>3 DEF InsertNode
  <2>4. row \in NodeRow /\ row.name = call[c].new.name /\ row.state # "free"
    BY <2>2 DEF NodeRow, NodeFields, RowStates
  <2> QED
    BY <1>1, <2>3, <2>4, NodeStored
<1>4. CASE SaveNode(c) /\ node' # node
  <2>1. call[c].op \in {"UpdateNode", "Provision", "Deprovision"} /\ call[c].at = "write"
    BY <1>4 DEF SaveNode, Doing
  <2>2. call[c] \in NodeChange /\ call[c].row \in NodeRow
    BY <1>1, <2>1, CallKinds DEF NodeCalls, NodeCreations, NamesInv, CallsForRows
  <2> DEFINE n == call[c].id
             fields == IF call[c].op = "UpdateNode" THEN call[c].new ELSE call[c].row
             row == [state |-> "live", name |-> fields.name, ip |-> fields.ip,
                     cluster |-> SavedCluster(c)]
  <2>3. NameFree(fields.name, n) /\ node' = [node EXCEPT ![n] = row]
    BY <1>4 DEF SaveNode
  <2>4. /\ n \in Nodes /\ fields.name \in Names /\ fields.ip \in Addresses
        /\ SavedCluster(c) \in Clusters \cup {NoCluster}
    BY <2>2 DEF NodeChange, NodeFields, NodeRow, SavedCluster
  <2>5. row \in NodeRow /\ row.name = fields.name /\ row.state # "free"
    BY <2>4 DEF NodeRow, RowStates
  <2> QED
    BY <1>1, <2>3, <2>4, <2>5, NodeStored
<1>5. CASE DeleteNode(c)
  <2>1. call[c].op = "DeleteNode"
    BY <1>5 DEF DeleteNode, Doing
  <2>2. call[c] \in NodeChange /\ call[c].id \in Nodes /\ node[call[c].id].state # "free"
    BY <1>1, <2>1, CallKinds DEF NodeCalls, NodeCreations, NodeChange, NamesInv, CallsForRows
  <2> DEFINE n == call[c].id
             row == [node[n] EXCEPT !.state = "deleted"]
  <2>3. row \in NodeRow /\ row.name = node[n].name /\ row.state # "free"
    BY <2>2 DEF NodeRow, RowStates, NamesInv, InventoryTypeOK
  <2>4. node' = [node EXCEPT ![n] = row]
    BY <1>5 DEF DeleteNode
  <2> QED
    BY <1>1, <2>2, <2>3, <2>4, NodeStored
<1> QED
  BY <1>2, <1>3, <1>4, <1>5

\* A row of devices is stored while the index leaves its pin to it, or goes away.
LEMMA DeviceStored ==
  ASSUME NamesInv, NEW c \in Callers, Finish(c), NEW d \in Devices, NEW row \in DeviceRow,
         device' = [device EXCEPT ![d] = row], UNCHANGED <<cluster, node>>,
         row.state # "free", row.state = "live" => PinFree(row.node, row.pin, d),
         saved' \in [Devices -> [value : Values, writable : BOOLEAN]]
  PROVE  NamesInv'
<1>1. /\ device' \in [Devices -> DeviceRow]
      /\ device'[d] = row /\ \A e \in Devices : e # d => device'[e] = device[e]
  BY DEF NamesInv, InventoryTypeOK
<1>2. call' \in [Callers -> Call \cup {NoCall}] /\ \A e \in Callers : call'[e] \in {call[e], NoCall}
  BY DEF NamesInv, InventoryTypeOK, Finish
<1>3. InventoryTypeOK'
  BY <1>1, <1>2 DEF NamesInv, InventoryTypeOK
<1>4. CallsForRows'
  <2> SUFFICES ASSUME NEW e \in Callers
               PROVE  /\ call'[e] \in NodeChange =>
                           /\ node'[call'[e].id].state # "free"
                           /\ call'[e].at # "read" => call'[e].row \in NodeRow
                      /\ call'[e] \in DeviceChange =>
                           /\ device'[call'[e].id].state # "free"
                           /\ call'[e].at # "read" => call'[e].row \in LiveRow
    BY DEF CallsForRows
  <2>1. call'[e] \in DeviceChange => call'[e].id \in Devices
    BY DEF DeviceChange
  <2> QED
    BY <1>1, <1>2, <2>1, KindsDiffer DEF NamesInv, CallsForRows
<1>5. UniqueNames'
  BY DEF NamesInv, UniqueNames
<1>6. OneDevicePerPin'
  BY <1>1 DEF NamesInv, OneDevicePerPin, LiveDevice, PinFree
<1> QED
  BY <1>3, <1>4, <1>5, <1>6 DEF NamesInv

LEMMA DeviceWritesKeep ==
  ASSUME NamesInv, NEW c \in Callers, InsertDevice(c) \/ SaveDevice(c) \/ DeleteDevice(c)
  PROVE  NamesInv'
<1>1. call[c] \in Call \cup {NoCall} /\ UNCHANGED <<cluster, node>> /\ Finish(c)
  BY DEF NamesInv, InventoryTypeOK, InsertDevice, SaveDevice, DeleteDevice
<1>2. CASE InsertDevice(c)
  <2>1. call[c] \in DeviceCreation
    BY <1>1, <1>2, CallKinds DEF InsertDevice, Doing
  <2> DEFINE row == [state |-> "live", node |-> call[c].new.node, pin |-> call[c].new.pin,
                     value |-> 0, writable |-> TRUE]
  <2>2. row \in DeviceRow /\ row.state # "free"
    BY <2>1 DEF DeviceCreation, DeviceRow, RowStates, Values
  <2>3. PICK d \in Devices :
          device' = IF PinFree(row.node, row.pin, d) THEN [device EXCEPT ![d] = row] ELSE device
    BY <1>2 DEF InsertDevice
  <2>4. saved' = saved
    BY <1>2 DEF InsertDevice
  <2> HIDE DEF row
  <2>5. CASE PinFree(row.node, row.pin, d)
    BY <1>1, <2>2, <2>3, <2>4, <2>5, DeviceStored DEF NamesInv, InventoryTypeOK
  <2>6. CASE ~PinFree(row.node, row.pin, d)
    BY <1>1, <2>3, <2>4, <2>6, FinishMoves
  <2> QED
    BY <2>5, <2>6
<1>3. CASE SaveDevice(c)
  <2>1. call[c].op \in {"UpdateDevice", "WriteDevice"} /\ call[c].at = "write"
    BY <1>3 DEF SaveDevice, Doing
  <2>2. call[c] \in DeviceChange /\ call[c].row \in DeviceRow /\ call[c].row.state = "live"
    BY <1>1, <2>1, CallKinds DEF DeviceCalls, NamesInv, CallsForRows, LiveRow
  <2>3. call[c].id \in Devices /\ call[c].new.value \in Values /\ call[c].new.writable \in BOOLEAN
    BY <2>2 DEF DeviceChange
  <2> DEFINE read == call[c].row
             free == PinFree(read.node, read.pin, call[c].id)
  <2>4. ASSUME free
        PROVE  \E row \in LiveRow : /\ device' = [device EXCEPT ![call[c].id] = row]
                                   /\ row.node = read.node /\ row.pin = read.pin
    <3>1. ASSUME NEW row, \/ row = [read EXCEPT !.value = call[c].new.value]
                          \/ row = [read EXCEPT !.writable = call[c].new.writable]
          PROVE  row \in LiveRow /\ row.node = read.node /\ row.pin = read.pin
      BY <2>2, <2>3, <3>1 DEF DeviceRow, LiveRow
    <3> QED
      BY <1>3, <2>4, <3>1 DEF SaveDevice
  <2>5. saved' \in [Devices -> [value : Values, writable : BOOLEAN]]
    BY <1>3, <2>3 DEF SaveDevice, NamesInv, InventoryTypeOK
  <2>6. ~free => UNCHANGED <<device, saved>>
    BY <1>3 DEF SaveDevice
  <2>7. CASE free
    <3>1. PICK row \in LiveRow : /\ device' = [device EXCEPT ![call[c].id] = row]
                                /\ row.node = read.node /\ row.pin = read.pin
      BY <2>4, <2>7
    <3>2. row \in DeviceRow /\ row.state # "free" /\ PinFree(row.node, row.pin, call[c].id)
      BY <2>7, <3>1 DEF LiveRow
    <3> QED
      BY <1>1, <2>3, <2>5, <3>1, <3>2, DeviceStored
  <2>8. CASE ~free
    BY <1>1, <2>6, <2>8, FinishMoves
  <2> QED
    BY <2>7, <2>8
<1>4. CASE DeleteDevice(c)
  <2>1. call[c].op = "DeleteDevice"
    BY <1>4 DEF DeleteDevice, Doing
  <2>2. call[c].id \in Devices
    BY <1>1, <2>1, CallKinds DEF DeviceCalls, DeviceChange
  <2> DEFINE row == [device[call[c].id] EXCEPT !.state = "deleted"]
  <2>3. row \in DeviceRow /\ row.state = "deleted"
    BY <2>2 DEF DeviceRow, RowStates, NamesInv, InventoryTypeOK
  <2>4. device' = [device EXCEPT ![call[c].id] = row] /\ saved' = saved
    BY <1>4 DEF DeleteDevice
  <2> HIDE DEF row
  <2> QED
    BY <1>1, <2>2, <2>3, <2>4, DeviceStored DEF NamesInv, InventoryTypeOK
<1> QED
  BY <1>2, <1>3, <1>4

LEMMA ClustersKeepNames ==
  ASSUME NamesInv, NEW k \in Clusters, InsertCluster(k) \/ DeleteCluster(k)
  PROVE  NamesInv'
<1>1. UNCHANGED <<node, device, call, saved>> /\ cluster' \in [Clusters -> RowStates]
  BY DEF InsertCluster, DeleteCluster, NamesInv, InventoryTypeOK, RowStates
<1> QED
  BY <1>1 DEF NamesInv, InventoryTypeOK, CallsForRows, UniqueNames, OneDevicePerPin, LiveDevice

LEMMA NamesStep == NamesInv /\ [InventoryNext]_inventoryVars => NamesInv'
<1> SUFFICES ASSUME NamesInv, [InventoryNext]_inventoryVars PROVE NamesInv'
  OBVIOUS
<1>1. CASE UNCHANGED inventoryVars
  BY <1>1 DEF inventoryVars, NamesInv, InventoryTypeOK, CallsForRows, UniqueNames, OneDevicePerPin,
              LiveDevice
<1> QED
  BY <1>1, BeginKeeps, LooksKeep, NodeWritesKeep, DeviceWritesKeep, ClustersKeepNames
  DEF InventoryNext, NodeStep, DeviceStep

(* The typing of the tables and of the calls, for any interleaving of any  *)
(* number of them (internal/services, internal/models).                    *)
THEOREM InventoryTyped == InventorySpec => []InventoryTypeOK
<1>1. NamesInv => InventoryTypeOK
  BY DEF NamesInv
<1> QED
  BY <1>1, NamesInitially, NamesStep, PTL DEF InventorySpec

(* Names stay unique over all rows, marked ones too, whatever creations    *)
(* and updates interleave (node.go, pi_controller.go).                     *)
THEOREM NamesStayUnique == InventorySpec => []UniqueNames
<1>1. NamesInv => UniqueNames
  BY DEF NamesInv
<1> QED
  BY <1>1, NamesInitially, NamesStep, PTL DEF InventorySpec

(* A pin of a node has one live device, whatever creations interleave and  *)
(* whichever rows a Save brings back (gpio.go, definitions.go:168).        *)
THEOREM PinsStayUnique == InventorySpec => []OneDevicePerPin
<1>1. NamesInv => OneDevicePerPin
  BY DEF NamesInv
<1> QED
  BY <1>1, NamesInitially, NamesStep, PTL DEF InventorySpec

-----------------------------------------------------------------------------
(* Inventory: one request at a time.                                       *)

OneCall == \A c, d \in Callers : call[c] # NoCall /\ call[d] # NoCall => c = d

Consistent == UniqueAddresses /\ DeviceHasNode /\ NodeClusterLive /\ DeviceAsSaved

\* A row that is not there yet holds what a creation will report.
FreshRows ==
  \A d \in Devices : device[d].state = "free" => saved[d] = [value |-> 0, writable |-> TRUE]

\* What a call has found out still holds, for nobody else changes the rows.
NodeCallKnows(q) ==
  /\ q \in NodeChange /\ q.at # "read" =>
       /\ LiveNode(q.id) /\ q.row = node[q.id]
       /\ q.preload = node[q.id].cluster
  /\ q \in NodeChange /\ q.op = "DeleteNode" /\ q.at = "write" => DevicesOn(q.id) = {}
  /\ q.op \in {"CreateNode", "UpdateNode"} /\ q.at \in {"cluster", "write"} =>
       \A m \in Nodes : LiveNode(m) /\ (q \in NodeChange => m # q.id) => node[m].ip # q.new.ip
  /\ q.op \in {"CreateNode", "UpdateNode", "Provision"} /\ q.at = "write" =>
       q.new.cluster = NoCluster \/ LiveCluster(q.new.cluster)
  /\ q.op = "Deprovision" => q.new.cluster = NoCluster
  /\ q.op \in {"Deprovision", "DeleteNode"} => q.at \in {"read", "write"}

DeviceCallKnows(q) ==
  /\ q.op = "CreateDevice" /\ q.at \in {"pin", "write"} => LiveNode(q.new.node)
  /\ q \in DeviceChange /\ q.at = "write" => LiveDevice(q.id) /\ q.row = device[q.id]

AloneFacts ==
  /\ OneCall
  /\ \A c \in Callers : call[c].op # "InsertNode"
  /\ \A k \in Clusters : cluster[k] # "deleted"
  /\ Consistent /\ FreshRows
  /\ \A c \in Callers : NodeCallKnows(call[c]) /\ DeviceCallKnows(call[c])

AloneInv == scene = "alone" => AloneFacts

\* A step of one request at a time.
AloneStep ==
  /\ InventoryNext
  /\ OneCall'
  /\ \A c \in Callers : call'[c].op # "InsertNode"
  /\ \A k \in Clusters : cluster'[k] # "deleted"

LEMMA AloneInitially == ASSUME InventoryInit PROVE AloneFacts
<1>1. /\ \A c \in Callers : call[c] = NoCall
      /\ \A n \in Nodes : node[n].state = "free"
      /\ \A d \in Devices : device[d].state = "free" /\ saved[d] = [value |-> 0, writable |-> TRUE]
      /\ \A k \in Clusters : cluster[k] = "free"
  BY RowFacts DEF InventoryInit
<1>2. NoCall.op = "none"
  BY DEF NoCall
<1>3. OneCall /\ FreshRows
  BY <1>1 DEF OneCall, FreshRows
<1>4. Consistent
  BY <1>1 DEF Consistent, UniqueAddresses, DeviceHasNode, NodeClusterLive, DeviceAsSaved,
              LiveNode, LiveDevice
<1>5. NodeCallKnows(NoCall) /\ DeviceCallKnows(NoCall)
  BY <1>2, KindsDiffer DEF NodeCallKnows, DeviceCallKnows
<1> QED
  BY <1>1, <1>2, <1>3, <1>4, <1>5 DEF AloneFacts

\* A step of one call that leaves the tables alone.
LEMMA AloneCallMoves ==
  ASSUME NamesInv, AloneFacts, OneCall', NEW c \in Callers, NEW q \in Call \cup {NoCall},
         call' = [call EXCEPT ![c] = q], UNCHANGED <<cluster, node, device, saved>>,
         q.op # "InsertNode", NodeCallKnows(q), DeviceCallKnows(q)
  PROVE  AloneFacts'
<1>1. \A d \in Callers : call'[d] = IF d = c THEN q ELSE call[d]
  BY DEF NamesInv, InventoryTypeOK
<1>2. \A d \in Callers : NodeCallKnows(call'[d]) /\ DeviceCallKnows(call'[d]) /\ call'[d].op # "InsertNode"
  BY <1>1 DEF AloneFacts
<1>3. \A d \in Callers : NodeCallKnows(call[d])' /\ DeviceCallKnows(call[d])'
  BY <1>2 DEF NodeCallKnows, DeviceCallKnows, LiveNode, LiveDevice, LiveCluster, DevicesOn
<1>4. Consistent' /\ FreshRows'
  BY DEF AloneFacts, Consistent, FreshRows, UniqueAddresses, DeviceHasNode, NodeClusterLive,
         DeviceAsSaved, LiveNode, LiveDevice
<1> QED
  BY <1>2, <1>3, <1>4 DEF AloneFacts

\* A call that is done leaves no other behind.
LEMMA AloneCallEnds ==
  ASSUME NamesInv, AloneFacts, NEW c \in Callers, call[c] # NoCall, Finish(c), UNCHANGED cluster,
         Consistent', FreshRows'
  PROVE  AloneFacts'
<1>1. \A d \in Callers : call'[d] = NoCall
  BY DEF NamesInv, InventoryTypeOK, AloneFacts, OneCall, Finish
<1>2. NoCall.op = "none"
  BY DEF NoCall
<1>3. \A d \in Callers : NodeCallKnows(call[d])' /\ DeviceCallKnows(call[d])'
  BY <1>1, <1>2, KindsDiffer DEF NodeCallKnows, DeviceCallKnows
<1> QED
  BY <1>1, <1>2, <1>3 DEF AloneFacts, OneCall

LEMMA AloneFinish ==
  ASSUME NamesInv, AloneFacts, OneCall', NEW c \in Callers, Finish(c),
         UNCHANGED <<cluster, node, device, saved>>
  PROVE  AloneFacts'
<1>1. NoCall.op = "none"
  BY DEF NoCall
<1>2. NodeCallKnows(NoCall) /\ DeviceCallKnows(NoCall)
  BY <1>1, KindsDiffer DEF NodeCallKnows, DeviceCallKnows
<1> QED
  BY <1>1, <1>2, AloneCallMoves DEF Finish

LEMMA AloneBegins ==
  ASSUME NamesInv, AloneFacts, AloneStep, NEW c \in Callers,
         BeginCreateNode(c) \/ BeginNodeCall(c) \/ BeginCreateDevice(c) \/ BeginDeviceCall(c)
  PROVE  AloneFacts'
<1> DEFINE begun(op, at, id, new) ==
             [op |-> op, at |-> at, id |-> id, new |-> new, row |-> NoRow, preload |-> NoCluster]
<1>1. OneCall' /\ \A d \in Callers : call'[d].op # "InsertNode"
  BY DEF AloneStep
<1>2. CASE BeginCreateNode(c)
  <2>1. PICK new \in NodeFields :
          \/ BeginCall(c, "CreateNode", "name", NoCluster, new)
          \/ BeginCall(c, "InsertNode", "write", NoCluster, new)
    BY <1>2 DEF BeginCreateNode
  <2>2. ~BeginCall(c, "InsertNode", "write", NoCluster, new)
    BY <1>1 DEF BeginCall, NamesInv, InventoryTypeOK
  <2> DEFINE q == begun("CreateNode", "name", NoCluster, new)
  <2>3. q \in NodeCreation
    BY DEF NodeCreation, NodeCreations
  <2>4. q \in Call
    BY <2>3 DEF Call
  <2>5. NodeCallKnows(q) /\ DeviceCallKnows(q)
    BY <2>3, KindsDiffer DEF NodeCallKnows, DeviceCallKnows
  <2>6. BeginCall(c, "CreateNode", "name", NoCluster, new)
    BY <2>1, <2>2
  <2> QED
    BY <1>1, <2>4, <2>5, <2>6, AloneCallMoves DEF BeginCall
<1>3. CASE BeginNodeCall(c)
  <2>1. PICK n \in Nodes, new \in NodeFields, op \in NodeCalls \ NodeCreations :
          BeginCall(c, op, "read", n, new) /\ (op = "Deprovision" => new.cluster = NoCluster)
    BY <1>3 DEF BeginNodeCall, NodeCreations, NodeCalls
  <2> DEFINE q == begun(op, "read", n, new)
  <2>2. q \in NodeChange
    BY DEF NodeChange
  <2>3. q \in Call
    BY <2>2 DEF Call
  <2>4. NodeCallKnows(q) /\ DeviceCallKnows(q)
    BY <2>1, <2>2, KindsDiffer DEF NodeCallKnows, DeviceCallKnows, NodeCalls
  <2>5. q.op # "InsertNode"
    BY DEF NodeCreations
  <2> QED
    BY <1>1, <2>1, <2>3, <2>4, <2>5, AloneCallMoves DEF BeginCall
<1>4. CASE BeginCreateDevice(c)
  <2>1. PICK n \in Nodes, p \in Pins :
          BeginCall(c, "CreateDevice", "node", NoCluster, [node |-> n, pin |-> p])
    BY <1>4 DEF BeginCreateDevice
  <2> DEFINE q == begun("CreateDevice", "node", NoCluster, [node |-> n, pin |-> p])
  <2>2. q \in DeviceCreation
    BY DEF DeviceCreation
  <2>3. q \in Call
    BY <2>2 DEF Call
  <2>4. NodeCallKnows(q) /\ DeviceCallKnows(q)
    BY <2>2, KindsDiffer DEF NodeCallKnows, DeviceCallKnows
  <2> QED
    BY <1>1, <2>1, <2>3, <2>4, AloneCallMoves DEF BeginCall
<1>5. CASE BeginDeviceCall(c)
  <2>1. PICK d \in Devices, new \in [value : Values, writable : BOOLEAN],
             op \in DeviceCalls \ {"CreateDevice"} :
          BeginCall(c, op, "read", d, new)
    BY <1>5 DEF BeginDeviceCall, DeviceCalls, Values
  <2> DEFINE q == begun(op, "read", d, new)
  <2>2. q \in DeviceChange
    BY DEF DeviceChange
  <2>3. q \in Call
    BY <2>2 DEF Call
  <2>4. NodeCallKnows(q) /\ DeviceCallKnows(q)
    BY <2>2, KindsDiffer DEF NodeCallKnows, DeviceCallKnows, DeviceCalls
  <2>5. q.op # "InsertNode"
    BY DEF DeviceCalls
  <2> QED
    BY <1>1, <2>1, <2>3, <2>4, <2>5, AloneCallMoves DEF BeginCall
<1> QED
  BY <1>2, <1>3, <1>4, <1>5

LEMMA AloneLooks ==
  ASSUME NamesInv, AloneFacts, AloneStep, NEW c \in Callers,
         \/ ReadNode(c) \/ CheckName(c) \/ CheckIP(c) \/ CheckCluster(c)
         \/ CheckNode(c) \/ CheckPin(c) \/ ReadDevice(c)
  PROVE  AloneFacts'
<1>1. /\ call[c] \in Call \cup {NoCall}
      /\ OneCall' /\ call[c].op # "InsertNode"
      /\ NodeCallKnows(call[c]) /\ DeviceCallKnows(call[c])
  BY DEF NamesInv, InventoryTypeOK, AloneFacts, AloneStep
<1>2. UNCHANGED <<cluster, node, device, saved>>
  BY DEF ReadNode, CheckName, CheckIP, CheckCluster, CheckNode, CheckPin, ReadDevice
<1>3. CASE Finish(c)
  BY <1>1, <1>2, <1>3, AloneFinish
<1>4. CASE ReadNode(c) /\ ~Finish(c)
  <2> DEFINE n == call[c].id
             q == [call[c] EXCEPT !.at = AfterNodeRead(call[c].op), !.row = node[n],
                     !.preload = IF LiveCluster(node[n].cluster) THEN node[n].cluster ELSE NoCluster]
  <2>1. /\ call[c].op \in NodeCalls /\ call[c].at = "read" /\ LiveNode(n)
        /\ call[c].op = "DeleteNode" => DevicesOn(n) = {}
        /\ call' = [call EXCEPT ![c] = q]
    BY <1>4 DEF ReadNode, Doing
  <2>2. call[c] \in NodeChange /\ call[c].op \in NodeCalls \ NodeCreations
    <3>1. call[c] \in NodeCreation => call[c].at # "read"
      BY DEF NodeCreation
    <3> QED
      BY <1>1, <2>1, <3>1, CallKinds
  <2>3. /\ n \in Nodes /\ node[n] \in NodeRow
        /\ node[n].cluster \in Clusters \cup {NoCluster}
    BY <2>2 DEF NamesInv, InventoryTypeOK, NodeChange, NodeRow
  <2>4. AfterNodeRead(call[c].op) =
          IF call[c].op = "UpdateNode" THEN "name"
          ELSE IF call[c].op = "Provision" THEN "cluster" ELSE "write"
    BY <2>2 DEF AfterNodeRead, NodeCalls, NodeCreations
  <2>5. /\ q.op = call[c].op /\ q.id = n /\ q.new = call[c].new
        /\ q.at = AfterNodeRead(call[c].op) /\ q.row = node[n]
        /\ q.preload = IF LiveCluster(node[n].cluster) THEN node[n].cluster ELSE NoCluster
    BY <2>2 DEF NodeChange
  <2>6. q.preload = node[n].cluster
    BY <2>1, <2>3, <2>5 DEF AloneFacts, Consistent, NodeClusterLive, LiveCluster
  <2>7. q \in NodeChange
    BY <2>2, <2>3, <2>4 DEF NodeChange
  <2>8. q \in Call
    BY <2>7 DEF Call
  <2>9. NodeCallKnows(q)
    BY <1>1, <2>1, <2>2, <2>4, <2>5, <2>6 DEF NodeCallKnows, NodeCreations
  <2>10. DeviceCallKnows(q) /\ q.op # "InsertNode"
    BY <2>2, <2>5, <2>7, KindsDiffer DEF DeviceCallKnows, NodeCalls, NodeCreations
  <2> QED
    BY <1>1, <1>2, <2>1, <2>8, <2>9, <2>10, AloneCallMoves
<1>5. ASSUME NEW at \in {"ip", "cluster", "write"},
             call[c].op \in {"CreateNode", "UpdateNode", "Provision"}, call[c].at # "read",
             Go(c, at), NodeCallKnows([call[c] EXCEPT !.at = at])
      PROVE  AloneFacts'
  <2> DEFINE q == [call[c] EXCEPT !.at = at]
  <2>1. call[c] \in NodeCreation \cup NodeChange
    BY <1>1, <1>5, CallKinds DEF NodeCalls, NodeCreations
  <2>2. q \in NodeCreation \cup NodeChange /\ q.op = call[c].op
    BY <1>5, <2>1 DEF NodeCreation, NodeChange
  <2>3. q \in Call
    BY <2>2 DEF Call
  <2>4. DeviceCallKnows(q)
    BY <1>5, <2>2, KindsDiffer DEF DeviceCallKnows
  <2> QED
    BY <1>1, <1>2, <1>5, <2>2, <2>3, <2>4, AloneCallMoves DEF Go
<1>6. CASE (CheckName(c) \/ CheckIP(c) \/ CheckCluster(c)) /\ ~Finish(c)
  <2>1. /\ call[c].op \in NodeCalls /\ call[c].at \in {"name", "ip", "cluster"}
    BY <1>6 DEF CheckName, CheckIP, CheckCluster, Doing
  <2>2. call[c] \in NodeCreation \cup NodeChange
    BY <1>1, <2>1, CallKinds
  <2>3. PICK at \in {"ip", "cluster", "write"} :
          /\ Go(c, at)
          /\ at = "ip" <=> call[c].at = "name"
          /\ at = "cluster" <=> call[c].at = "ip"
          /\ at = "write" <=> call[c].at = "cluster"
    BY <1>6, <2>1 DEF CheckName, CheckIP, CheckCluster, Doing
  <2> DEFINE q == [call[c] EXCEPT !.at = at]
  <2>4. /\ q.op = call[c].op /\ q.id = call[c].id /\ q.new = call[c].new /\ q.at = at
        /\ q.row = call[c].row /\ q.preload = call[c].preload
        /\ q \in NodeChange <=> call[c] \in NodeChange
    BY <2>1, <2>2, KindsDiffer DEF NodeCreation, NodeChange
  <2>5. call[c].op \in {"CreateNode", "UpdateNode", "Provision"}
    BY <1>1, <2>1 DEF NodeCallKnows, NodeCalls
  <2>6. at = "ip" => NodeCallKnows(q)
    BY <1>1, <2>1, <2>4, <2>5 DEF NodeCallKnows
  <2>7. at = "cluster" => NodeCallKnows(q)
    <3> SUFFICES ASSUME at = "cluster" PROVE NodeCallKnows(q)
      OBVIOUS
    <3>1. call[c].op \in {"CreateNode", "UpdateNode"} =>
            \A m \in Nodes : LiveNode(m) /\ (call[c] \in NodeChange => m # call[c].id)
                            => node[m].ip # call[c].new.ip
      <4>1. CASE Changes(c, "ip")
        BY <1>6, <2>1, <2>3, <4>1 DEF CheckName, CheckIP, CheckCluster, Doing
      <4>2. CASE ~Changes(c, "ip") /\ call[c].op = "UpdateNode"
        <5>1. call[c] \in NodeChange /\ call[c].id \in Nodes
          BY <1>1, <4>2, CallKinds DEF NodeCalls, NodeCreations, NodeChange
        <5>2. LiveNode(call[c].id) /\ call[c].row = node[call[c].id]
          BY <1>1, <2>1, <5>1 DEF NodeCallKnows
        <5>3. call[c].new.ip = call[c].row.ip
          BY <4>2 DEF Changes
        <5> QED
          BY <5>1, <5>2, <5>3 DEF AloneFacts, Consistent, UniqueAddresses
      <4> QED
        BY <4>1, <4>2 DEF Changes
    <3> QED
      BY <1>1, <2>1, <2>3, <2>4, <2>5, <3>1 DEF NodeCallKnows
  <2>8. at = "write" => NodeCallKnows(q)
    <3> SUFFICES ASSUME at = "write" PROVE NodeCallKnows(q)
      OBVIOUS
    <3>1. call[c].new.cluster = NoCluster \/ LiveCluster(call[c].new.cluster)
      BY <1>6, <2>1, <2>3 DEF CheckName, CheckIP, CheckCluster, Doing
    <3> QED
      BY <1>1, <2>1, <2>3, <2>4, <2>5, <3>1 DEF NodeCallKnows
  <2>9. call[c].at # "read"
    BY <2>1
  <2> QED
    BY <1>5, <2>3, <2>5, <2>6, <2>7, <2>8, <2>9
<1>7. CASE (CheckNode(c) \/ CheckPin(c)) /\ ~Finish(c)
  <2>1. /\ call[c].op = "CreateDevice"
        /\ CheckNode(c) => call[c].at = "node" /\ LiveNode(call[c].new.node) /\ Go(c, "pin")
        /\ CheckPin(c) => call[c].at = "pin" /\ Go(c, "write")
    BY <1>7 DEF CheckNode, CheckPin, Doing
  <2>2. PICK at \in {"pin", "write"} :
          /\ Go(c, at)
          /\ at = "pin" => CheckNode(c)
          /\ at = "write" => CheckPin(c)
    BY <1>7, <2>1
  <2> DEFINE q == [call[c] EXCEPT !.at = at]
  <2>3. call[c] \in DeviceCreation
    BY <1>1, <2>1, CallKinds
  <2>4. q \in DeviceCreation /\ q.op = call[c].op /\ q.new = call[c].new /\ q.at = at
    BY <2>3 DEF DeviceCreation
  <2>5. q \in Call
    BY <2>4 DEF Call
  <2>6. DeviceCallKnows(q)
    <3>1. q \notin DeviceChange
      BY <2>4, KindsDiffer
    <3>2. LiveNode(q.new.node)
      BY <1>1, <2>1, <2>2, <2>4 DEF DeviceCallKnows
    <3> QED
      BY <3>1, <3>2 DEF DeviceCallKnows
  <2>7. NodeCallKnows(q)
    BY <2>1, <2>4, KindsDiffer DEF NodeCallKnows
  <2>8. q.op # "InsertNode"
    BY <2>1, <2>4
  <2>9. call' = [call EXCEPT ![c] = q]
    BY <2>2 DEF Go
  <2> QED
    BY <1>1, <1>2, <2>5, <2>6, <2>7, <2>8, <2>9, AloneCallMoves
<1>8. CASE ReadDevice(c) /\ ~Finish(c)
  <2> DEFINE q == [call[c] EXCEPT !.at = "write", !.row = device[call[c].id]]
  <2>1. /\ call[c].op \in DeviceCalls /\ call[c].at = "read"
        /\ call' = [call EXCEPT ![c] = q] /\ LiveDevice(call[c].id)
    BY <1>8 DEF ReadDevice, Doing
  <2>2. call[c] \in DeviceChange
    <3>1. call[c] \in DeviceCreation => call[c].at # "read"
      BY DEF DeviceCreation
    <3> QED
      BY <1>1, <2>1, <3>1, CallKinds
  <2>3. /\ q \in DeviceChange /\ q.op = call[c].op /\ q.id = call[c].id
        /\ q.row = device[call[c].id]
    BY <2>2 DEF NamesInv, InventoryTypeOK, DeviceChange
  <2>4. q \in Call
    BY <2>3 DEF Call
  <2>5. DeviceCallKnows(q)
    BY <2>1, <2>3, KindsDiffer DEF DeviceCallKnows
  <2>6. NodeCallKnows(q) /\ q.op # "InsertNode"
    BY <2>1, <2>3, KindsDiffer DEF NodeCallKnows, DeviceCalls
  <2> QED
    BY <1>1, <1>2, <2>1, <2>4, <2>5, <2>6, AloneCallMoves
<1> QED
  BY <1>3, <1>4, <1>6, <1>7, <1>8

\* A live row of nodes whose address and cluster are in order is stored.
LEMMA AloneNodeStored ==
  ASSUME NamesInv, AloneFacts, NEW c \in Callers, call[c] # NoCall, Finish(c),
         UNCHANGED <<cluster, device, saved>>,
         NEW n \in Nodes, NEW row \in NodeRow, node' = [node EXCEPT ![n] = row],
         \/ /\ row.state = "live"
            /\ row.cluster = NoCluster \/ LiveCluster(row.cluster)
            /\ \A m \in Nodes \ {n} : LiveNode(m) => node[m].ip # row.ip
         \/ row.state = "deleted" /\ DevicesOn(n) = {}
  PROVE  AloneFacts'
<1>1. \A m \in Nodes : node'[m] = IF m = n THEN row ELSE node[m]
  BY DEF NamesInv, InventoryTypeOK
<1>2. (\A m \in Nodes \ {n} : LiveNode(m) <=> LiveNode(m)') /\ (LiveNode(n)' => row.state = "live")
  BY <1>1 DEF LiveNode
<1>3. UniqueAddresses'
  BY <1>1, <1>2 DEF AloneFacts, Consistent, UniqueAddresses
<1>4. DeviceAsSaved' /\ FreshRows'
  BY DEF AloneFacts, Consistent, FreshRows, DeviceAsSaved, LiveDevice
<1>5. DeviceHasNode'
  <2> SUFFICES ASSUME NEW d \in Devices, LiveDevice(d)' PROVE node'[device'[d].node].state = "live"
    BY DEF DeviceHasNode, LiveNode
  <2>1. LiveDevice(d) /\ LiveNode(device[d].node) /\ device[d].node \in Nodes
    BY DEF LiveDevice, AloneFacts, Consistent, DeviceHasNode, NamesInv, InventoryTypeOK, DeviceRow
  <2>2. CASE device[d].node = n
    <3>1. d \in DevicesOn(n)
      BY <2>1, <2>2 DEF DevicesOn
    <3> QED
      BY <1>1, <2>1, <2>2, <3>1
  <2> QED
    BY <1>1, <2>1, <2>2 DEF LiveNode
<1>6. NodeClusterLive'
  BY <1>1, <1>2 DEF AloneFacts, Consistent, NodeClusterLive, LiveCluster
<1>7. Consistent'
  BY <1>3, <1>4, <1>5, <1>6 DEF Consistent
<1> QED
  BY <1>4, <1>7, AloneCallEnds

LEMMA AloneNodeWrites ==
  ASSUME NamesInv, AloneFacts, OneCall', NEW c \in Callers,
         InsertNode(c) \/ SaveNode(c) \/ DeleteNode(c)
  PROVE  AloneFacts'
<1>1. /\ call[c] \in Call \cup {NoCall} /\ call[c].at = "write" /\ call[c].op \in NodeCalls
      /\ UNCHANGED <<cluster, device, saved>> /\ Finish(c)
      /\ NodeCallKnows(call[c]) /\ call[c].op # "InsertNode"
  BY DEF NamesInv, InventoryTypeOK, AloneFacts, InsertNode, SaveNode, DeleteNode, Doing,
         NodeCreations, NodeCalls
<1>2. call[c] # NoCall
  BY <1>1, CallKinds
<1>3. CASE node' = node
  BY <1>1, <1>3, AloneFinish
<1>4. CASE InsertNode(c) /\ node' # node
  <2>1. call[c].op = "CreateNode"
    BY <1>1, <1>4 DEF InsertNode, Doing, NodeCreations
  <2>2. call[c] \in NodeCreation /\ call[c] \notin NodeChange /\ call[c].new \in NodeFields
    BY <1>1, <2>1, CallKinds, KindsDiffer DEF NodeCreation, NodeCreations
  <2> DEFINE row == [state |-> "live", name |-> call[c].new.name, ip |-> call[c].new.ip,
                     cluster |-> call[c].new.cluster]
  <2>3. PICK n \in Nodes : node[n].state = "free" /\ node' = [node EXCEPT ![n] = row]
    BY <1>4 DEF InsertNode
  <2>4. row \in NodeRow
    BY <2>2 DEF NodeRow, NodeFields, RowStates
  <2>5. /\ row.state = "live" /\ (row.cluster = NoCluster \/ LiveCluster(row.cluster))
        /\ \A m \in Nodes \ {n} : LiveNode(m) => node[m].ip # row.ip
    BY <1>1, <2>1, <2>2 DEF NodeCallKnows
  <2> QED
    BY <1>1, <1>2, <2>3, <2>4, <2>5, AloneNodeStored
<1>5. CASE SaveNode(c) /\ node' # node
  <2>1. call[c].op \in {"UpdateNode", "Provision", "Deprovision"}
    BY <1>5 DEF SaveNode, Doing
  <2>2. call[c] \in NodeChange /\ call[c].row \in NodeRow
    BY <1>1, <2>1, CallKinds DEF NodeCalls, NodeCreations, NamesInv, CallsForRows
  <2> DEFINE n == call[c].id
             fields == IF call[c].op = "UpdateNode" THEN call[c].new ELSE call[c].row
             row == [state |-> "live", name |-> fields.name, ip |-> fields.ip,
                     cluster |-> SavedCluster(c)]
  <2>3. node' = [node EXCEPT ![n] = row]
    BY <1>5 DEF SaveNode
  <2>4. /\ n \in Nodes /\ fields.name \in Names /\ fields.ip \in Addresses
        /\ SavedCluster(c) \in Clusters \cup {NoCluster}
    BY <2>2 DEF NodeChange, NodeFields, NodeRow, SavedCluster
  <2>5. row \in NodeRow
    BY <2>4 DEF NodeRow, RowStates
  <2>6. LiveNode(n) /\ call[c].row = node[n] /\ call[c].preload = node[n].cluster
    BY <1>1, <2>2 DEF NodeCallKnows
  <2>7. row.cluster = NoCluster \/ LiveCluster(row.cluster)
    <3>1. node[n].cluster = NoCluster \/ LiveCluster(node[n].cluster)
      BY <2>4, <2>6 DEF AloneFacts, Consistent, NodeClusterLive, LiveCluster
    <3>2. call[c].new.cluster = NoCluster \/ LiveCluster(call[c].new.cluster)
      BY <1>1, <2>1 DEF NodeCallKnows
    <3> QED
      BY <2>6, <3>1, <3>2 DEF SavedCluster
  <2>8. \A m \in Nodes \ {n} : LiveNode(m) => node[m].ip # row.ip
    <3>1. CASE call[c].op = "UpdateNode"
      BY <1>1, <3>1 DEF NodeCallKnows
    <3>2. CASE call[c].op # "UpdateNode"
      BY <2>4, <2>6, <3>2 DEF AloneFacts, Consistent, UniqueAddresses
    <3> QED
      BY <3>1, <3>2
  <2> HIDE DEF row, n
  <2>9. n \in Nodes /\ row.state = "live"
    BY <2>4 DEF row
  <2> QED
    BY <1>1, <1>2, <2>3, <2>5, <2>7, <2>8, <2>9, AloneNodeStored
<1>6. CASE DeleteNode(c)
  <2>1. call[c].op = "DeleteNode"
    BY <1>6 DEF DeleteNode, Doing
  <2>2. call[c] \in NodeChange /\ call[c].id \in Nodes /\ DevicesOn(call[c].id) = {}
    BY <1>1, <2>1, CallKinds DEF NodeCalls, NodeCreations, NodeChange, NodeCallKnows
  <2> DEFINE n == call[c].id
             row == [node[n] EXCEPT !.state = "deleted"]
  <2>3. row \in NodeRow /\ row.state = "deleted"
    BY <2>2 DEF NodeRow, RowStates, NamesInv, InventoryTypeOK
  <2>4. node' = [node EXCEPT ![n] = row]
    BY <1>6 DEF DeleteNode
  <2> QED
    BY <1>1, <1>2, <2>2, <2>3, <2>4, AloneNodeStored
<1> QED
  BY <1>3, <1>4, <1>5, <1>6

\* A row of devices is stored as it was reported, on a live node, or goes away.
LEMMA AloneDeviceStored ==
  ASSUME NamesInv, AloneFacts, NEW c \in Callers, call[c] # NoCall, Finish(c),
         UNCHANGED <<cluster, node>>,
         NEW d \in Devices, NEW row \in DeviceRow, device' = [device EXCEPT ![d] = row],
         \A e \in Devices : e # d => saved'[e] = saved[e],
         \/ /\ row.state = "live" /\ LiveNode(row.node)
            /\ row.value = saved'[d].value /\ row.writable = saved'[d].writable
         \/ row.state = "deleted"
  PROVE  AloneFacts'
<1>1. \A e \in Devices : device'[e] = IF e = d THEN row ELSE device[e]
  BY DEF NamesInv, InventoryTypeOK
<1>2. (\A e \in Devices \ {d} : LiveDevice(e) <=> LiveDevice(e)') /\ (LiveDevice(d)' => row.state = "live")
  BY <1>1 DEF LiveDevice
<1>3. UniqueAddresses' /\ NodeClusterLive'
  BY DEF AloneFacts, Consistent, UniqueAddresses, NodeClusterLive, LiveNode
<1>4. DeviceHasNode'
  BY <1>1, <1>2 DEF AloneFacts, Consistent, DeviceHasNode, LiveNode
<1>5. DeviceAsSaved'
  BY <1>1, <1>2 DEF AloneFacts, Consistent, DeviceAsSaved
<1>6. FreshRows'
  BY <1>1 DEF AloneFacts, FreshRows
<1>7. Consistent'
  BY <1>3, <1>4, <1>5 DEF Consistent
<1> QED
  BY <1>6, <1>7, AloneCallEnds

\* A statement that the index on pins refuses leaves the rows as they are.
LEMMA AloneDeviceRefused ==
  ASSUME NamesInv, AloneFacts, NEW c \in Callers, call[c] # NoCall, Finish(c),
         UNCHANGED <<cluster, node, device, saved>>
  PROVE  AloneFacts'
<1>1. Consistent' /\ FreshRows'
  BY DEF AloneFacts, Consistent, FreshRows, UniqueAddresses, DeviceHasNode, NodeClusterLive,
         DeviceAsSaved, LiveNode, LiveDevice
<1> QED
  BY <1>1, AloneCallEnds

LEMMA AloneDeviceWrites ==
  ASSUME NamesInv, AloneFacts, NEW c \in Callers,
         InsertDevice(c) \/ SaveDevice(c) \/ DeleteDevice(c)
  PROVE  AloneFacts'
<1>1. /\ call[c] \in Call \cup {NoCall} /\ call[c].at = "write" /\ call[c].op \in DeviceCalls
      /\ UNCHANGED <<cluster, node>> /\ Finish(c) /\ DeviceCallKnows(call[c])
  BY DEF NamesInv, InventoryTypeOK, AloneFacts, InsertDevice, SaveDevice, DeleteDevice, Doing,
         DeviceCalls
<1>2. call[c] # NoCall
  BY <1>1, CallKinds
<1>3. CASE InsertDevice(c)
  <2>1. call[c].op = "CreateDevice" /\ call[c] \in DeviceCreation
    BY <1>1, <1>3, CallKinds DEF InsertDevice, Doing
  <2> DEFINE row == [state |-> "live", node |-> call[c].new.node, pin |-> call[c].new.pin,
                     value |-> 0, writable |-> TRUE]
  <2>2. row \in DeviceRow
    BY <2>1 DEF DeviceCreation, DeviceRow, RowStates, Values
  <2>3. PICK d \in Devices :
          /\ device[d].state = "free"
          /\ device' = IF PinFree(row.node, row.pin, d) THEN [device EXCEPT ![d] = row] ELSE device
    BY <1>3 DEF InsertDevice
  <2>4. saved' = saved /\ saved[d] = [value |-> 0, writable |-> TRUE]
    BY <1>3, <2>3 DEF InsertDevice, AloneFacts, FreshRows
  <2>5. LiveNode(row.node)
    BY <1>1, <2>1 DEF DeviceCallKnows
  <2>6. row.state = "live" /\ row.value = saved'[d].value /\ row.writable = saved'[d].writable
    BY <2>4
  <2> HIDE DEF row
  <2>7. CASE PinFree(row.node, row.pin, d)
    BY <1>1, <1>2, <2>2, <2>3, <2>4, <2>5, <2>6, <2>7, AloneDeviceStored
  <2>8. CASE ~PinFree(row.node, row.pin, d)
    BY <1>1, <1>2, <2>3, <2>4, <2>8, AloneDeviceRefused
  <2> QED
    BY <2>7, <2>8
<1>4. CASE SaveDevice(c)
  <2>1. call[c].op \in {"UpdateDevice", "WriteDevice"}
    BY <1>4 DEF SaveDevice, Doing
  <2>2. call[c] \in DeviceChange
    BY <1>1, <2>1, CallKinds DEF DeviceCalls
  <2> DEFINE d == call[c].id
  <2>3. /\ d \in Devices /\ LiveDevice(d) /\ call[c].row = device[d] /\ device[d] \in DeviceRow
        /\ call[c].new.value \in Values /\ call[c].new.writable \in BOOLEAN
    BY <1>1, <2>2 DEF DeviceChange, DeviceCallKnows, NamesInv, InventoryTypeOK
  <2>4. CASE ~PinFree(device[d].node, device[d].pin, d)
    <3>1. UNCHANGED <<device, saved>>
      BY <1>4, <2>3, <2>4 DEF SaveDevice
    <3> QED
      BY <1>1, <1>2, <3>1, AloneDeviceRefused
  <2> SUFFICES ASSUME PinFree(device[d].node, device[d].pin, d) PROVE AloneFacts'
    BY <2>4
  <2>5. PICK row \in DeviceRow :
          /\ device' = [device EXCEPT ![d] = row]
          /\ row.state = "live" /\ row.node = device[d].node
          /\ row.value = saved'[d].value /\ row.writable = saved'[d].writable
    <3>1. saved[d] \in [value : Values, writable : BOOLEAN] /\ saved \in [Devices -> [value : Values, writable : BOOLEAN]]
      BY <2>3 DEF NamesInv, InventoryTypeOK
    <3>2. device[d].value = saved[d].value /\ device[d].writable = saved[d].writable
      BY <2>3 DEF AloneFacts, Consistent, DeviceAsSaved
    <3>3. CASE call[c].op = "WriteDevice"
      <4> DEFINE row == [device[d] EXCEPT !.value = call[c].new.value]
      <4>1. /\ row \in DeviceRow /\ row.state = "live" /\ row.node = device[d].node
            /\ row.value = call[c].new.value
            /\ row.writable = device[d].writable
        BY <2>3 DEF DeviceRow, LiveDevice
      <4>2. /\ device' = [device EXCEPT ![d] = row]
            /\ saved' = [saved EXCEPT ![d] = [saved[d] EXCEPT !.value = call[c].new.value]]
        BY <1>4, <2>3, <3>3 DEF SaveDevice
      <4> QED
        BY <2>3, <3>1, <3>2, <4>1, <4>2
    <3>4. CASE call[c].op # "WriteDevice"
      <4> DEFINE row == [device[d] EXCEPT !.writable = call[c].new.writable]
      <4>1. /\ row \in DeviceRow /\ row.state = "live" /\ row.node = device[d].node
            /\ row.value = device[d].value
            /\ row.writable = call[c].new.writable
        BY <2>3 DEF DeviceRow, LiveDevice
      <4>2. /\ device' = [device EXCEPT ![d] = row]
            /\ saved' = [saved EXCEPT ![d] = [saved[d] EXCEPT !.writable = call[c].new.writable]]
        BY <1>4, <2>3, <3>4 DEF SaveDevice
      <4> QED
        BY <2>3, <3>1, <3>2, <4>1, <4>2
    <3> QED
      BY <3>3, <3>4
  <2>6. \A e \in Devices : e # d => saved'[e] = saved[e]
    BY <1>4 DEF SaveDevice, NamesInv, InventoryTypeOK
  <2>7. LiveNode(row.node)
    BY <2>3, <2>5 DEF AloneFacts, Consistent, DeviceHasNode
  <2> HIDE DEF d
  <2>8. d \in Devices
    BY <2>3
  <2> QED
    BY <1>1, <1>2, <2>5, <2>6, <2>7, <2>8, AloneDeviceStored
<1>5. CASE DeleteDevice(c)
  <2>1. call[c].op = "DeleteDevice"
    BY <1>5 DEF DeleteDevice, Doing
  <2> DEFINE d == call[c].id
             row == [device[d] EXCEPT !.state = "deleted"]
  <2>2. d \in Devices
    BY <1>1, <2>1, CallKinds DEF DeviceCalls, DeviceChange
  <2>3. row \in DeviceRow /\ row.state = "deleted"
    BY <2>2 DEF DeviceRow, RowStates, NamesInv, InventoryTypeOK
  <2>4. device' = [device EXCEPT ![d] = row] /\ saved' = saved
    BY <1>5 DEF DeleteDevice
  <2> QED
    BY <1>1, <1>2, <2>2, <2>3, <2>4, AloneDeviceStored
<1> QED
  BY <1>3, <1>4, <1>5

LEMMA AloneClusters ==
  ASSUME NamesInv, AloneFacts, AloneStep, NEW k \in Clusters, InsertCluster(k) \/ DeleteCluster(k)
  PROVE  AloneFacts'
<1>1. InsertCluster(k)
  BY DEF AloneStep, DeleteCluster, NamesInv, InventoryTypeOK
<1>2. /\ UNCHANGED <<node, device, call, saved>>
      /\ cluster[k] = "free" /\ \A j \in Clusters : cluster'[j] = IF j = k THEN "live" ELSE cluster[j]
  BY <1>1 DEF InsertCluster, NamesInv, InventoryTypeOK
<1>3. \A j \in Clusters : LiveCluster(j) => LiveCluster(j)'
  BY <1>2 DEF LiveCluster
<1>4. Consistent' /\ FreshRows'
  BY <1>2 DEF AloneFacts, Consistent, FreshRows, UniqueAddresses, DeviceHasNode,
              NodeClusterLive, DeviceAsSaved, LiveNode, LiveDevice, NamesInv, InventoryTypeOK, NodeRow
<1>5. \A c \in Callers : NodeCallKnows(call[c])' /\ DeviceCallKnows(call[c])'
  <2> SUFFICES ASSUME NEW c \in Callers PROVE NodeCallKnows(call[c])' /\ DeviceCallKnows(call[c])'
    OBVIOUS
  <2>1. NodeCallKnows(call[c]) /\ DeviceCallKnows(call[c]) /\ call'[c] = call[c]
    BY <1>2 DEF AloneFacts
  <2>2. call[c].op \in NodeCalls => call[c].new.cluster \in Clusters \cup {NoCluster}
    BY CallKinds DEF NamesInv, InventoryTypeOK, NodeCreation, NodeChange, NodeFields
  <2>3. DeviceCallKnows(call[c])'
    BY <1>2, <2>1 DEF DeviceCallKnows, LiveNode, LiveDevice, DevicesOn
  <2>4. NodeCallKnows(call[c])'
    BY <1>2, <1>3, <2>1, <2>2 DEF NodeCallKnows, LiveNode, DevicesOn, LiveDevice, LiveCluster, NodeCalls
  <2> QED
    BY <2>3, <2>4
<1>6. OneCall' /\ (\A c \in Callers : call'[c].op # "InsertNode") /\ \A j \in Clusters : cluster'[j] # "deleted"
  BY DEF AloneStep
<1> QED
  BY <1>4, <1>5, <1>6 DEF AloneFacts

LEMMA AloneKeeps == ASSUME NamesInv, AloneFacts, AloneStep PROVE AloneFacts'
<1>1. OneCall'
  BY DEF AloneStep
<1> QED
  BY <1>1, AloneBegins, AloneLooks, AloneNodeWrites, AloneDeviceWrites, AloneClusters
  DEF AloneStep, InventoryNext, NodeStep, DeviceStep

MCInv == NamesInv /\ scene \in Scenes /\ AloneInv

LEMMA MCStepsAre ==
  ASSUME NamesInv, [MCNext]_<<inventoryVars, scene>>
  PROVE  /\ [InventoryNext]_inventoryVars /\ UNCHANGED scene
         /\ scene = "alone" => AloneStep \/ UNCHANGED inventoryVars
BY DEF MCNext, AloneStep, OneCall

LEMMA MCInvStep == MCInv /\ [MCNext]_<<inventoryVars, scene>> => MCInv'
<1> SUFFICES ASSUME MCInv, [MCNext]_<<inventoryVars, scene>> PROVE MCInv'
  OBVIOUS
<1>1. NamesInv' /\ scene' = scene
  BY MCStepsAre, NamesStep DEF MCInv
<1>2. AloneInv'
  <2>1. CASE scene = "alone" /\ AloneStep
    BY <2>1, AloneKeeps DEF MCInv, AloneInv
  <2>2. CASE UNCHANGED inventoryVars
    BY <1>1, <2>2 DEF MCInv, AloneInv, inventoryVars, AloneFacts, OneCall, Consistent, FreshRows,
       UniqueAddresses, DeviceHasNode, NodeClusterLive, DeviceAsSaved,
       NodeCallKnows, DeviceCallKnows, LiveNode, LiveDevice, LiveCluster, DevicesOn
  <2> QED
    BY <1>1, <2>1, <2>2, MCStepsAre DEF MCInv, AloneInv
<1> QED
  BY <1>1, <1>2 DEF MCInv

LEMMA MCInvHolds == MCSpec => []MCInv
<1>1. MCInit => MCInv
  BY NamesInitially, AloneInitially DEF MCInit, MCInv, AloneInv
<1> QED
  BY <1>1, MCInvStep, PTL DEF MCSpec

(* Whoever interleaves, no two rows share a name and no two live devices a *)
(* pin, for the indexes refuse them; one request at a time leaves no two   *)
(* nodes with one address (node.go: what Create and Update look up first). *)
THEOREM OneOfEachHolds == MCSpec => []OneOfEach
<1>1. MCInv => OneOfEach
  BY DEF MCInv, NamesInv, AloneInv, AloneFacts, Consistent, OneOfEach
<1> QED
  BY <1>1, MCInvHolds, PTL

(* One request at a time, a device's node is there (node.go: Delete asks   *)
(* for devices), and so is a node's cluster while no cluster is deleted    *)
(* (what sets it looks it up, and Deprovision's Save keeps it).            *)
THEOREM ReferencesStayLive == MCSpec => []ReferencesLive
<1>1. MCInv => ReferencesLive
  BY DEF MCInv, AloneInv, AloneFacts, Consistent, ReferencesLive
<1> QED
  BY <1>1, MCInvHolds, PTL

(* One request at a time, a device's row holds what the last Write or      *)
(* Update reported as stored, though each saves a whole row (gpio.go).     *)
THEOREM SavedValuesAreKept == MCSpec => []SavedIsKept
<1>1. MCInv => SavedIsKept
  BY DEF MCInv, AloneInv, AloneFacts, Consistent, SavedIsKept
<1> QED
  BY <1>1, MCInvHolds, PTL

\* The only row a step of one request writes is free, live or going away.
LEMMA AloneNodesStayDeleted ==
  ASSUME NamesInv, AloneFacts, InventoryNext, NEW n \in Nodes, node[n].state = "deleted"
  PROVE  node'[n].state = "deleted"
<1>1. CASE UNCHANGED node
  BY <1>1
<1>2. ASSUME NEW c \in Callers, InsertNode(c) \/ SaveNode(c) \/ DeleteNode(c)
      PROVE  node'[n].state = "deleted"
  <2>1. call[c] \in Call \cup {NoCall} /\ NodeCallKnows(call[c]) /\ node \in [Nodes -> NodeRow]
    BY DEF NamesInv, InventoryTypeOK, AloneFacts
  <2>2. CASE InsertNode(c)
    BY <2>1, <2>2 DEF InsertNode
  <2>3. CASE SaveNode(c)
    <3>1. call[c] \in NodeChange /\ call[c].at = "write"
      BY <2>1, <2>3, CallKinds DEF SaveNode, Doing, NodeCalls, NodeCreations
    <3>2. LiveNode(call[c].id)
      BY <2>1, <3>1 DEF NodeCallKnows
    <3> QED
      BY <2>1, <2>3, <3>2 DEF SaveNode, LiveNode
  <2>4. CASE DeleteNode(c)
    <3>1. call[c].id \in Nodes
      BY <2>1, <2>4, CallKinds DEF DeleteNode, Doing, NodeCalls, NodeCreations, NodeChange
    <3> QED
      BY <2>1, <2>4, <3>1 DEF DeleteNode, NodeRow
  <2> QED
    BY <1>2, <2>2, <2>3, <2>4
<1>3. ASSUME NEW c \in Callers, NodeStep(c) \/ DeviceStep(c)
      PROVE  UNCHANGED node \/ InsertNode(c) \/ SaveNode(c) \/ DeleteNode(c)
  <2>1. CASE BeginCreateNode(c) \/ BeginNodeCall(c) \/ BeginCreateDevice(c) \/ BeginDeviceCall(c)
    BY <2>1 DEF BeginCreateNode, BeginNodeCall, BeginCreateDevice, BeginDeviceCall, BeginCall
  <2>2. CASE \/ ReadNode(c) \/ CheckName(c) \/ CheckIP(c) \/ CheckCluster(c)
             \/ CheckNode(c) \/ CheckPin(c) \/ ReadDevice(c)
    BY <2>2 DEF ReadNode, CheckName, CheckIP, CheckCluster, CheckNode, CheckPin, ReadDevice
  <2>3. CASE InsertDevice(c) \/ SaveDevice(c) \/ DeleteDevice(c)
    BY <2>3 DEF InsertDevice, SaveDevice, DeleteDevice
  <2> QED
    BY <1>3, <2>1, <2>2, <2>3 DEF NodeStep, DeviceStep
<1>4. ASSUME NEW k \in Clusters, InsertCluster(k) \/ DeleteCluster(k) PROVE UNCHANGED node
  BY <1>4 DEF InsertCluster, DeleteCluster
<1> QED
  BY <1>1, <1>2, <1>3, <1>4 DEF InventoryNext

LEMMA AloneDevicesStayDeleted ==
  ASSUME NamesInv, AloneFacts, InventoryNext, NEW d \in Devices, device[d].state = "deleted"
  PROVE  device'[d].state = "deleted"
<1>1. CASE UNCHANGED device
  BY <1>1
<1>2. ASSUME NEW c \in Callers, InsertDevice(c) \/ SaveDevice(c) \/ DeleteDevice(c)
      PROVE  device'[d].state = "deleted"
  <2>1. call[c] \in Call \cup {NoCall} /\ DeviceCallKnows(call[c]) /\ device \in [Devices -> DeviceRow]
    BY DEF NamesInv, InventoryTypeOK, AloneFacts
  <2>2. CASE InsertDevice(c)
    BY <2>1, <2>2 DEF InsertDevice
  <2>3. CASE SaveDevice(c)
    <3>1. call[c] \in DeviceChange /\ call[c].at = "write"
      BY <2>1, <2>3, CallKinds DEF SaveDevice, Doing, DeviceCalls
    <3>2. LiveDevice(call[c].id)
      BY <2>1, <3>1 DEF DeviceCallKnows
    <3> QED
      BY <2>1, <2>3, <3>2 DEF SaveDevice, LiveDevice
  <2>4. CASE DeleteDevice(c)
    <3>1. call[c].id \in Devices
      BY <2>1, <2>4, CallKinds DEF DeleteDevice, Doing, DeviceCalls, DeviceChange
    <3> QED
      BY <2>1, <2>4, <3>1 DEF DeleteDevice, DeviceRow
  <2> QED
    BY <1>2, <2>2, <2>3, <2>4
<1>3. ASSUME NEW c \in Callers, NodeStep(c) \/ DeviceStep(c)
      PROVE  UNCHANGED device \/ InsertDevice(c) \/ SaveDevice(c) \/ DeleteDevice(c)
  <2>1. CASE BeginCreateNode(c) \/ BeginNodeCall(c) \/ BeginCreateDevice(c) \/ BeginDeviceCall(c)
    BY <2>1 DEF BeginCreateNode, BeginNodeCall, BeginCreateDevice, BeginDeviceCall, BeginCall
  <2>2. CASE \/ ReadNode(c) \/ CheckName(c) \/ CheckIP(c) \/ CheckCluster(c)
             \/ CheckNode(c) \/ CheckPin(c) \/ ReadDevice(c)
    BY <2>2 DEF ReadNode, CheckName, CheckIP, CheckCluster, CheckNode, CheckPin, ReadDevice
  <2>3. CASE InsertNode(c) \/ SaveNode(c) \/ DeleteNode(c)
    BY <2>3 DEF InsertNode, SaveNode, DeleteNode
  <2> QED
    BY <1>3, <2>1, <2>2, <2>3 DEF NodeStep, DeviceStep
<1>4. ASSUME NEW k \in Clusters, InsertCluster(k) \/ DeleteCluster(k) PROVE UNCHANGED device
  BY <1>4 DEF InsertCluster, DeleteCluster
<1> QED
  BY <1>1, <1>2, <1>3, <1>4 DEF InventoryNext

(* One request at a time, no Save of a row that was read earlier takes the *)
(* mark of a deleted row away (GORM's Save inserts what it cannot update). *)
THEOREM DeletedRowsStayDeleted == MCSpec => DeletedStaysDeleted
<1>1. ASSUME MCInv, [MCNext]_<<inventoryVars, scene>>
      PROVE  [scene = "alone" =>
                /\ \A n \in Nodes : node[n].state = "deleted" => node'[n].state = "deleted"
                /\ \A d \in Devices : device[d].state = "deleted" => device'[d].state = "deleted"
             ]_<<inventoryVars, scene>>
  BY <1>1, AloneNodesStayDeleted, AloneDevicesStayDeleted DEF MCInv, AloneInv, MCNext
<1> QED
  BY <1>1, MCInvHolds, PTL DEF MCSpec, DeletedStaysDeleted

=============================================================================
