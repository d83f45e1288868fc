----------------------------- MODULE Migrations -----------------------------
(***************************************************************************)
(* The schema of the controller's SQLite file and the processes that       *)
(* change it: the server, which migrates up when it opens the file, and    *)
(* the operator's `migrate up | down | status | reset` commands.           *)
(*                                                                         *)
(* Migrations 1..N create one table each, migration N + 1 adds the         *)
(* performance indexes to all of them; Log is the table `migrations` that  *)
(* records what was applied, and when by the wall clock.  Each transaction *)
(* of the code is one step, each statement outside a transaction too.      *)
(***************************************************************************)
EXTENDS Integers

CONSTANTS
  Procs,      \* processes that open the database file
  N,          \* migrations that create a table
  MaxClock,   \* bound: applications a behaviour sees
  Plans       \* what may happen: see Plan

ASSUME NAssumption == N \in Nat \ {0}
ASSUME ClockAssumption == MaxClock \in Nat

Log == 0
Data == 1..N
Indexes == N + 1
IDs == 1..(N + 1)
Readings == N
Commands == {"up", "down", "status", "reset"}

\* Who works on the file, with which commands, and whether its clock steps
\* back (a Raspberry Pi keeps no time while it is off).
Plan == [crew : SUBSET Procs, commands : SUBSET Commands, clockSteps : BOOLEAN]

ASSUME PlansAssumption == Plans \subseteq Plan

VARIABLES
  tables,     \* the tables in the file
  older,      \* those created before Log, so listed before it
  indexed,    \* the tables that have their performance indexes
  readings,   \* whether the table of readings, the last, has rows
  record,     \* the migrations that Log says are applied
  appliedAt,  \* the time it gives
  now,        \* the wall clock
  plan,
  pc, cmd,
  outcome,    \* "ok" once the command has returned no error
  pending,    \* Up: what was not applied when it looked, still to do
  target,     \* Down: the migration it looked up
  todo,       \* Reset: the tables it listed, still to drop
  first       \* Reset: those it listed before Log

schema == <<tables, older, indexed, readings, record, appliedAt>>
locals == <<pending, target, todo, first>>
vars == <<schema, now, plan, pc, cmd, outcome, locals>>

Init ==
  /\ tables = {} /\ older = {} /\ indexed = {} /\ readings = FALSE
  /\ record = {}
  /\ appliedAt = [i \in IDs |-> 0]
  /\ now = 0
  /\ plan \in Plans
  /\ pc = [p \in Procs |-> "idle"]
  /\ cmd = [p \in Procs |-> "status"]
  /\ outcome = [p \in Procs |-> "failed"]
  /\ pending = [p \in Procs |-> {}]
  /\ target = [p \in Procs |-> 1]
  /\ todo = [p \in Procs |-> {}]
  /\ first = [p \in Procs |-> {}]

Goto(p, where) == pc' = [pc EXCEPT ![p] = where] /\ UNCHANGED outcome

\* The process ends, and what it had read is gone.
Return(p, how) ==
  /\ pc' = [pc EXCEPT ![p] = "idle"]
  /\ outcome' = [outcome EXCEPT ![p] = how]
  /\ pending' = [pending EXCEPT ![p] = {}]
  /\ target' = [target EXCEPT ![p] = 1]
  /\ todo' = [todo EXCEPT ![p] = {}]
  /\ first' = [first EXCEPT ![p] = {}]

(* A process starts: the server with Up, an operator with any command.     *)
Begin(p) ==
  /\ pc[p] = "idle" /\ p \in plan.crew
  /\ \E c \in plan.commands :
       /\ cmd' = [cmd EXCEPT ![p] = c]
       /\ pc' = [pc EXCEPT ![p] = IF c = "reset" THEN "list" ELSE "ensure"]
  /\ outcome' = [outcome EXCEPT ![p] = "failed"]
  /\ UNCHANGED <<schema, now, plan, locals>>

(* The process is killed, or a statement fails because the file is locked  *)
(* or full: an open transaction is rolled back.                            *)
Abort(p) ==
  /\ pc[p] # "idle"
  /\ Return(p, "failed")
  /\ UNCHANGED <<schema, now, plan, cmd>>

-----------------------------------------------------------------------------
(* EnsureMigrationTable, the first statement of Up, Down and Status.       *)
EnsureMigrationTable(p) ==
  /\ pc[p] = "ensure"
  /\ tables' = tables \cup {Log}
  /\ older' = IF Log \in tables THEN older ELSE tables
  /\ Goto(p, IF cmd[p] = "reset" THEN "up" ELSE cmd[p])
  /\ UNCHANGED <<indexed, readings, record, appliedAt, now, plan, cmd, locals>>

(* Status reads the table and prints it.                                   *)
Status(p) ==
  /\ pc[p] = "status"
  /\ Return(p, IF Log \in tables THEN "ok" ELSE "failed")
  /\ UNCHANGED <<schema, now, plan, cmd>>

\* A wrong look: what is older than the newest recorded counts as applied.
ReadApplied_HighWater(p) ==
  /\ pc[p] = "up" /\ Log \in tables
  /\ pending' = [pending EXCEPT ![p] = {i \in IDs : \A j \in record : j < i}]
  /\ Goto(p, "apply")
  /\ UNCHANGED <<schema, now, plan, cmd, target, todo, first>>

(* Up reads, once and outside any transaction, what is applied.            *)
ReadApplied(p) ==
  /\ pc[p] = "up" /\ Log \in tables
  /\ pending' = [pending EXCEPT ![p] = IDs \ record]
  /\ Goto(p, "apply")
  /\ UNCHANGED <<schema, now, plan, cmd, target, todo, first>>

IsNext(p, i) == i \in pending[p] /\ \A j \in pending[p] : i <= j

(* A migration's Up function, with IF NOT EXISTS throughout, and its Down  *)
(* function, with IF EXISTS throughout.                                    *)
RunUp(i) ==
  /\ tables' = IF i = Indexes THEN tables ELSE tables \cup {i}
  /\ indexed' = IF i = Indexes THEN Data ELSE indexed
  /\ UNCHANGED <<older, readings>>

RunDown(i) ==
  /\ tables' = IF i = Indexes THEN tables ELSE tables \ {i}
  /\ indexed' = IF i = Indexes THEN {} ELSE indexed \ {i}
  /\ older' = older \ {i}
  /\ readings' = (readings /\ i # Readings)

\* A wrong condition: the indexes skip the tables that are missing.
Applicable_AnyTables(i) == Log \in tables /\ i \notin record

\* The transaction commits: the tables the indexes need are there, no row
\* calls for datetime('now') in the condition of idx_gpio_readings_recent,
\* which SQLite refuses, and the record's key is new and its table exists.
Applicable(i) ==
  /\ i = Indexes => Data \subseteq tables /\ ~readings
  /\ Log \in tables
  /\ i \notin record

(* One transaction of Up: the migration and the record of it.              *)
Apply(p) ==
  /\ pc[p] = "apply"
  /\ now < MaxClock
  /\ \E i \in IDs :
       /\ IsNext(p, i) /\ Applicable(i)
       /\ RunUp(i)
       /\ record' = record \cup {i}
       /\ appliedAt' = [appliedAt EXCEPT ![i] = now]
       /\ pending' = [pending EXCEPT ![p] = @ \ {i}]
  /\ now' = now + 1
  /\ UNCHANGED <<plan, pc, cmd, outcome, target, todo, first>>

UpReturns(p) ==
  /\ pc[p] = "apply" /\ pending[p] = {}
  /\ Return(p, "ok")
  /\ UNCHANGED <<schema, now, plan, cmd>>

-----------------------------------------------------------------------------
\* Down's query, ORDER BY applied_at DESC, id, and a wrong one.
IsLast_Earliest(i) ==
  i \in record /\ \A j \in record \ {i} : appliedAt[i] < appliedAt[j]

IsLast(i) ==
  /\ i \in record
  /\ \A j \in record \ {i} :
       appliedAt[j] < appliedAt[i] \/ (appliedAt[j] = appliedAt[i] /\ i < j)

(* Down looks up the migration applied last; none is no error.             *)
ReadLast(p) ==
  /\ pc[p] = "down" /\ Log \in tables
  /\ \/ record = {} /\ Return(p, "ok")
     \/ \E i \in IDs : /\ IsLast(i)
                       /\ target' = [target EXCEPT ![p] = i]
                       /\ Goto(p, "rollback")
                       /\ UNCHANGED <<pending, todo, first>>
  /\ UNCHANGED <<schema, now, plan, cmd>>

\* A wrong rollback: outside the transaction nothing deletes the record.
Rollback_KeepsRecord(p) ==
  /\ pc[p] = "rollback" /\ Log \in tables
  /\ RunDown(target[p])
  /\ Return(p, "ok")
  /\ UNCHANGED <<record, appliedAt, now, plan, cmd>>

(* The transaction of Down: the migration taken back, its record removed.  *)
Rollback(p) ==
  /\ pc[p] = "rollback" /\ Log \in tables
  /\ RunDown(target[p])
  /\ record' = record \ {target[p]}
  /\ appliedAt' = [appliedAt EXCEPT ![target[p]] = 0]
  /\ Return(p, "ok")
  /\ UNCHANGED <<now, plan, cmd>>

-----------------------------------------------------------------------------
\* A wrong list: Reset spares the record of what is applied.
List_SparesLog(p) ==
  /\ pc[p] = "list"
  /\ todo' = [todo EXCEPT ![p] = tables \ {Log}]
  /\ first' = [first EXCEPT ![p] = older]
  /\ Goto(p, "drop")
  /\ UNCHANGED <<schema, now, plan, cmd, pending, target>>

(* Reset lists the tables of the file, which come in order of creation.    *)
List(p) ==
  /\ pc[p] = "list"
  /\ todo' = [todo EXCEPT ![p] = tables]
  /\ first' = [first EXCEPT ![p] = older]
  /\ Goto(p, "drop")
  /\ UNCHANGED <<schema, now, plan, cmd, pending, target>>

\* Of the order of creation only each table's place before or after Log is
\* kept: the tables on one side of it are dropped in any order.
ListedBefore(p, t, u) == (t \in first[p] /\ u \notin first[p]) \/ (t = Log /\ u \notin first[p])

(* One DROP TABLE of Reset, outside any transaction.  The rows and the     *)
(* indexes of the table go with it.                                        *)
Drop(p) ==
  /\ pc[p] = "drop"
  /\ \E t \in todo[p] :
       /\ \A u \in todo[p] \ {t} : ~ListedBefore(p, u, t)
       /\ todo' = [todo EXCEPT ![p] = @ \ {t}]
       /\ tables' = tables \ {t}
       /\ indexed' = indexed \ {t}
       /\ readings' = (readings /\ t # Readings)
       /\ IF t = Log
            THEN older' = {} /\ record' = {} /\ appliedAt' = [i \in IDs |-> 0]
            ELSE older' = older \ {t} /\ UNCHANGED <<record, appliedAt>>
  /\ UNCHANGED <<now, plan, pc, cmd, outcome, pending, target, first>>

(* Everything listed is dropped; Reset goes on as Up.                      *)
Dropped(p) ==
  /\ pc[p] = "drop" /\ todo[p] = {}
  /\ Goto(p, "ensure")
  /\ UNCHANGED <<schema, now, plan, cmd, locals>>

(* A statement that finds Log gone, or a migration another process has     *)
(* applied or whose tables are missing, is an error; its transaction is    *)
(* rolled back and the command returns it.                                 *)
Refuse(p) ==
  /\ \/ pc[p] \in {"up", "down", "rollback"} /\ Log \notin tables
     \/ pc[p] = "apply" /\ \E i \in IDs : IsNext(p, i) /\ ~Applicable(i)
  /\ Return(p, "failed")
  /\ UNCHANGED <<schema, now, plan, cmd>>

\* The index of recent readings evaluates its condition, and so refuses,
\* every row that is inserted.
CanInsert == Readings \in tables /\ Readings \notin indexed

(* The server reads or writes a device and inserts the reading: an error   *)
(* changes nothing.                                                        *)
AddReading ==
  /\ CanInsert
  /\ readings' = TRUE
  /\ UNCHANGED <<tables, older, indexed, record, appliedAt, now, plan, pc, cmd, outcome, locals>>

(* The readings of a device, or the old ones, are deleted.                 *)
PurgeReadings ==
  /\ readings' = FALSE
  /\ UNCHANGED <<tables, older, indexed, record, appliedAt, now, plan, pc, cmd, outcome, locals>>

(* The wall clock steps back between two applications.                     *)
ClockSteps ==
  /\ plan.clockSteps
  /\ \E t \in 0..MaxClock : t < now /\ now' = t
  /\ UNCHANGED <<schema, plan, pc, cmd, outcome, locals>>

Step(p) ==
  \/ Begin(p) \/ Abort(p) \/ EnsureMigrationTable(p) \/ Status(p)
  \/ ReadApplied(p) \/ Apply(p) \/ UpReturns(p)
  \/ ReadLast(p) \/ Rollback(p)
  \/ List(p) \/ Drop(p) \/ Dropped(p) \/ Refuse(p)

Next == (\E p \in Procs : Step(p)) \/ AddReading \/ PurgeReadings \/ ClockSteps

Spec == Init /\ [][Next]_vars

-----------------------------------------------------------------------------
TypeOK ==
  /\ tables \subseteq {Log} \cup Data
  /\ older \subseteq Data
  /\ indexed \subseteq Data
  /\ readings \in BOOLEAN
  /\ record \subseteq IDs
  /\ appliedAt \in [IDs -> Nat]
  /\ now \in Nat
  /\ plan \in Plans
  /\ pc \in [Procs -> {"idle", "ensure", "status", "up", "apply", "down", "rollback",
                       "list", "drop"}]
  /\ cmd \in [Procs -> Commands]
  /\ outcome \in [Procs -> {"ok", "failed"}]
  /\ pending \in [Procs -> SUBSET IDs]
  /\ target \in [Procs -> IDs]
  /\ todo \in [Procs -> SUBSET ({Log} \cup Data)]
  /\ first \in [Procs -> SUBSET Data]

\* One process at a time on the file, and a clock that only goes forward.
Alone == \E p \in Procs : plan.crew = {p}
Orderly == Alone /\ ~plan.clockSteps

Succeeded(p, c) == pc[p] = "idle" /\ cmd[p] = c /\ outcome[p] = "ok"

(* Without Reset, whatever commands are killed, fail or work on a record   *)
(* another process has changed since, a table is in the file exactly when  *)
(* its migration is recorded, and there are indexes only when theirs is.   *)
TableIffRecorded ==
  "reset" \notin plan.commands =>
    /\ record \cap Data = tables \cap Data
    /\ indexed # {} => Indexes \in record

(* An operator alone with a clock that goes forward never leaves a gap:    *)
(* Down takes back the highest migration, and an interrupted Up or Reset   *)
(* leaves a prefix of the migrations recorded.                             *)
AppliedIsPrefix ==
  Orderly => \A i \in record : \A j \in 1..i : j \in record

(* As long as the index migration counts as applied, no table an operator  *)
(* working alone can query lacks its indexes, interrupted Resets included. *)
IndexedWhileRecorded ==
  Orderly /\ Indexes \in record => indexed = tables \ {Log}

(* An Up that returned no error left every migration recorded, unless      *)
(* another process was at work.                                            *)
UpRecordsAll ==
  \A p \in Procs : Alone /\ Succeeded(p, "up") => record = IDs

(* A Reset that returned no error left the whole schema, whatever earlier  *)
(* commands, interrupted ones too, had left of it.                         *)
ResetRebuilds ==
  \A p \in Procs : Alone /\ Succeeded(p, "reset") =>
    tables = {Log} \cup Data /\ indexed = Data /\ record = IDs

=============================================================================
