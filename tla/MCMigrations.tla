---------------------------- MODULE MCMigrations ----------------------------
(***************************************************************************)
(* Migrations with two tables and their index, for TLC.                    *)
(***************************************************************************)
EXTENDS Migrations, TLC

CONSTANTS server, operator

\* An operator alone, with and without a steady clock, and the server and an
\* operator at once, the operator sparing Reset.
SmallPlans ==
  { [crew |-> {operator}, commands |-> Commands, clockSteps |-> FALSE],
    [crew |-> {operator}, commands |-> Commands, clockSteps |-> TRUE],
    [crew |-> {server, operator}, commands |-> {"up", "down"}, clockSteps |-> FALSE] }

-----------------------------------------------------------------------------
(* What a comment or a message of the code says and the code does not do:  *)
(* see README.md, "Departures".                                            *)

(* "All migrations applied successfully": after an Up that succeeded the   *)
(* tables of every migration are in the file.                              *)
UpBuildsSchema ==
  \A p \in Procs : Orderly /\ Succeeded(p, "up") => Data \subseteq tables

(* "Create a reading record": the server can store a reading in a file     *)
(* that an Up has made ready and nobody has changed since.                 *)
ReadingsCanBeStored ==
  \A p \in Procs : Orderly /\ Succeeded(p, "up") /\ Readings \in tables => CanInsert

(* "Rollback the most recently applied migration": working alone, Down     *)
(* never takes a migration back from under a later one.                    *)
NoGapAlone == Alone => \A i \in record : \A j \in 1..i : j \in record

=============================================================================
