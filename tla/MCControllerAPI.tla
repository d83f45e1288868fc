-------------------------- MODULE MCControllerAPI --------------------------
(***************************************************************************)
(* Instances of ControllerAPI for TLC.  The limiter, the clusters and the  *)
(* devices share nothing but the requests and the tokens, so TLC looks at  *)
(* one of them at a time: plain requests through the limiter, or the       *)
(* requests for one kind of row past it.                                   *)
(***************************************************************************)
EXTENDS ControllerAPI, TLC

VARIABLE scene

RequestSymmetry == Permutations(Requests) \cup Permutations(Limiters)

Scenes == {"limiter", "clusters", "devices"}

OpsIn(s) ==
  CASE s = "limiter" -> {"Health"}
    [] s = "clusters" -> Ops \ {"ReadGPIO", "WriteGPIO"}
    [] s = "devices" -> {"Health", "ReadGPIO", "WriteGPIO"}

MCInit ==
  /\ Init
  /\ scene \in Scenes
  /\ scene # "devices" => device.kind = "missing"

MCNext ==
  /\ Next
  /\ UNCHANGED scene
  /\ \A r \in Requests : req'[r].op \in OpsIn(scene)
  /\ IF scene = "limiter" THEN issued' = {}
     ELSE now' <= 1 /\ (Tick \/ Restart \/ UNCHANGED limiterVars)

MCSpec == MCInit /\ [][MCNext]_<<vars, scene>>

-----------------------------------------------------------------------------
(* What a comment or a message of the code says and the code does not do:  *)
(* see README.md, "Departures".                                            *)

(* "handleServiceError handles service layer errors and maps them to       *)
(* appropriate HTTP responses": who asks for a cluster that is not there   *)
(* is told so.                                                             *)
MissingIsNotFound ==
  \A r \in Requests : at[r] = "handle" /\ req[r].op = "Get" /\ ~Live(req[r].id) => Reply(req[r]) = 404

(* "Create creates a new cluster": not every creation is refused.          *)
CreateSucceeds ==
  \A r \in Requests : at[r] = "handle" /\ req[r].op = "Create" => Reply(req[r]) \in {201, 409}

(* "Record the write operation": when nobody is at work, the latest        *)
(* reading of the device is its value.                                     *)
ReadingIsValue == (\A r \in Requests : at[r] = "idle") => reading = device.value

=============================================================================
