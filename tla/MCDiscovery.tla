----------------------------- MODULE MCDiscovery -----------------------------
(***************************************************************************)
(* Instances of Discovery for TLC.                                         *)
(***************************************************************************)
EXTENDS Discovery

-----------------------------------------------------------------------------
(* What a comment or a message of the code says and the code does not do:  *)
(* see README.md, "Departures".                                            *)

(* "Stop stops the discovery service": it can be started and stopped       *)
(* again, and the table is used under its mutex.                           *)
NoPanic == panic = "no"

(* "NodeEvent represents a node discovery event": a handler that goes by   *)
(* the order of events is not told that a node is lost before it has been  *)
(* told that it is there.                                                  *)
ToldInOrder == \A i \in Found : told[i] \in {0, 1}

(* "discovery service is already running" is said only while it runs: not  *)
(* after its context has ended, nor after a restart, whose goroutines find *)
(* the channel closed.                                                     *)
RunningMeansAlive == running /\ starter = "idle" => \E l \in Loops : loop[l] # "none"

=============================================================================
