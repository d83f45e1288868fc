---------------------------- MODULE MCAgentClient ----------------------------
(***************************************************************************)
(* Small instances of AgentClient: the agent's main goroutine, its         *)
(* heartbeat and up to one more caller.                                    *)
(***************************************************************************)
EXTENDS AgentClient

CONSTANTS main, beat, caller

-----------------------------------------------------------------------------
(* What a comment or a message of the code says and the code does not do:  *)
(* TLC refutes each of these under the configuration that README.md names  *)
(* ("Departures").  They are kept to be checked when the code is mended.   *)

(* ensureConnected "checks the connection": the stub it lets a caller use  *)
(* is there when it is used.                                               *)
StubNeverNil == ~crashed

(* ensureConnected "attempts to reconnect if necessary": a caller it lets  *)
(* through has a connection that is ready.                                 *)
EnsuredIsReady ==
  [][\A t \in Threads : pc[t] # "use" /\ pc'[t] = "use" => conn = "ready"]_vars

(* "Stop stops the client and cleans up resources": when every goroutine of *)
(* a stopped client is done, no connection is open.                        *)
StoppedIsDisconnected ==
  life = "stopped" /\ (\A t \in Threads : pc[t] \in {"none", "idle", "ended"}) /\ pc[Beat] = "ended"
    => openConns = 0

(* "Setup graceful shutdown": the agent's loop gets back to its signals,   *)
(* whatever the controller does.                                           *)
OwnerComesBack == pc[Owner] = "check" ~> pc[Owner] = "idle" \/ crashed

=============================================================================
