----------------------------- MODULE MCPrograms -----------------------------
(***************************************************************************)
(* The controller's program, its clients and the agents' programs          *)
(* together, in scenes that keep the instance small.                       *)
(***************************************************************************)
EXTENDS AgentProgram

CONSTANTS a1, a2, pi

\* Two agents of one name.
MCNameOf == [a \in {a1, a2} |-> pi]
MCRequests == {a1, a2} \X (1..2)

VARIABLE scene
mcVars == <<programVars, scene>>

MCInit ==
  /\ ProgramsInit
  /\ scene \in {"shutdown", "restarts", "stop"}
  /\ peer \in CASE scene = "shutdown" -> {"controller"}
                [] scene \in {"restarts", "stop"} -> {"controller", "mock"}

\* "shutdown": the whole of the controller, with one request at a time, some
\* of them an agent's registration.  "restarts": both agents register, with the
\* gRPC server of a controller that is only killed, or with the mock server.
\* "stop": the whole of one agent, with either server, which may go away and,
\* if it is the controller, come back.
OnlyGRPC ==
  /\ errors' = 0 /\ ~signal' /\ exit' # "error"
  /\ server'["api"] \in {"none", "launched"}
  /\ server'["websocket"] \in {"none", "launched"}
  /\ peer = "mock" => boots' = 0

Within ==
  CASE scene = "shutdown" -> /\ boots' <= 1 /\ Cardinality(work') <= 1
                             /\ starts'[a2] = 0 /\ starts'[a1] <= 1 /\ phase'[a1] # "killed"
                             /\ ~notified'[a1] /\ handling'[a1] = {}
    [] scene = "restarts" -> /\ OnlyGRPC
                             /\ \A a \in Agents : ~notified'[a] /\ handling'[a] = {}
    [] scene = "stop" -> /\ OnlyGRPC
                         /\ \E a \in Agents : starts'[a] = 0

\* One REST request stands for any.
OneRESTRequest == \A q \in Requests : <<"api", q>> \in work' => q = <<a2, 1>>

MCNext == ProgramsNext /\ Within /\ OneRESTRequest /\ UNCHANGED scene

MCSpec == MCInit /\ [][MCNext]_mcVars /\ ControllerFairness /\ AgentFairness

-----------------------------------------------------------------------------
(* What a comment, a test or a reader would expect and the code does not   *)
(* keep.  No run checks them: TLC refutes each.                            *)

(* "Graceful shutdown": a shutdown that found all servers ended cuts off   *)
(* no REST request.  main waits for Start of the HTTP server, which ends   *)
(* when Shutdown begins.                                                   *)
GracefulAPI ==
  [][exit' = "complete" /\ main = "stopping" /\ main' = "off" => WorkOn("api") = {}]_controllerVars

(* A signal right after the start stops the program like any other.        *)
NoPanic == exit # "panic"

(* When every Stop is done, every server has returned.  The WebSocket      *)
(* server's listener is never closed: the shutdown takes its 30 seconds.   *)
StoppedServersReturn == (\A s \in Servers : stopper[s] = "done") => AllReturned

(* An agent that the controller has stored can start again.                *)
KnownAgentStartsAgain ==
  \A a \in Agents : phase[a] = "registering" /\ call[Process(a)].at = "answered"
                      /\ (\E r \in rows : r.mac = a) => call[Process(a)].answer # Refused

(* Listing nodes does not end the mock server.                             *)
MockSurvives == ~died

(* The node of an agent that was stopped is in maintenance.  The           *)
(* controller does not implement UpdateNode.                               *)
StoppedIsInMaintenance ==
  \A a \in Agents : phase[a] = "ended" => \A r \in rows : r.mac = a => r.status = "maintenance"

(* "Setup graceful shutdown" (cmd/pi-agent/main.go:143): an agent that is  *)
(* told to stop does.  It first updates its node, and waits for that while *)
(* its server is away.                                                     *)
StopsUnreachable == \A a \in Agents : StreamsLeave(a) => (ToldToStop(a) ~> phase[a] \in Down)

(* And whoever streams its metrics: GracefulStop waits for the stream.     *)
StopsUnderStreams == \A a \in Agents : <>[]Reachable => (ToldToStop(a) ~> phase[a] \in Down)

=============================================================================
