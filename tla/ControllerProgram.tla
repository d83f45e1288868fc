-------------------------- MODULE ControllerProgram --------------------------
(***************************************************************************)
(* runServer of cmd/pi-controller/main.go: opening the database, the three *)
(* servers, each started in a goroutine, and the shutdown on a signal or   *)
(* on a server's error; with Start and Stop of the REST, gRPC and          *)
(* WebSocket servers.  A supervisor starts the program again.              *)
(*                                                                         *)
(* A server's goroutine ends when Start returns, which wg counts.  Start   *)
(* of an HTTP server returns as soon as Shutdown is called, with an error, *)
(* and Shutdown waits for the requests; Serve of gRPC returns when         *)
(* GracefulStop has waited for the calls; the WebSocket server's Stop does *)
(* not reach its listener.  serverErrors has room for all three.           *)
(*                                                                         *)
(* The 30 seconds of the shutdown may be over at any time.                 *)
(***************************************************************************)
EXTENDS Integers, FiniteSets

CONSTANTS
  Requests,  \* the requests and calls clients make
  MaxBoots   \* bound: starts of the program

ASSUME ControllerAssumption == MaxBoots \in Nat

VARIABLES
  main,      \* where runServer is: "off" when the program does not run
  boots,     \* starts so far
  server,    \* where the goroutine of each server is
  stopper,   \* where the call of each server's Stop is
  errors,    \* the length of serverErrors
  signal,    \* a signal waits in sigChan
  expired,   \* shutdownCtx is done
  work,      \* requests that servers are handling
  exit       \* how the program ended last

controllerVars == <<main, boots, server, stopper, errors, signal, expired, work, exit>>

Servers == {"api", "grpc", "websocket"}

ControllerTypeOK ==
  /\ main \in {"off", "waiting", "stopping"} \cup Servers
  /\ boots \in 0..MaxBoots
  /\ server \in [Servers -> {"none", "launched", "ready", "listening", "returned"}]
  /\ stopper \in [Servers -> {"none", "begun", "draining", "done"}]
  /\ errors \in 0..3
  /\ signal \in BOOLEAN /\ expired \in BOOLEAN
  /\ work \subseteq Servers \X Requests
  /\ exit \in {"never", "error", "complete", "timeout", "panic", "killed"}

ControllerInit ==
  /\ main = "off" /\ boots = 0
  /\ server = [s \in Servers |-> "none"]
  /\ stopper = [s \in Servers |-> "none"]
  /\ errors = 0 /\ signal = FALSE /\ expired = FALSE
  /\ work = {}
  /\ exit = "never"

WorkOn(s) == {q \in Requests : <<s, q>> \in work}

\* The process ends, and with it its goroutines and the requests they handle.
Exit(how) ==
  /\ main' = "off"
  /\ server' = [s \in Servers |-> "none"]
  /\ stopper' = [s \in Servers |-> "none"]
  /\ errors' = 0 /\ signal' = FALSE /\ expired' = FALSE
  /\ work' = {}
  /\ exit' = how
  /\ UNCHANGED boots

-----------------------------------------------------------------------------
(* The start.                                                              *)

\* storage.New opens the database and migrates it; it may fail.
Boot ==
  /\ main = "off" /\ boots < MaxBoots
  /\ boots' = boots + 1
  /\ \/ main' = "api" /\ UNCHANGED exit
     \/ main' = "off" /\ exit' = "error"
  /\ UNCHANGED <<server, stopper, errors, signal, expired, work>>

After == [api |-> "grpc", grpc |-> "websocket", websocket |-> "waiting"]

Launch(s) ==
  /\ main = s
  /\ server' = [server EXCEPT ![s] = "launched"]
  /\ main' = After[s]
  /\ UNCHANGED <<boots, stopper, errors, signal, expired, work, exit>>

\* grpcserver.New may fail: runServer returns.
NewGRPCFails == main = "grpc" /\ Exit("error")

\* Start of the REST server makes the http.Server that Stop needs.
MakeServer ==
  /\ server["api"] = "launched"
  /\ server' = [server EXCEPT !["api"] = "ready"]
  /\ UNCHANGED <<main, boots, stopper, errors, signal, expired, work, exit>>

CanListen(s) == server[s] = IF s = "api" THEN "ready" ELSE "launched"

Listen(s) ==
  /\ CanListen(s)
  /\ s = "websocket" \/ stopper[s] \in {"none", "begun"}
  /\ server' = [server EXCEPT ![s] = "listening"]
  /\ UNCHANGED <<main, boots, stopper, errors, signal, expired, work, exit>>

\* Start returns an error: the address is taken, or the server was stopped.
ListenFails(s) ==
  /\ CanListen(s)
  /\ server' = [server EXCEPT ![s] = "returned"]
  /\ errors' = errors + 1
  /\ UNCHANGED <<main, boots, stopper, signal, expired, work, exit>>

Signal ==
  /\ main # "off"
  /\ signal' = TRUE
  /\ UNCHANGED <<main, boots, server, stopper, errors, expired, work, exit>>

-----------------------------------------------------------------------------
(* The shutdown.                                                           *)

BeginShutdown ==
  /\ main = "waiting"
  /\ \/ signal /\ signal' = FALSE /\ UNCHANGED errors
     \/ errors > 0 /\ errors' = errors - 1 /\ UNCHANGED signal
  /\ main' = "stopping"
  /\ stopper' = [s \in Servers |-> "begun"]
  /\ UNCHANGED <<boots, server, expired, work, exit>>

\* Shutdown of a server that Start has not made yet: a nil pointer.
StopAPI ==
  /\ stopper["api"] = "begun"
  /\ IF server["api"] = "launched"
     THEN Exit("panic")
     ELSE /\ stopper' = [stopper EXCEPT !["api"] = "draining"]
          /\ IF server["api"] = "listening"
             THEN server' = [server EXCEPT !["api"] = "returned"] /\ errors' = errors + 1
             ELSE UNCHANGED <<server, errors>>
          /\ UNCHANGED <<main, boots, signal, expired, work, exit>>

APIDrained ==
  /\ stopper["api"] = "draining"
  /\ WorkOn("api") = {} \/ expired
  /\ stopper' = [stopper EXCEPT !["api"] = "done"]
  /\ UNCHANGED <<main, boots, server, errors, signal, expired, work, exit>>

\* Mutant: Serve returns when the listener is closed.
StopGRPC_AtOnce ==
  /\ stopper["grpc"] = "begun"
  /\ stopper' = [stopper EXCEPT !["grpc"] = "draining"]
  /\ server' = [server EXCEPT !["grpc"] = IF @ = "listening" THEN "returned" ELSE @]
  /\ UNCHANGED <<main, boots, errors, signal, expired, work, exit>>

StopGRPC ==
  /\ stopper["grpc"] = "begun"
  /\ stopper' = [stopper EXCEPT !["grpc"] = "draining"]
  /\ UNCHANGED <<main, boots, server, errors, signal, expired, work, exit>>

GRPCDrained ==
  /\ stopper["grpc"] = "draining" /\ WorkOn("grpc") = {}
  /\ stopper' = [stopper EXCEPT !["grpc"] = "done"]
  /\ server' = [server EXCEPT !["grpc"] = IF @ = "listening" THEN "returned" ELSE @]
  /\ UNCHANGED <<main, boots, errors, signal, expired, work, exit>>

\* Stop ends the hub; the listener goes on.
StopWebSocket ==
  /\ stopper["websocket"] = "begun"
  /\ stopper' = [stopper EXCEPT !["websocket"] = "done"]
  /\ UNCHANGED <<main, boots, server, errors, signal, expired, work, exit>>

Expire ==
  /\ main = "stopping"
  /\ expired' = TRUE
  /\ UNCHANGED <<main, boots, server, stopper, errors, signal, work, exit>>

AllReturned == \A s \in Servers : server[s] = "returned"

\* Mutant: runServer waits for the servers as long as it takes.
EndShutdown_NoTimeout ==
  /\ main = "stopping" /\ AllReturned
  /\ Exit("complete")

EndShutdown ==
  /\ main = "stopping"
  /\ \/ AllReturned /\ Exit("complete")
     \/ expired /\ Exit("timeout")

Crash == main # "off" /\ Exit("killed")

-----------------------------------------------------------------------------
(* Requests.  A server that is being stopped takes no more.                *)

Accept(s, q) ==
  /\ s # "websocket" /\ server[s] = "listening" /\ stopper[s] \in {"none", "begun"}
  /\ work' = work \cup {<<s, q>>}
  /\ UNCHANGED <<main, boots, server, stopper, errors, signal, expired, exit>>

Finish(s, q) ==
  /\ <<s, q>> \in work
  /\ work' = work \ {<<s, q>>}
  /\ UNCHANGED <<main, boots, server, stopper, errors, signal, expired, exit>>

-----------------------------------------------------------------------------
Starting ==
  \/ \E s \in Servers : Launch(s) \/ Listen(s) \/ ListenFails(s)
  \/ MakeServer \/ NewGRPCFails

Stopping ==
  \/ BeginShutdown
  \/ StopAPI \/ APIDrained \/ StopGRPC \/ GRPCDrained \/ StopWebSocket
  \/ EndShutdown

ControllerNext == Boot \/ Starting \/ Signal \/ Stopping \/ Expire \/ Crash

\* Goroutines go on, time passes, and a request is finished.
ControllerFairness ==
  /\ WF_controllerVars(\E s \in Servers : Launch(s))
  /\ WF_controllerVars(BeginShutdown)
  /\ WF_controllerVars(Expire)
  /\ WF_controllerVars(EndShutdown)

-----------------------------------------------------------------------------
(* A shutdown comes to its end, whatever the servers and requests do: the  *)
(* program does not outlive a signal or a server that failed.              *)
ShutdownEnds == main # "off" /\ (signal \/ errors > 0) ~> main = "off"

(* A shutdown that found all servers ended cuts off no gRPC call: what the *)
(* controller took from an agent it answers before the database is closed. *)
CallsAreFinished ==
  [][exit' = "complete" /\ main = "stopping" /\ main' = "off" => WorkOn("grpc") = {}]_controllerVars

=============================================================================
