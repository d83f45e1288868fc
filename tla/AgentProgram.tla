---------------------------- MODULE AgentProgram ----------------------------
(***************************************************************************)
(* The agents and what they register with: runAgent of                     *)
(* cmd/pi-agent/main.go, the agent's own gRPC server (internal/agent), the *)
(* registration of internal/grpc/client/operations.go, and CreateNode of   *)
(* the controller (ControllerProgram) or of the mock server that the tests *)
(* of the client use.  A supervisor starts agents again.                   *)
(*                                                                         *)
(* A call may reach the server, or its answer the agent, too late or not   *)
(* at all; a call the agent has given up is still carried out.  How the    *)
(* client connects is AgentClient, and what a GPIO call does to pins is    *)
(* GPIOController: here a call is at work until it has returned.           *)
(***************************************************************************)
EXTENDS ControllerProgram

CONSTANTS
  Agents,       \* the agents, each with a MAC address of its own
  Names,        \* the names nodes are given
  NameOf,       \* the name in each agent's configuration
  GPIOEnabled,  \* the agents whose configuration enables GPIO
  MaxStarts     \* bound: starts of one agent

ASSUME AgentAssumption ==
  /\ IsFiniteSet(Agents) /\ NameOf \in [Agents -> Names] /\ GPIOEnabled \subseteq Agents
  /\ MaxStarts \in Nat \ {0} /\ Requests = Agents \X (1..MaxStarts)

VARIABLES
  peer,      \* the server that the agents call, "controller" or "mock"
  died,      \* the mock server has ended in a fatal error
  rows,      \* the nodes the server has stored
  call,      \* the CreateNode call of each start of each agent
  starts,    \* starts of each agent so far
  phase,     \* where runAgent is
  node,      \* the ID the agent was given, or 0
  notified,  \* a signal waits in the agent's sigChan
  gpio,      \* whether the GPIO service is initialized
  handling   \* the calls that the agent's server is handling

serverVars == <<peer, died, rows>>
agentVars == <<call, starts, phase, node, notified, gpio, handling>>
programVars == <<controllerVars, serverVars, agentVars>>

\* What the agent's server serves; a stream lasts until its client leaves.
Streams == {"StreamSystemMetrics"}
Methods == {"ConfigureGPIOPin", "WriteGPIOPin"} \cup Streams
Down == {"off", "failed", "killed", "ended"}
Phases == Down \cup {"connecting", "registering", "listing", "registered", "initialized", "running",
                     "updating", "reporting", "draining", "closing", "disconnecting",
                     "cancelled"}
Statuses == {"discovered", "ready", "maintenance"}

\* The answers of CreateNode that are no ID.
Refused == 0
Exists == -1
Answers == {Exists, Refused} \cup 1..(Cardinality(Agents) * MaxStarts)

Nodes == [id : Answers, name : Names, mac : Agents, status : Statuses]

AgentTypeOK ==
  /\ peer \in {"controller", "mock"} /\ died \in BOOLEAN
  /\ rows \subseteq Nodes
  /\ call \in [Requests -> [at : {"none", "sent", "taken", "answered"}, answer : Answers]]
  /\ starts \in [Agents -> 0..MaxStarts]
  /\ phase \in [Agents -> Phases]
  /\ node \in [Agents -> Answers]
  /\ notified \in [Agents -> BOOLEAN] /\ gpio \in [Agents -> BOOLEAN]
  /\ handling \in [Agents -> SUBSET Methods]

AgentInit ==
  /\ died = FALSE /\ rows = {}
  /\ call = [q \in Requests |-> [at |-> "none", answer |-> Refused]]
  /\ starts = [a \in Agents |-> 0]
  /\ phase = [a \in Agents |-> "off"]
  /\ node = [a \in Agents |-> 0]
  /\ notified = [a \in Agents |-> FALSE]
  /\ gpio = [a \in Agents |-> FALSE]
  /\ handling = [a \in Agents |-> {}]

Enter(a, p) == phase' = [phase EXCEPT ![a] = p]
Process(a) == <<a, starts[a]>>
Set(q, at, answer) == call' = [call EXCEPT ![q] = [at |-> at, answer |-> answer]]

Reachable == IF peer = "mock" THEN ~died ELSE server["grpc"] = "listening"

-----------------------------------------------------------------------------
(* CreateNode.  The request is <<agent, start>>.                           *)

\* A row of the node, after the last.
Row(q, status) == [id |-> Cardinality(rows) + 1, name |-> NameOf[q[1]], mac |-> q[1], status |-> status]

TakeCall(q) ==
  /\ call[q].at = "sent"
  /\ IF peer = "mock" THEN ~died /\ UNCHANGED controllerVars ELSE Accept("grpc", q)
  /\ Set(q, "taken", Refused)
  /\ UNCHANGED <<serverVars, starts, phase, node, notified, gpio, handling>>

\* Mutant: the handler looks for the node, and inserts in any case.
Store_Anyway(q, fits) ==
  /\ rows' = rows \cup {Row(q, "discovered")}
  /\ Set(q, "answered", Cardinality(rows) + 1)

\* The insertion, refused when a unique index forbids it.
Store(q, fits) ==
  IF fits
  THEN /\ rows' = rows \cup {Row(q, IF peer = "mock" THEN "ready" ELSE "discovered")}
       /\ Set(q, "answered", Cardinality(rows) + 1)
  ELSE /\ Set(q, "answered", IF peer = "mock" THEN Exists ELSE Refused)
       /\ UNCHANGED rows

\* The controller's table has unique indexes on the name and the address.
CreateNode(q) ==
  /\ peer = "controller" /\ call[q].at = "taken"
  /\ Finish("grpc", q)
  /\ Store(q, \A r \in rows : r.name # NameOf[q[1]] /\ r.mac # q[1])
  /\ UNCHANGED <<peer, died, starts, phase, node, notified, gpio, handling>>

\* The mock server may be told to fail, and looks for the address only after
\* its delay, when it has the mutex again.
MockCreateNode(q) ==
  /\ peer = "mock" /\ ~died /\ call[q].at = "taken"
  /\ \/ Store(q, \A r \in rows : r.mac # q[1])
     \/ Set(q, "answered", Refused) /\ UNCHANGED rows
  /\ UNCHANGED <<controllerVars, peer, died, starts, phase, node, notified, gpio, handling>>

\* A call on a server that has ended, and one that got lost.
CallIsLost(q) ==
  /\ \/ call[q].at = "sent"
     \/ call[q].at = "taken" /\ IF peer = "mock" THEN died ELSE <<"grpc", q>> \notin work
  /\ Set(q, "answered", Refused)
  /\ UNCHANGED <<controllerVars, serverVars, starts, phase, node, notified, gpio, handling>>

-----------------------------------------------------------------------------
(* runAgent up to its loop.                                                *)

LaunchAgent(a) ==
  /\ phase[a] \in Down /\ starts[a] < MaxStarts
  /\ starts' = [starts EXCEPT ![a] = @ + 1]
  /\ node' = [node EXCEPT ![a] = 0]
  /\ notified' = [notified EXCEPT ![a] = FALSE]
  /\ Enter(a, "connecting")
  /\ UNCHANGED <<controllerVars, serverVars, call, gpio, handling>>

\* Any step of the start may fail: the program returns the error.
StartFails(a) ==
  /\ phase[a] \in {"connecting", "registering", "registered", "initialized"}
  /\ Enter(a, "failed")
  /\ gpio' = [gpio EXCEPT ![a] = FALSE]
  /\ handling' = [handling EXCEPT ![a] = {}]
  /\ UNCHANGED <<controllerVars, serverVars, call, starts, node, notified>>

Register(a) ==
  /\ phase[a] = "connecting" /\ Reachable
  /\ Set(Process(a), "sent", Refused)
  /\ Enter(a, "registering")
  /\ UNCHANGED <<controllerVars, serverVars, starts, node, notified, gpio, handling>>

Registered(a) ==
  /\ phase[a] = "registering" /\ call[Process(a)].at = "answered"
  /\ LET answer == call[Process(a)].answer
     IN  /\ Enter(a, CASE answer = Exists -> "listing" [] answer = Refused -> "failed"
                       [] OTHER -> "registered")
         /\ node' = [node EXCEPT ![a] = IF answer > 0 THEN answer ELSE 0]
  /\ UNCHANGED <<controllerVars, serverVars, call, starts, notified, gpio, handling>>

\* updateExistingNode gets no further than ListNodes: the controller does not
\* implement it, and in the mock server the unlock of a mutex that is locked
\* for reading ends the process.
ListNodes(a) ==
  /\ phase[a] = "listing"
  /\ died' = (died \/ peer = "mock")
  /\ Enter(a, "failed")
  /\ UNCHANGED <<controllerVars, peer, rows, call, starts, node, notified, gpio, handling>>

InitializeServer(a) ==
  /\ phase[a] = "registered"
  /\ Enter(a, IF a \in GPIOEnabled THEN "initialized" ELSE "running")
  /\ gpio' = [gpio EXCEPT ![a] = a \in GPIOEnabled]
  /\ UNCHANGED <<controllerVars, serverVars, call, starts, node, notified, handling>>

StartServer(a) ==
  /\ phase[a] = "initialized"
  /\ Enter(a, "running")
  /\ UNCHANGED <<controllerVars, serverVars, call, starts, node, notified, gpio, handling>>

-----------------------------------------------------------------------------
(* The loop of runAgent, and the stop.                                     *)

\* UpdateNode, which the controller does not implement; errors are logged.
Updated(a, status) ==
  \/ UNCHANGED rows
  \/ /\ peer = "mock" /\ ~died
     /\ rows' = {IF r.id = node[a] THEN [r EXCEPT !.status = status] ELSE r : r \in rows}

\* The loop is not back before the update is through.
Tick(a) ==
  /\ phase[a] = "running"
  /\ Enter(a, "updating")
  /\ UNCHANGED <<controllerVars, serverVars, call, starts, node, notified, gpio, handling>>

\* The status that CreateNode answered with: the controller leaves it out.
Update(a) ==
  /\ phase[a] = "updating"
  /\ Updated(a, "ready")
  /\ Enter(a, "running")
  /\ UNCHANGED <<controllerVars, peer, died, call, starts, node, notified, gpio, handling>>

Notify(a) ==
  /\ phase[a] \notin Down
  /\ notified' = [notified EXCEPT ![a] = TRUE]
  /\ UNCHANGED <<controllerVars, serverVars, call, starts, phase, node, gpio, handling>>

AfterReport(a) == IF a \in GPIOEnabled THEN "draining" ELSE "disconnecting"

\* A second signal repeats the stop if the loop sees it before the end of its
\* context, with which no update is sent any more.
TakeSignal(a) ==
  /\ phase[a] \in {"running", "cancelled"} /\ notified[a]
  /\ notified' = [notified EXCEPT ![a] = FALSE]
  /\ Enter(a, IF phase[a] = "running" THEN "reporting" ELSE AfterReport(a))
  /\ UNCHANGED <<controllerVars, serverVars, call, starts, node, gpio, handling>>

Report(a) ==
  /\ phase[a] = "reporting"
  /\ Updated(a, "maintenance")
  /\ Enter(a, AfterReport(a))
  /\ UNCHANGED <<controllerVars, peer, died, call, starts, node, notified, gpio, handling>>

\* Mutant: the service is closed before the server has drained.
Drained_ClosesFirst(a) ==
  /\ phase[a] = "draining"
  /\ gpio' = [gpio EXCEPT ![a] = FALSE]
  /\ IF handling[a] = {} THEN Enter(a, "closing") ELSE gpio[a] /\ UNCHANGED phase
  /\ UNCHANGED <<controllerVars, serverVars, call, starts, node, notified, handling>>

\* GracefulStop.
Drained(a) ==
  /\ phase[a] = "draining" /\ handling[a] = {}
  /\ Enter(a, "closing")
  /\ UNCHANGED <<controllerVars, serverVars, call, starts, node, notified, gpio, handling>>

CloseGPIO(a) ==
  /\ phase[a] = "closing"
  /\ gpio' = [gpio EXCEPT ![a] = FALSE]
  /\ Enter(a, "disconnecting")
  /\ UNCHANGED <<controllerVars, serverVars, call, starts, node, notified, handling>>

\* Stop of the client, and cancel().
Disconnect(a) ==
  /\ phase[a] = "disconnecting"
  /\ Enter(a, "cancelled")
  /\ UNCHANGED <<controllerVars, serverVars, call, starts, node, notified, gpio, handling>>

AgentEnds(a) ==
  /\ phase[a] = "cancelled"
  /\ Enter(a, "ended")
  /\ UNCHANGED <<controllerVars, serverVars, call, starts, node, notified, gpio, handling>>

KillAgent(a) ==
  /\ phase[a] \notin Down
  /\ Enter(a, "killed")
  /\ gpio' = [gpio EXCEPT ![a] = FALSE]
  /\ handling' = [handling EXCEPT ![a] = {}]
  /\ UNCHANGED <<controllerVars, serverVars, call, starts, node, notified>>

-----------------------------------------------------------------------------
(* The agent's server takes calls from Start to GracefulStop.              *)

\* Mutant: also those that come while it drains.
Serving_WhileDraining(a) ==
  a \in GPIOEnabled /\ phase[a] \in {"running", "updating", "reporting", "draining"}

Serving(a) == a \in GPIOEnabled /\ gpio[a] /\ phase[a] \in {"running", "updating", "reporting"}

Handle(a) ==
  /\ Serving(a)
  /\ \E m \in Methods : handling' = [handling EXCEPT ![a] = @ \cup {m}]
  /\ UNCHANGED <<controllerVars, serverVars, call, starts, phase, node, notified, gpio>>

\* The handler of a method returns.
Handled(a, m) ==
  /\ m \in handling[a]
  /\ handling' = [handling EXCEPT ![a] = @ \ {m}]
  /\ UNCHANGED <<controllerVars, serverVars, call, starts, phase, node, notified, gpio>>

-----------------------------------------------------------------------------
Starts(a) ==
  LaunchAgent(a) \/ StartFails(a) \/ Register(a) \/ Registered(a) \/ ListNodes(a)
    \/ InitializeServer(a) \/ StartServer(a)

Stops(a) == TakeSignal(a) \/ Report(a) \/ Drained(a) \/ CloseGPIO(a) \/ Disconnect(a) \/ AgentEnds(a)

AgentNext ==
  \/ \E a \in Agents : Starts(a) \/ Tick(a) \/ Update(a) \/ Notify(a) \/ Stops(a) \/ KillAgent(a)
                         \/ Handle(a) \/ \E m \in Methods : Handled(a, m)
  \/ \E q \in Requests : TakeCall(q) \/ CreateNode(q) \/ MockCreateNode(q) \/ CallIsLost(q)

\* The clients of the REST interface.
ClientNext ==
  /\ \E q \in Requests : Accept("api", q) \/ Finish("api", q)
  /\ UNCHANGED <<serverVars, agentVars>>

ProgramsInit == ControllerInit /\ AgentInit /\ peer \in {"controller", "mock"}

ProgramsNext ==
  \/ ControllerNext /\ UNCHANGED <<serverVars, agentVars>>
  \/ ClientNext
  \/ AgentNext

ProgramsSpec == ProgramsInit /\ [][ProgramsNext]_programVars

\* The steps of a stop that wait for nobody follow each other, and a unary call
\* returns.  An update returns when its server can be reached: its context has
\* no deadline, and the client may wait for a connection as long as there is
\* none (AgentClient, CallsReturn).  The select takes a ready signal or the end
\* of the context some time, though its ticker is ready over and over.  Nothing
\* is said of streams: they end with their clients.
AgentFairness ==
  \A a \in Agents :
    /\ WF_programVars(Reachable /\ Update(a)) /\ WF_programVars(Reachable /\ Report(a))
    /\ WF_programVars(Drained(a)) /\ WF_programVars(CloseGPIO(a)) /\ WF_programVars(Disconnect(a))
    /\ SF_programVars(TakeSignal(a)) /\ SF_programVars(AgentEnds(a))
    /\ \A m \in Methods \ Streams : WF_programVars(Handled(a, m))

Running == {a \in Agents : phase[a] \in {"registered", "initialized", "running", "updating"}}

-----------------------------------------------------------------------------
(* An agent that runs is a node of its own: the server has the row it was  *)
(* told of, with its name and address, and stores no address twice,        *)
(* whatever calls were lost, late or repeated after a restart.             *)
RunningIsRegistered ==
  /\ \A a \in Running : \E r \in rows : r.id = node[a] /\ r.mac = a /\ r.name = NameOf[a]
  /\ \A r, s \in rows : r.mac = s.mac \/ r.id = s.id => r = s

(* The stop closes the GPIO system under no call: what the agent's server  *)
(* took it carries out on open pins, however often it is told to stop.     *)
NoCallOnClosedGPIO == \A a \in Agents : handling[a] # {} => gpio[a]

(* An agent in its loop that is told to stop does, while ticks, further    *)
(* signals and calls come in, if in the end its server can be reached and  *)
(* the clients of metrics streams leave.  Neither is certain: see          *)
(* MCPrograms, StopsUnreachable and StopsUnderStreams.                     *)
ToldToStop(a) == phase[a] \in {"running", "updating"} /\ notified[a]
StreamsLeave(a) == []<>(handling[a] \cap Streams = {})

SignalEndsAgent ==
  \A a \in Agents : <>[]Reachable /\ StreamsLeave(a) => (ToldToStop(a) ~> phase[a] \in Down)

=============================================================================
