-------------------------- MODULE Programs_proofs --------------------------
(***************************************************************************)
(* Proofs about the programs, for any number of agents, restarts and       *)
(* requests, and about the mock driver that the agent falls back on, for   *)
(* any pins, handlers, readers and loops.                                  *)
(***************************************************************************)
EXTENDS AgentProgram, MockGPIO, FiniteSetTheorems, FunctionTheorems, TLAPS

-----------------------------------------------------------------------------
(* The controller's program.                                               *)

\* How many of the servers' goroutines have returned.
Return(s) == IF server[s] = "returned" THEN 1 ELSE 0
Returns == Return("api") + Return("grpc") + Return("websocket")

\* A server that runServer has not come to is not there.
NotLaunched ==
  /\ main \in {"off", "api"} => server["api"] = "none"
  /\ main \in {"off", "api", "grpc"} => server["grpc"] = "none"
  /\ main \in {"off", "api", "grpc", "websocket"} => server["websocket"] = "none"

\* A gRPC server has calls only while it listens.
CallsWhileListening == server["grpc"] # "listening" => WorkOn("grpc") = {}

ControllerInv ==
  ControllerTypeOK /\ NotLaunched /\ errors <= Returns /\ CallsWhileListening

LEMMA ServerFacts ==
  ASSUME ControllerTypeOK
  PROVE  /\ server \in [Servers -> {"none", "launched", "ready", "listening", "returned"}]
         /\ {"api", "grpc", "websocket"} = Servers
         /\ Returns \in 0..3 /\ errors \in Nat /\ boots \in Nat
         /\ \A s \in Servers : Return(s) \in {0, 1}
BY ControllerAssumption DEF ControllerAssumption, ControllerTypeOK, Servers, Returns, Return

\* Nothing is there before the program has run, and after it.
LEMMA NothingThere ==
  ASSUME main = "off", boots \in 0..MaxBoots, server = [s \in Servers |-> "none"],
         stopper = [s \in Servers |-> "none"], errors = 0, signal = FALSE, expired = FALSE,
         work = {}, exit \in {"never", "error", "complete", "timeout", "panic", "killed"}
  PROVE  ControllerInv
<1>1. ControllerTypeOK
  <2>1. signal \in BOOLEAN /\ expired \in BOOLEAN
    OBVIOUS
  <2>2. /\ main \in {"off", "waiting", "stopping"} \cup Servers /\ errors \in 0..3
        /\ server \in [Servers -> {"none", "launched", "ready", "listening", "returned"}]
        /\ stopper \in [Servers -> {"none", "begun", "draining", "done"}]
        /\ work \subseteq Servers \X Requests
    OBVIOUS
  <2> QED
    BY <2>1, <2>2 DEF ControllerTypeOK
<1>2. \A s \in {"api", "grpc", "websocket"} : server[s] = "none"
  BY DEF Servers
<1>3. NotLaunched /\ CallsWhileListening /\ Returns = 0
  BY <1>2 DEF NotLaunched, CallsWhileListening, WorkOn, Returns, Return
<1>4. errors <= Returns
  BY <1>3
<1> QED
  BY <1>1, <1>3, <1>4, Zenon DEF ControllerInv

LEMMA ControllerInitially == ASSUME ControllerInit PROVE ControllerInv
<1>1. boots \in 0..MaxBoots
  BY ControllerAssumption DEF ControllerAssumption, ControllerInit
<1>2. exit \in {"never", "error", "complete", "timeout", "panic", "killed"}
  BY DEF ControllerInit
<1> QED
  BY <1>1, <1>2, NothingThere, Zenon DEF ControllerInit

LEMMA ExitKeeps ==
  ASSUME ControllerInv, NEW how \in {"error", "complete", "timeout", "panic", "killed"}, Exit(how)
  PROVE  ControllerInv'
<1>1. /\ main' = "off" /\ boots' \in 0..MaxBoots /\ server' = [s \in Servers |-> "none"]
      /\ stopper' = [s \in Servers |-> "none"] /\ errors' = 0 /\ signal' = FALSE /\ expired' = FALSE
      /\ work' = {} /\ exit' \in {"never", "error", "complete", "timeout", "panic", "killed"}
  BY DEF Exit, ControllerInv, ControllerTypeOK
<1>2. ControllerTypeOK'
  <2>1. signal' \in BOOLEAN /\ expired' \in BOOLEAN
    BY <1>1
  <2>2. /\ main' \in {"off", "waiting", "stopping"} \cup Servers /\ errors' \in 0..3
        /\ server' \in [Servers -> {"none", "launched", "ready", "listening", "returned"}]
        /\ stopper' \in [Servers -> {"none", "begun", "draining", "done"}]
        /\ work' \subseteq Servers \X Requests
    BY <1>1
  <2> QED
    BY <1>1, <2>1, <2>2 DEF ControllerTypeOK
<1>3. \A s \in {"api", "grpc", "websocket"} : server'[s] = "none"
  BY <1>1 DEF Servers
<1>4. NotLaunched' /\ CallsWhileListening' /\ Returns' = 0
  BY <1>1, <1>3 DEF NotLaunched, CallsWhileListening, WorkOn, Returns, Return
<1> QED
  BY <1>1, <1>2, <1>4 DEF ControllerInv

\* One server goes on, and main with it or not.
LEMMA ServerMoves ==
  ASSUME ControllerInv, NEW s \in Servers,
         NEW to \in {"launched", "ready", "listening", "returned"},
         server' = [server EXCEPT ![s] = to], UNCHANGED <<boots, stopper, signal, expired, work, exit>>,
         \/ main' = main /\ server[s] \notin {"none", "returned"}
         \/ main \in Servers /\ s = main /\ to = "launched" /\ main' = After[s],
         errors' = IF to = "returned" THEN errors + 1 ELSE errors,
         server[s] # "listening"
  PROVE  ControllerInv'
<1>1. \A t \in Servers : server'[t] = IF t = s THEN to ELSE server[t]
  BY DEF ControllerInv, ControllerTypeOK
<1>2. main' \in {"off", "waiting", "stopping"} \cup Servers
  BY DEF ControllerInv, ControllerTypeOK, After, Servers
<1>3. NotLaunched'
  BY <1>1 DEF ControllerInv, NotLaunched, After, Servers
<1>4. errors' <= Returns'
  BY <1>1, ServerFacts DEF ControllerInv, ControllerTypeOK, Returns, Return, Servers, NotLaunched
<1>5. CallsWhileListening'
  BY <1>1 DEF ControllerInv, CallsWhileListening, WorkOn, Servers
<1>6. Returns' \in 0..3
  BY DEF Returns, Return
<1>7. ControllerTypeOK'
  BY <1>1, <1>2, <1>4, <1>6, ServerFacts DEF ControllerInv, ControllerTypeOK
<1> QED
  BY <1>3, <1>4, <1>5, <1>7 DEF ControllerInv

\* A step that leaves the servers where they are.
LEMMA ServersStay ==
  ASSUME ControllerInv, UNCHANGED <<server, work>>, ControllerTypeOK',
         main' = main \/ (main = "waiting" /\ main' = "stopping"), errors' <= errors
  PROVE  ControllerInv'
<1>1. NotLaunched' /\ CallsWhileListening'
  BY DEF ControllerInv, NotLaunched, CallsWhileListening, WorkOn
<1>2. Returns' = Returns /\ Returns \in 0..3 /\ errors \in Nat /\ errors' \in Nat
  BY ServerFacts DEF ControllerInv, ControllerTypeOK, Returns, Return
<1> QED
  BY <1>1, <1>2 DEF ControllerInv

LEMMA StartingKeeps == ASSUME ControllerInv, Boot \/ Starting PROVE ControllerInv'
<1> USE ServerFacts DEF ControllerInv
<1>1. CASE Boot
  <2>1. UNCHANGED <<server, stopper, errors, signal, expired, work>> /\ boots' = boots + 1 /\ boots < MaxBoots
        /\ main = "off" /\ main' \in {"api", "off"} /\ exit' \in {exit, "error"}
    BY <1>1 DEF Boot
  <2>2. ControllerTypeOK'
    BY <2>1, ControllerAssumption DEF ControllerTypeOK, ControllerAssumption, Servers
  <2>3. NotLaunched' /\ CallsWhileListening' /\ errors' <= Returns'
    BY <2>1 DEF NotLaunched, CallsWhileListening, WorkOn, Returns, Return
  <2> QED
    BY <2>2, <2>3
<1>2. ASSUME NEW s \in Servers, Launch(s) PROVE ControllerInv'
  <2>1. server[s] # "listening" /\ UNCHANGED <<boots, stopper, errors, signal, expired, work, exit>>
        /\ main = s /\ main' = After[s] /\ server' = [server EXCEPT ![s] = "launched"]
    BY <1>2 DEF Launch, NotLaunched, Servers
  <2> QED
    BY <2>1, ServerMoves
<1>3. ASSUME NEW s \in Servers, Listen(s) PROVE ControllerInv'
  <2>1. /\ server[s] \in {"ready", "launched"} /\ server' = [server EXCEPT ![s] = "listening"]
        /\ UNCHANGED <<main, boots, stopper, errors, signal, expired, work, exit>>
    BY <1>3 DEF Listen, CanListen
  <2> QED
    BY <2>1, ServerMoves
<1>4. ASSUME NEW s \in Servers, ListenFails(s) PROVE ControllerInv'
  <2>1. /\ server[s] \in {"ready", "launched"} /\ server' = [server EXCEPT ![s] = "returned"]
        /\ errors' = errors + 1 /\ UNCHANGED <<main, boots, stopper, signal, expired, work, exit>>
    BY <1>4 DEF ListenFails, CanListen
  <2> QED
    BY <2>1, ServerMoves
<1>5. CASE MakeServer
  <2>1. /\ server["api"] = "launched" /\ server' = [server EXCEPT !["api"] = "ready"]
        /\ UNCHANGED <<main, boots, stopper, errors, signal, expired, work, exit>>
    BY <1>5 DEF MakeServer
  <2>2. "api" \in Servers
    BY DEF Servers
  <2> QED
    BY <2>1, <2>2, ServerMoves
<1>6. CASE NewGRPCFails
  BY <1>6, ExitKeeps DEF NewGRPCFails
<1> QED
  BY <1>1, <1>2, <1>3, <1>4, <1>5, <1>6 DEF Starting

LEMMA StoppingKeeps ==
  ASSUME ControllerInv, Signal \/ Stopping \/ Expire \/ Crash
  PROVE  ControllerInv'
<1> USE ServerFacts DEF ControllerInv
<1>1. CASE Signal
  <2>1. ControllerTypeOK'
    BY <1>1 DEF Signal, ControllerTypeOK
  <2> QED
    BY <1>1, <2>1, ServersStay DEF Signal
<1>2. CASE BeginShutdown
  <2>1. /\ main = "waiting" /\ main' = "stopping" /\ UNCHANGED <<boots, server, expired, work, exit>>
        /\ stopper' = [s \in Servers |-> "begun"]
    BY <1>2 DEF BeginShutdown
  <2>2. errors' \in 0..3 /\ errors' <= errors
    BY <1>2 DEF BeginShutdown, ControllerTypeOK
  <2>3. signal' = signal \/ signal' = FALSE
    BY <1>2 DEF BeginShutdown
  <2>4. signal' \in BOOLEAN
    BY <2>3 DEF ControllerTypeOK
  <2>5. ControllerTypeOK'
    BY <2>1, <2>2, <2>4 DEF ControllerTypeOK
  <2> QED
    BY <2>1, <2>2, <2>5, ServersStay
<1>3. CASE StopAPI
  <2>1. CASE server["api"] = "launched"
    BY <1>3, <2>1, ExitKeeps DEF StopAPI
  <2>2. CASE server["api"] # "launched"
    <3>1. /\ stopper' = [stopper EXCEPT !["api"] = "draining"]
          /\ UNCHANGED <<main, boots, signal, expired, work, exit>>
          /\ IF server["api"] = "listening"
             THEN server' = [server EXCEPT !["api"] = "returned"] /\ errors' = errors + 1
             ELSE UNCHANGED <<server, errors>>
      BY <1>3, <2>2 DEF StopAPI
    <3>2. CASE server["api"] = "listening"
      <4>1. \A t \in Servers : server'[t] = IF t = "api" THEN "returned" ELSE server[t]
        BY <3>1, <3>2 DEF ControllerTypeOK
      <4>2. Returns' = Returns + 1 /\ Returns' \in 0..3
        BY <3>2, <4>1 DEF Returns, Return, Servers
      <4>3. NotLaunched' /\ CallsWhileListening'
        BY <3>1, <3>2, <4>1 DEF NotLaunched, CallsWhileListening, WorkOn, Servers
      <4>4. errors' <= Returns' /\ errors' \in 0..3
        BY <3>1, <3>2, <4>2 DEF ControllerTypeOK
      <4>5. ControllerTypeOK'
        BY <3>1, <3>2, <4>4 DEF ControllerTypeOK
      <4> QED
        BY <4>3, <4>4, <4>5
    <3>3. CASE server["api"] # "listening"
      <4>1. ControllerTypeOK'
        BY <3>1, <3>3 DEF ControllerTypeOK
      <4> QED
        BY <3>1, <3>3, <4>1, ServersStay
    <3> QED
      BY <3>2, <3>3
  <2> QED
    BY <2>1, <2>2
<1>4. CASE APIDrained \/ StopGRPC \/ StopWebSocket
  <2>1. PICK s \in Servers, to \in {"draining", "done"} :
          stopper' = [stopper EXCEPT ![s] = to] /\ UNCHANGED <<main, boots, server, errors, signal, expired, work, exit>>
    BY <1>4 DEF APIDrained, StopGRPC, StopWebSocket, Servers
  <2>2. ControllerTypeOK'
    BY <2>1 DEF ControllerTypeOK
  <2> QED
    BY <2>1, <2>2, ServersStay
<1>5. CASE GRPCDrained
  <2>1. /\ WorkOn("grpc") = {} /\ stopper' = [stopper EXCEPT !["grpc"] = "done"]
        /\ UNCHANGED <<main, boots, errors, signal, expired, work, exit>>
        /\ server' = [server EXCEPT !["grpc"] = IF @ = "listening" THEN "returned" ELSE @]
    BY <1>5 DEF GRPCDrained
  <2>2. \A t \in Servers : server'[t] = IF t = "grpc" /\ server[t] = "listening" THEN "returned" ELSE server[t]
    BY <2>1 DEF ControllerTypeOK
  <2>3. Returns' \in 0..3 /\ Returns <= Returns'
    BY <2>2 DEF Returns, Return, Servers
  <2>4. NotLaunched' /\ CallsWhileListening'
    BY <2>1, <2>2 DEF NotLaunched, CallsWhileListening, WorkOn, Servers
  <2>5. ControllerTypeOK'
    BY <2>1 DEF ControllerTypeOK
  <2>6. errors' <= Returns'
    BY <2>1, <2>3 DEF ControllerTypeOK
  <2> QED
    BY <2>4, <2>5, <2>6
<1>6. CASE EndShutdown \/ Crash
  BY <1>6, ExitKeeps DEF EndShutdown, Crash
<1>7. CASE Expire
  <2>1. ControllerTypeOK'
    BY <1>7 DEF Expire, ControllerTypeOK
  <2> QED
    BY <1>7, <2>1, ServersStay DEF Expire
<1> QED
  BY <1>1, <1>2, <1>3, <1>4, <1>5, <1>6, <1>7 DEF Stopping

LEMMA RequestsKeep ==
  ASSUME ControllerInv, NEW s \in {"api", "grpc"}, NEW q \in Requests, Accept(s, q) \/ Finish(s, q)
  PROVE  ControllerInv'
<1> USE ServerFacts DEF ControllerInv
<1>1. UNCHANGED <<main, boots, server, stopper, errors, signal, expired, exit>>
  BY DEF Accept, Finish
<1>2. ControllerTypeOK'
  BY <1>1 DEF ControllerTypeOK, Servers, Accept, Finish
<1>3. NotLaunched' /\ errors' <= Returns'
  BY <1>1 DEF NotLaunched, Returns, Return
<1>4. CallsWhileListening'
  BY <1>1 DEF CallsWhileListening, WorkOn, Accept, Finish
<1> QED
  BY <1>2, <1>3, <1>4

LEMMA ControllerIdle == ASSUME ControllerInv, UNCHANGED controllerVars PROVE ControllerInv'
BY DEF controllerVars, ControllerInv, ControllerTypeOK, NotLaunched, Returns, Return,
       CallsWhileListening, WorkOn

LEMMA AgentsKeepController == ASSUME ControllerInv, AgentNext PROVE ControllerInv'
<1>1. CASE UNCHANGED controllerVars
  BY <1>1, ControllerIdle
<1>2. ASSUME NEW q \in Requests, Accept("grpc", q) \/ Finish("grpc", q) PROVE ControllerInv'
  BY <1>2, RequestsKeep
<1>3. ASSUME NEW a \in Agents,
             Starts(a) \/ Tick(a) \/ Update(a) \/ Notify(a) \/ Stops(a) \/ KillAgent(a)
               \/ Handle(a) \/ \E m \in Methods : Handled(a, m)
      PROVE  UNCHANGED controllerVars
  BY <1>3
  DEF Starts, LaunchAgent, StartFails, Register, Registered, ListNodes, InitializeServer,
      StartServer, Stops, TakeSignal, Report, Drained, CloseGPIO, Disconnect, AgentEnds, Tick,
      Update, Notify, KillAgent, Handle, Handled
<1>4. ASSUME NEW q \in Requests, TakeCall(q) \/ CreateNode(q) \/ MockCreateNode(q) \/ CallIsLost(q)
      PROVE  UNCHANGED controllerVars \/ Accept("grpc", q) \/ Finish("grpc", q)
  BY <1>4 DEF TakeCall, CreateNode, MockCreateNode, CallIsLost
<1> QED
  BY <1>1, <1>2, <1>3, <1>4 DEF AgentNext

LEMMA ControllerStep == ControllerInv /\ [ProgramsNext]_programVars => ControllerInv'
<1> SUFFICES ASSUME ControllerInv, [ProgramsNext]_programVars PROVE ControllerInv'
  OBVIOUS
<1>1. CASE UNCHANGED programVars
  BY <1>1, ControllerIdle DEF programVars
<1>2. CASE ControllerNext
  BY <1>2, StartingKeeps, StoppingKeeps DEF ControllerNext
<1>3. CASE ClientNext
  BY <1>3, RequestsKeep DEF ClientNext
<1>4. CASE AgentNext
  BY <1>4, AgentsKeepController
<1> QED
  BY <1>1, <1>2, <1>3, <1>4 DEF ProgramsNext

LEMMA ControllerInvHolds == ProgramsSpec => []ControllerInv
<1>1. ProgramsInit => ControllerInv
  BY ControllerInitially DEF ProgramsInit
<1> QED
  BY <1>1, ControllerStep, PTL DEF ProgramsSpec

(* The typing of runServer's state; with it, serverErrors never holds more *)
(* than the three errors it has room for, so no server's goroutine waits   *)
(* to send its own (cmd/pi-controller/main.go).                            *)
THEOREM ControllerTyped == ProgramsSpec => []ControllerTypeOK
<1>1. ControllerInv => ControllerTypeOK
  BY DEF ControllerInv
<1> QED
  BY <1>1, ControllerInvHolds, PTL

(* A shutdown that found all servers ended cut off no gRPC call: Serve     *)
(* returns when GracefulStop has waited for the calls (main.go,            *)
(* internal/grpc/server).                                                  *)
THEOREM CallsFinish == ProgramsSpec => CallsAreFinished
<1>1. ASSUME ControllerInv, [ProgramsNext]_programVars
      PROVE  [exit' = "complete" /\ main = "stopping" /\ main' = "off" => WorkOn("grpc") = {}]_controllerVars
  <2> SUFFICES ASSUME exit' = "complete", main = "stopping", main' = "off" PROVE WorkOn("grpc") = {}
    OBVIOUS
  <2>1. main' # main /\ ~UNCHANGED controllerVars
    BY DEF controllerVars
  <2>2. ~UNCHANGED programVars /\ ~ClientNext
    BY <2>1 DEF programVars, controllerVars, ClientNext, Accept, Finish
  <2>3. ~AgentNext
    BY <2>1
    DEF AgentNext, controllerVars, Accept, Finish, Starts, LaunchAgent, StartFails, Register,
        Registered, ListNodes, InitializeServer, StartServer, Stops, TakeSignal, Report, Drained,
        CloseGPIO, Disconnect, AgentEnds, Tick, Update, Notify, KillAgent, Handle, Handled, TakeCall,
        CreateNode, MockCreateNode, CallIsLost
  <2>4. ControllerNext
    BY <1>1, <2>2, <2>3 DEF ProgramsNext
  <2>5. EndShutdown /\ AllReturned
    <3>1. ~(Boot \/ Starting \/ Signal \/ Expire \/ Crash)
      BY DEF Boot, Starting, Launch, After, Listen, ListenFails, MakeServer, NewGRPCFails, Signal,
             Expire, Crash, Exit, Servers
    <3>2. ~(BeginShutdown \/ StopAPI \/ APIDrained \/ StopGRPC \/ GRPCDrained \/ StopWebSocket)
      BY DEF BeginShutdown, StopAPI, APIDrained, StopGRPC, GRPCDrained, StopWebSocket, Exit
    <3> QED
      BY <2>4, <3>1, <3>2 DEF ControllerNext, Stopping, EndShutdown, Exit
  <2> QED
    BY <1>1, <2>5 DEF AllReturned, Servers, ControllerInv, CallsWhileListening
<1> QED
  BY <1>1, ControllerInvHolds, PTL DEF ProgramsSpec, CallsAreFinished

-----------------------------------------------------------------------------
(* The agents and the server's rows.                                       *)

\* The server has stored the agent under the ID.
IsNode(a, i) == \E r \in rows : r.id = i /\ r.mac = a /\ r.name = NameOf[a]

\* IDs count the rows, and an address has one.
RowsInv ==
  /\ IsFiniteSet(rows)
  /\ rows \subseteq [id : 1..Cardinality(rows), name : Names, mac : Agents, status : Statuses]
  /\ \A r, s \in rows : r.mac = s.mac \/ r.id = s.id => r = s

CallsInv ==
  /\ call \in [Requests -> [at : {"none", "sent", "taken", "answered"}, answer : {Exists} \cup Nat]]
  /\ \A q \in Requests : call[q].answer > 0 => IsNode(q[1], call[q].answer)

AgentTypes ==
  /\ starts \in [Agents -> 0..MaxStarts]
  /\ phase \in [Agents -> Phases]
  /\ node \in [Agents -> Nat]
  /\ notified \in [Agents -> BOOLEAN] /\ gpio \in [Agents -> BOOLEAN]
  /\ handling \in [Agents -> SUBSET Methods]

\* Calls come once the program runs and are done when the GPIO service closes.
Good(a) ==
  /\ phase[a] # "off" => starts[a] > 0
  /\ node[a] > 0 => IsNode(a, node[a])
  /\ a \in Running => node[a] > 0
  /\ handling[a] # {} =>
       gpio[a] /\ a \in GPIOEnabled /\ phase[a] \in {"running", "updating", "reporting", "draining"}

AgentInv ==
  /\ peer \in {"controller", "mock"} /\ died \in BOOLEAN
  /\ RowsInv /\ CallsInv /\ AgentTypes
  /\ \A a \in Agents : Good(a)

\* No row goes away.
RowsKept == \A a, i : IsNode(a, i) => IsNode(a, i)'

LEMMA RequestFacts ==
  /\ \A q \in Requests : q[1] \in Agents
  /\ \A a \in Agents, n \in 1..MaxStarts : <<a, n>> \in Requests /\ <<a, n>>[1] = a
  /\ MaxStarts \in Nat \ {0} /\ Exists = -1 /\ Refused = 0 /\ IsFiniteSet(Agents)
  /\ NameOf \in [Agents -> Names] /\ GPIOEnabled \subseteq Agents
BY AgentAssumption DEF AgentAssumption, Exists, Refused

LEMMA AgentInitially == ASSUME AgentInit, peer \in {"controller", "mock"} PROVE AgentInv
<1>1. RowsInv
  BY FS_EmptySet DEF AgentInit, RowsInv
<1>2. CallsInv
  BY RequestFacts DEF AgentInit, CallsInv
<1>3. AgentTypes
  <2>1. notified \in [Agents -> BOOLEAN] /\ gpio \in [Agents -> BOOLEAN]
    BY DEF AgentInit
  <2>2. /\ starts \in [Agents -> 0..MaxStarts] /\ phase \in [Agents -> Phases]
        /\ node \in [Agents -> Nat] /\ handling \in [Agents -> SUBSET Methods]
    BY RequestFacts DEF AgentInit, Phases, Down
  <2> QED
    BY <2>1, <2>2 DEF AgentTypes
<1>4. \A a \in Agents : phase[a] = "off" /\ node[a] = 0 /\ handling[a] = {} /\ a \notin Running
  BY DEF AgentInit, Running
<1>5. \A a \in Agents : Good(a)
  BY <1>4 DEF Good
<1>6. died \in BOOLEAN
  BY DEF AgentInit
<1> QED
  BY <1>1, <1>2, <1>3, <1>5, <1>6 DEF AgentInv

-----------------------------------------------------------------------------
(* The rows.                                                               *)

LEMMA RowsStay == ASSUME RowsInv, UNCHANGED rows PROVE RowsInv' /\ RowsKept
BY DEF RowsInv, RowsKept, IsNode

LEMMA RowIsAdded ==
  ASSUME RowsInv, NEW q \in Requests, NEW status \in Statuses, \A r \in rows : r.mac # q[1],
         rows' = rows \cup {Row(q, status)}, NEW i, i = Cardinality(rows) + 1
  PROVE  RowsInv' /\ RowsKept /\ IsNode(q[1], i)'
<1> DEFINE k == Cardinality(rows)
           new == Row(q, status)
<1>1. k \in Nat /\ IsFiniteSet(rows)
  BY FS_CardinalityType DEF RowsInv
<1>2. /\ new.id = k + 1 /\ new.name = NameOf[q[1]] /\ new.mac = q[1]
      /\ new \in [id : 1..(k + 1), name : Names, mac : Agents, status : Statuses]
  BY <1>1, RequestFacts DEF Row
<1>3. \A r \in rows : r.id \in 1..k /\ r \in [id : 1..(k + 1), name : Names, mac : Agents, status : Statuses]
  BY <1>1 DEF RowsInv
<1>4. new \notin rows
  BY <1>1, <1>2, <1>3
<1>5. IsFiniteSet(rows') /\ Cardinality(rows') = k + 1
  BY <1>1, <1>4, FS_AddElement
<1>6. rows' \subseteq [id : 1..Cardinality(rows'), name : Names, mac : Agents, status : Statuses]
  BY <1>2, <1>3, <1>5
<1>7. \A r, s \in rows' : r.mac = s.mac \/ r.id = s.id => r = s
  <2>1. \A r \in rows : r.id # new.id /\ r.mac # new.mac
    BY <1>1, <1>2, <1>3
  <2> QED
    BY <2>1 DEF RowsInv
<1>8. RowsInv'
  BY <1>5, <1>6, <1>7 DEF RowsInv
<1>9. IsNode(q[1], i)'
  BY <1>2 DEF IsNode
<1>10. RowsKept
  BY DEF IsNode, RowsKept
<1> QED
  BY <1>8, <1>9, <1>10

LEMMA RowsAreUpdated ==
  ASSUME RowsInv, NEW a \in Agents, NEW status \in Statuses, Updated(a, status)
  PROVE  RowsInv' /\ RowsKept
<1>1. CASE UNCHANGED rows
  BY <1>1, RowsStay
<1>2. CASE rows' = {IF r.id = node[a] THEN [r EXCEPT !.status = status] ELSE r : r \in rows}
  <2> DEFINE k == Cardinality(rows)
             T == [id : 1..k, name : Names, mac : Agents, status : Statuses]
             f == [r \in rows |-> IF r.id = node[a] THEN [r EXCEPT !.status = status] ELSE r]
  <2>1. IsFiniteSet(rows) /\ rows \subseteq T
    BY DEF RowsInv
  <2>2. \A r \in rows : f[r] \in T /\ f[r].id = r.id /\ f[r].mac = r.mac /\ f[r].name = r.name
    BY <2>1
  <2>3. rows' = {f[r] : r \in rows}
    BY <1>2
  <2> HIDE DEF f
  <2>4. \A r, s \in rows : f[r] = f[s] => r = s
    BY <2>2 DEF RowsInv
  <2>5. f \in Bijection(rows, rows')
    <3>1. f \in [rows -> rows']
      BY <2>3 DEF f
    <3> QED
      BY <2>3, <2>4, <3>1, Fun_IsBij
  <2>6. IsFiniteSet(rows') /\ Cardinality(rows') = k
    BY <2>1, <2>5, FS_Bijection DEF ExistsBijection
  <2>7. rows' \subseteq T
    BY <2>2, <2>3
  <2>8. \A r, s \in rows' : r.mac = s.mac \/ r.id = s.id => r = s
    BY <2>2, <2>3 DEF RowsInv
  <2>9. RowsKept
    BY <2>2, <2>3 DEF RowsKept, IsNode
  <2> QED
    BY <2>6, <2>7, <2>8, <2>9 DEF RowsInv
<1> QED
  BY <1>1, <1>2 DEF Updated

-----------------------------------------------------------------------------
(* The calls and the agents.                                               *)

LEMMA CallsStay == ASSUME CallsInv, RowsKept, UNCHANGED call PROVE CallsInv'
BY DEF CallsInv, RowsKept

LEMMA CallIsSet ==
  ASSUME CallsInv, RowsKept, NEW q \in Requests,
         NEW place \in {"none", "sent", "taken", "answered"}, NEW answer \in {Exists} \cup Nat,
         Set(q, place, answer), answer > 0 => IsNode(q[1], answer)'
  PROVE  CallsInv'
<1>1. \A p \in Requests : call'[p] = IF p = q THEN [at |-> place, answer |-> answer] ELSE call[p]
  BY DEF Set, CallsInv
<1>2. call' \in [Requests -> [at : {"none", "sent", "taken", "answered"}, answer : {Exists} \cup Nat]]
  BY DEF Set, CallsInv
<1>3. ASSUME NEW p \in Requests, call'[p].answer > 0 PROVE IsNode(p[1], call[p].answer)'
  <2>1. CASE p = q
    BY <1>1, <1>3, <2>1
  <2>2. CASE p # q
    BY <1>1, <1>3, <2>2 DEF CallsInv, RowsKept
  <2> QED
    BY <2>1, <2>2
<1> QED
  BY <1>2, <1>3 DEF CallsInv

\* A step of one agent.
LEMMA OneAgentMoves ==
  ASSUME AgentInv, RowsInv', RowsKept, CallsInv', AgentTypes',
         peer' = peer, died' \in BOOLEAN, NEW a \in Agents, Good(a)',
         \A b \in Agents \ {a} : /\ phase'[b] = phase[b] /\ starts'[b] = starts[b]
                                 /\ node'[b] = node[b] /\ gpio'[b] = gpio[b]
                                 /\ handling'[b] = handling[b]
  PROVE  AgentInv'
<1>1. ASSUME NEW b \in Agents \ {a} PROVE Good(b)'
  BY <1>1 DEF AgentInv, Good, Running, RowsKept
<1> QED
  BY <1>1 DEF AgentInv

\* A step of no agent.
LEMMA AgentsStay ==
  ASSUME AgentInv, RowsInv', RowsKept, CallsInv', peer' = peer, died' \in BOOLEAN,
         UNCHANGED <<starts, phase, node, notified, gpio, handling>>
  PROVE  AgentInv'
<1>1. AgentTypes'
  BY DEF AgentInv, AgentTypes
<1>2. ASSUME NEW b \in Agents PROVE Good(b)'
  BY <1>2 DEF AgentInv, Good, Running, RowsKept
<1> QED
  BY <1>1, <1>2 DEF AgentInv

LEMMA CallsKeep ==
  ASSUME AgentInv, NEW q \in Requests,
         TakeCall(q) \/ CreateNode(q) \/ MockCreateNode(q) \/ CallIsLost(q)
  PROVE  AgentInv'
<1>1. /\ UNCHANGED <<peer, died, starts, phase, node, notified, gpio, handling>>
      /\ RowsInv /\ CallsInv /\ died' \in BOOLEAN
      /\ Refused \in Nat /\ ~(Refused > 0) /\ Exists \in {Exists} \cup Nat /\ ~(Exists > 0)
  <2>1. UNCHANGED <<peer, died, starts, phase, node, notified, gpio, handling>>
    BY DEF TakeCall, CallIsLost, serverVars, CreateNode, MockCreateNode
  <2>2. RowsInv /\ CallsInv /\ died' \in BOOLEAN
    BY <2>1 DEF AgentInv
  <2>3. Refused \in Nat /\ ~(Refused > 0) /\ Exists \in {Exists} \cup Nat /\ ~(Exists > 0)
    BY DEF Refused, Exists
  <2> QED
    BY <2>1, <2>2, <2>3
<1>2. CASE UNCHANGED rows /\ (Set(q, "taken", Refused) \/ Set(q, "answered", Refused)
                                \/ Set(q, "answered", Exists))
  <2>1. RowsInv' /\ RowsKept
    BY <1>1, <1>2, RowsStay
  <2>2. CallsInv'
    BY <1>1, <1>2, <2>1, CallIsSet
  <2> QED
    BY <1>1, <2>1, <2>2, AgentsStay
<1>3. ASSUME NEW status \in Statuses, \A r \in rows : r.mac # q[1],
             rows' = rows \cup {Row(q, status)}, Set(q, "answered", Cardinality(rows) + 1)
      PROVE  AgentInv'
  <2>1. Cardinality(rows) \in Nat
    BY <1>1, FS_CardinalityType DEF RowsInv
  <2>2. PICK i \in Nat : i = Cardinality(rows) + 1
    BY <2>1
  <2>3. RowsInv' /\ RowsKept /\ IsNode(q[1], i)'
    BY <1>1, <1>3, <2>2, RowIsAdded
  <2>4. Set(q, "answered", i)
    BY <1>3, <2>2
  <2>5. CallsInv'
    BY <1>1, <2>3, <2>4, CallIsSet
  <2> QED
    BY <1>1, <2>3, <2>5, AgentsStay
<1>4. CASE TakeCall(q) \/ CallIsLost(q)
  BY <1>2, <1>4 DEF TakeCall, CallIsLost, serverVars
<1>5. CASE CreateNode(q) \/ MockCreateNode(q)
  <2> DEFINE status == IF peer = "mock" THEN "ready" ELSE "discovered"
  <2>1. \/ /\ \A r \in rows : r.mac # q[1]
           /\ rows' = rows \cup {Row(q, status)} /\ Set(q, "answered", Cardinality(rows) + 1)
        \/ UNCHANGED rows /\ (Set(q, "answered", Refused) \/ Set(q, "answered", Exists))
    BY <1>5 DEF CreateNode, MockCreateNode, Store
  <2>2. status \in Statuses
    BY DEF Statuses
  <2>3. PICK s \in Statuses : s = status
    BY <2>2
  <2> HIDE DEF status
  <2> QED
    BY <1>2, <1>3, <2>1, <2>3
<1> QED
  BY <1>4, <1>5

LEMMA StartsKeep == ASSUME AgentInv, NEW a \in Agents, Starts(a) PROVE AgentInv'
<1> USE RequestFacts
<1>1. /\ RowsInv /\ CallsInv /\ AgentTypes /\ Good(a) /\ died \in BOOLEAN /\ peer \in {"controller", "mock"}
      /\ starts[a] \in 0..MaxStarts /\ phase[a] \in Phases /\ node[a] \in Nat
  BY DEF AgentInv, AgentTypes
<1>2. UNCHANGED rows
  BY DEF Starts, LaunchAgent, StartFails, Register, Registered, ListNodes, InitializeServer,
         StartServer, serverVars
<1>3. RowsInv' /\ RowsKept
  BY <1>1, <1>2, RowsStay
<1>4. UNCHANGED call => CallsInv'
  BY <1>1, <1>3, CallsStay
<1>5. CASE LaunchAgent(a)
  <2>1. /\ starts' = [starts EXCEPT ![a] = @ + 1] /\ starts[a] + 1 \in 1..MaxStarts
        /\ node' = [node EXCEPT ![a] = 0] /\ notified' = [notified EXCEPT ![a] = FALSE]
        /\ phase' = [phase EXCEPT ![a] = "connecting"] /\ phase[a] \in Down
        /\ UNCHANGED <<peer, died, call, gpio, handling>>
    BY <1>1, <1>5 DEF LaunchAgent, Enter, serverVars
  <2>2. AgentTypes'
    BY <1>1, <2>1 DEF AgentTypes, Phases
  <2>3. Good(a)'
    BY <1>1, <2>1 DEF AgentTypes, Good, Running, Down
  <2> QED
    BY <1>1, <1>3, <1>4, <2>1, <2>2, <2>3, OneAgentMoves DEF AgentTypes
<1>6. CASE StartFails(a)
  <2>1. /\ phase' = [phase EXCEPT ![a] = "failed"] /\ phase[a] # "off"
        /\ gpio' = [gpio EXCEPT ![a] = FALSE] /\ handling' = [handling EXCEPT ![a] = {}]
        /\ UNCHANGED <<peer, died, call, starts, node, notified>>
    BY <1>6 DEF StartFails, Enter, serverVars
  <2>2. AgentTypes'
    BY <1>1, <2>1 DEF AgentTypes, Phases, Down
  <2>3. Good(a)'
    BY <1>1, <1>3, <2>1 DEF AgentTypes, Good, Running, RowsKept
  <2> QED
    BY <1>1, <1>3, <1>4, <2>1, <2>2, <2>3, OneAgentMoves DEF AgentTypes
<1>7. CASE Register(a)
  <2>1. /\ Set(Process(a), "sent", Refused) /\ phase[a] = "connecting"
        /\ phase' = [phase EXCEPT ![a] = "registering"]
        /\ UNCHANGED <<peer, died, starts, node, notified, gpio, handling>>
    BY <1>7 DEF Register, Enter, serverVars
  <2>2. Process(a) \in Requests
    BY <1>1, <2>1 DEF Good, Process
  <2>3. PICK q \in Requests : q = Process(a)
    BY <2>2
  <2>4. CallsInv'
    BY <1>1, <1>3, <2>1, <2>3, CallIsSet DEF Refused
  <2>5. AgentTypes'
    BY <1>1, <2>1 DEF AgentTypes, Phases
  <2>6. Good(a)'
    BY <1>1, <1>3, <2>1 DEF AgentTypes, Good, Running, RowsKept
  <2> QED
    BY <1>1, <1>3, <2>1, <2>4, <2>5, <2>6, OneAgentMoves DEF AgentTypes
<1>8. CASE Registered(a)
  <2> DEFINE answer == call[Process(a)].answer
  <2>1. /\ phase[a] = "registering"
        /\ phase' = [phase EXCEPT ![a] = CASE answer = Exists -> "listing" [] answer = Refused -> "failed"
                                           [] OTHER -> "registered"]
        /\ node' = [node EXCEPT ![a] = IF answer > 0 THEN answer ELSE 0]
        /\ UNCHANGED <<peer, died, call, starts, notified, gpio, handling>>
    BY <1>8 DEF Registered, Enter, serverVars
  <2>2. Process(a) \in Requests /\ Process(a)[1] = a
    BY <1>1, <2>1 DEF Good, Process
  <2>3. answer \in {Exists} \cup Nat /\ (answer > 0 => IsNode(a, answer))
    BY <1>1, <2>2 DEF CallsInv
  <2> HIDE DEF answer
  <2>4. \/ answer > 0 /\ phase'[a] = "registered" /\ node'[a] = answer
        \/ phase'[a] \in {"listing", "failed"} /\ node'[a] = 0
    BY <1>1, <2>1, <2>3 DEF AgentTypes
  <2>5. AgentTypes'
    BY <1>1, <2>1, <2>3, <2>4 DEF AgentTypes, Phases, Down
  <2>6. Good(a)'
    BY <1>1, <1>3, <2>1, <2>3, <2>4 DEF AgentTypes, Good, Running, RowsKept
  <2> QED
    BY <1>1, <1>3, <1>4, <2>1, <2>5, <2>6, OneAgentMoves DEF AgentTypes
<1>9. CASE ListNodes(a)
  <2>1. /\ phase[a] = "listing" /\ phase' = [phase EXCEPT ![a] = "failed"] /\ died' = (died \/ peer = "mock")
        /\ UNCHANGED <<peer, call, starts, node, notified, gpio, handling>>
    BY <1>9 DEF ListNodes, Enter
  <2>2. died' \in BOOLEAN
    BY <2>1
  <2>3. AgentTypes'
    BY <1>1, <2>1 DEF AgentTypes, Phases, Down
  <2>4. Good(a)'
    BY <1>1, <1>3, <2>1 DEF AgentTypes, Good, Running, RowsKept
  <2> QED
    BY <1>1, <1>3, <1>4, <2>1, <2>2, <2>3, <2>4, OneAgentMoves DEF AgentTypes
<1>10. CASE InitializeServer(a)
  <2>1. /\ phase[a] = "registered"
        /\ phase' = [phase EXCEPT ![a] = IF a \in GPIOEnabled THEN "initialized" ELSE "running"]
        /\ gpio' = [gpio EXCEPT ![a] = a \in GPIOEnabled]
        /\ UNCHANGED <<peer, died, call, starts, node, notified, handling>>
    BY <1>10 DEF InitializeServer, Enter, serverVars
  <2>2. gpio' \in [Agents -> BOOLEAN]
    BY <1>1, <2>1 DEF AgentTypes
  <2>3. AgentTypes'
    BY <1>1, <2>1, <2>2 DEF AgentTypes, Phases
  <2>4. phase'[a] \in {"initialized", "running"}
    BY <1>1, <2>1 DEF AgentTypes
  <2>5. Good(a)'
    BY <1>1, <1>3, <2>1, <2>4 DEF AgentTypes, Good, Running, RowsKept
  <2> QED
    BY <1>1, <1>3, <1>4, <2>1, <2>3, <2>5, OneAgentMoves DEF AgentTypes
<1>11. CASE StartServer(a)
  <2>1. /\ phase[a] = "initialized" /\ phase' = [phase EXCEPT ![a] = "running"]
        /\ UNCHANGED <<peer, died, call, starts, node, notified, gpio, handling>>
    BY <1>11 DEF StartServer, Enter, serverVars
  <2>2. AgentTypes'
    BY <1>1, <2>1 DEF AgentTypes, Phases
  <2>3. Good(a)'
    BY <1>1, <1>3, <2>1 DEF AgentTypes, Good, Running, RowsKept
  <2> QED
    BY <1>1, <1>3, <1>4, <2>1, <2>2, <2>3, OneAgentMoves DEF AgentTypes
<1> QED
  BY <1>5, <1>6, <1>7, <1>8, <1>9, <1>10, <1>11 DEF Starts

LEMMA StopsKeep ==
  ASSUME AgentInv, NEW a \in Agents,
         Tick(a) \/ Update(a) \/ Notify(a) \/ Stops(a) \/ KillAgent(a) \/ Handle(a)
           \/ \E m \in Methods : Handled(a, m)
  PROVE  AgentInv'
<1> USE RequestFacts
<1>1. /\ RowsInv /\ CallsInv /\ AgentTypes /\ Good(a) /\ died \in BOOLEAN /\ peer \in {"controller", "mock"}
      /\ starts[a] \in 0..MaxStarts /\ phase[a] \in Phases /\ node[a] \in Nat
  BY DEF AgentInv, AgentTypes
<1>2. RowsInv' /\ RowsKept /\ UNCHANGED <<peer, died, call, starts, node>>
  <2>1. CASE Update(a) \/ Report(a)
    <3>1. Updated(a, "ready") \/ Updated(a, "maintenance")
      BY <2>1 DEF Update, Report
    <3>2. RowsInv' /\ RowsKept
      BY <1>1, <3>1, RowsAreUpdated DEF Statuses
    <3> QED
      BY <2>1, <3>2 DEF Update, Report
  <2>2. CASE Tick(a) \/ Notify(a) \/ TakeSignal(a) \/ Drained(a) \/ CloseGPIO(a) \/ Disconnect(a)
             \/ AgentEnds(a) \/ KillAgent(a) \/ Handle(a) \/ \E m \in Methods : Handled(a, m)
    BY <1>1, <2>2, RowsStay
    DEF Tick, Notify, TakeSignal, Drained, CloseGPIO, Disconnect, AgentEnds, KillAgent, Handle, Handled,
        serverVars
  <2> QED
    BY <2>1, <2>2 DEF Stops
<1>3. CallsInv'
  BY <1>1, <1>2, CallsStay
<1>4. died' \in BOOLEAN
  BY <1>1, <1>2
<1>5. ASSUME NEW p \in Phases, phase' = [phase EXCEPT ![a] = p], phase[a] # "off",
             p \notin {"registered", "initialized"},
             p \in {"running", "updating"} => phase[a] \in {"running", "updating"},
             handling[a] # {} => p \in {"running", "updating", "reporting", "draining"},
             UNCHANGED <<gpio, handling>>, notified' \in [Agents -> BOOLEAN]
      PROVE  AgentInv'
  <2>1. AgentTypes'
    BY <1>1, <1>2, <1>5 DEF AgentTypes
  <2>2. Good(a)'
    BY <1>1, <1>2, <1>5 DEF AgentTypes, Good, Running, RowsKept
  <2> QED
    BY <1>2, <1>3, <1>4, <1>5, <2>1, <2>2, OneAgentMoves, <1>1 DEF AgentTypes
<1>6. CASE Tick(a) \/ Update(a)
  <2>1. PICK p \in {"running", "updating"} : phase' = [phase EXCEPT ![a] = p]
    BY <1>6 DEF Tick, Update, Enter
  <2>2. phase[a] \in {"running", "updating"} /\ UNCHANGED <<notified, gpio, handling>>
    BY <1>6 DEF Tick, Update
  <2>3. p \in Phases /\ notified' \in [Agents -> BOOLEAN]
    BY <1>1, <2>2 DEF Phases, AgentTypes
  <2> QED
    BY <1>5, <2>1, <2>2, <2>3
<1>7. CASE Notify(a)
  <2>1. /\ notified' = [notified EXCEPT ![a] = TRUE]
        /\ UNCHANGED <<phase, gpio, handling>>
    BY <1>7 DEF Notify
  <2>2. AgentTypes'
    BY <1>1, <1>2, <2>1 DEF AgentTypes
  <2>3. Good(a)'
    BY <1>1, <1>2, <2>1 DEF Good, Running, RowsKept
  <2> QED
    BY <1>2, <1>3, <1>4, <2>1, <2>2, <2>3, OneAgentMoves
<1>8. CASE TakeSignal(a)
  <2>1. /\ phase[a] \in {"running", "cancelled"} /\ UNCHANGED <<gpio, handling>>
        /\ notified' = [notified EXCEPT ![a] = FALSE]
    BY <1>8 DEF TakeSignal
  <2>2. PICK p \in {"reporting", "draining", "disconnecting"} :
          /\ phase' = [phase EXCEPT ![a] = p]
          /\ phase[a] = "running" => p = "reporting"
    BY <1>8, <2>1 DEF TakeSignal, Enter, AfterReport
  <2>3. notified' \in [Agents -> BOOLEAN] /\ p \in Phases
    BY <1>1, <2>1 DEF AgentTypes, Phases
  <2>4. handling[a] # {} => p = "reporting"
    BY <1>1, <2>1, <2>2 DEF Good
  <2> QED
    BY <1>5, <2>1, <2>2, <2>3, <2>4
<1>9. CASE Report(a)
  <2>1. /\ phase[a] = "reporting" /\ UNCHANGED <<notified, gpio, handling>>
        /\ phase' = [phase EXCEPT ![a] = AfterReport(a)]
    BY <1>9 DEF Report, Enter
  <2>2. AfterReport(a) \in Phases /\ AfterReport(a) \in {"draining", "disconnecting"}
    BY DEF AfterReport, Phases
  <2>3. handling[a] # {} => AfterReport(a) = "draining"
    BY <1>1 DEF Good, AfterReport
  <2>4. notified' \in [Agents -> BOOLEAN]
    BY <1>1, <2>1 DEF AgentTypes
  <2>5. PICK p \in Phases : p = AfterReport(a)
    BY <2>2
  <2> QED
    BY <1>5, <2>1, <2>2, <2>3, <2>4, <2>5
<1>10. CASE Drained(a)
  <2>1. /\ phase[a] = "draining" /\ handling[a] = {} /\ phase' = [phase EXCEPT ![a] = "closing"]
        /\ UNCHANGED <<notified, gpio, handling>>
    BY <1>10 DEF Drained, Enter
  <2>2. "closing" \in Phases /\ notified' \in [Agents -> BOOLEAN]
    BY <1>1, <2>1 DEF Phases, AgentTypes
  <2> QED
    BY <1>5, <2>1, <2>2
<1>11. CASE CloseGPIO(a)
  <2>1. /\ phase[a] = "closing" /\ phase' = [phase EXCEPT ![a] = "disconnecting"]
        /\ gpio' = [gpio EXCEPT ![a] = FALSE] /\ UNCHANGED <<notified, handling>>
    BY <1>11 DEF CloseGPIO, Enter
  <2>2. AgentTypes'
    BY <1>1, <1>2, <2>1 DEF AgentTypes, Phases
  <2>3. Good(a)'
    BY <1>1, <1>2, <2>1 DEF AgentTypes, Good, Running, RowsKept
  <2> QED
    BY <1>1, <1>2, <1>3, <1>4, <2>1, <2>2, <2>3, OneAgentMoves DEF AgentTypes
<1>12. CASE Disconnect(a) \/ AgentEnds(a)
  <2>1. PICK p \in {"cancelled", "ended"} : phase' = [phase EXCEPT ![a] = p]
    BY <1>12 DEF Disconnect, AgentEnds, Enter
  <2>2. phase[a] \in {"disconnecting", "cancelled"} /\ UNCHANGED <<notified, gpio, handling>>
    BY <1>12 DEF Disconnect, AgentEnds
  <2>3. handling[a] = {} /\ p \in Phases /\ notified' \in [Agents -> BOOLEAN]
    BY <1>1, <2>2 DEF Good, Phases, Down, AgentTypes
  <2> QED
    BY <1>5, <2>1, <2>2, <2>3
<1>13. CASE KillAgent(a)
  <2>1. /\ phase[a] \notin Down /\ phase' = [phase EXCEPT ![a] = "killed"]
        /\ gpio' = [gpio EXCEPT ![a] = FALSE] /\ handling' = [handling EXCEPT ![a] = {}]
        /\ UNCHANGED notified
    BY <1>13 DEF KillAgent, Enter
  <2>2. AgentTypes'
    BY <1>1, <1>2, <2>1 DEF AgentTypes, Phases, Down
  <2>3. Good(a)'
    BY <1>1, <1>2, <2>1 DEF AgentTypes, Good, Running, RowsKept, Down
  <2> QED
    BY <1>1, <1>2, <1>3, <1>4, <2>1, <2>2, <2>3, OneAgentMoves DEF AgentTypes
<1>14. CASE Handle(a) \/ \E m \in Methods : Handled(a, m)
  <2>1. PICK h \in SUBSET Methods : handling' = [handling EXCEPT ![a] = h]
    BY <1>1, <1>14 DEF Handle, Handled, AgentTypes
  <2>2. UNCHANGED <<phase, notified, gpio>>
    BY <1>14 DEF Handle, Handled
  <2>3. gpio[a] /\ a \in GPIOEnabled /\ phase[a] \in {"running", "updating", "reporting", "draining"}
    BY <1>1, <1>14 DEF Handle, Handled, Serving, Good
  <2>4. AgentTypes'
    BY <1>1, <1>2, <2>1, <2>2 DEF AgentTypes
  <2>5. Good(a)'
    BY <1>1, <1>2, <2>1, <2>2, <2>3 DEF AgentTypes, Good, Running, RowsKept
  <2> QED
    BY <1>1, <1>2, <1>3, <1>4, <2>1, <2>2, <2>4, <2>5, OneAgentMoves DEF AgentTypes
<1> QED
  BY <1>6, <1>7, <1>8, <1>9, <1>10, <1>11, <1>12, <1>13, <1>14 DEF Stops

LEMMA AgentStep == AgentInv /\ [ProgramsNext]_programVars => AgentInv'
<1> SUFFICES ASSUME AgentInv, [ProgramsNext]_programVars PROVE AgentInv'
  OBVIOUS
<1>1. CASE UNCHANGED <<serverVars, agentVars>>
  <2>1. UNCHANGED <<peer, died, rows, call, starts, phase, node, notified, gpio, handling>>
    BY <1>1 DEF serverVars, agentVars
  <2>2. RowsInv' /\ RowsKept
    BY <2>1, RowsStay DEF AgentInv
  <2>3. CallsInv' /\ died' \in BOOLEAN
    BY <2>1, <2>2, CallsStay DEF AgentInv
  <2> QED
    BY <2>1, <2>2, <2>3, AgentsStay
<1>2. CASE AgentNext
  BY <1>2, StartsKeep, StopsKeep, CallsKeep DEF AgentNext
<1> QED
  BY <1>1, <1>2 DEF ProgramsNext, ClientNext, programVars

LEMMA AgentInvHolds == ProgramsSpec => []AgentInv
<1>1. ProgramsInit => AgentInv
  BY AgentInitially DEF ProgramsInit
<1> QED
  BY <1>1, AgentStep, PTL DEF ProgramsSpec

\* As many rows as agents at most, for each has an address of its own.
LEMMA RowsAreFew == ASSUME RowsInv PROVE Cardinality(rows) <= Cardinality(Agents)
<1> DEFINE f == [r \in rows |-> r.mac]
<1>1. f \in [rows -> Agents] /\ \A r, s \in rows : f[r] = f[s] => r = s
  BY DEF RowsInv
<1> HIDE DEF f
<1>2. f \in Injection(rows, Agents)
  BY <1>1, Fun_IsInj
<1> QED
  BY <1>2, FS_Injection, RequestFacts

(* The typing of the agents and of what they are told: every ID that is    *)
(* given out is one of as many as there are starts of agents.              *)
THEOREM AgentsTyped == ProgramsSpec => []AgentTypeOK
<1>1. AgentInv => AgentTypeOK
  <2> SUFFICES ASSUME AgentInv PROVE AgentTypeOK
    OBVIOUS
  <2> DEFINE k == Cardinality(rows)
             most == Cardinality(Agents) * MaxStarts
  <2>1. k \in Nat /\ Cardinality(Agents) \in Nat /\ k <= Cardinality(Agents) /\ MaxStarts \in Nat \ {0}
    BY RowsAreFew, RequestFacts, FS_CardinalityType DEF AgentInv, RowsInv
  <2>2. 1..k \subseteq Answers /\ 0 \in Answers /\ Exists \in Answers
    <3>1. Cardinality(Agents) <= most
      BY <2>1
    <3> QED
      BY <2>1, <3>1 DEF Answers, Refused
  <2>3. \A a, i : IsNode(a, i) => i \in 1..k
    BY DEF IsNode, AgentInv, RowsInv
  <2> HIDE DEF k, most
  <2>4. rows \subseteq Nodes
    BY <2>2 DEF Nodes, AgentInv, RowsInv, k
  <2>5. call \in [Requests -> [at : {"none", "sent", "taken", "answered"}, answer : Answers]]
    <3>1. ASSUME NEW q \in Requests PROVE call[q].answer \in Answers
      <4>1. call[q].answer \in {Exists} \cup Nat /\ (call[q].answer > 0 => IsNode(q[1], call[q].answer))
        BY DEF AgentInv, CallsInv
      <4>2. CASE call[q].answer = Exists \/ call[q].answer = 0
        BY <2>2, <4>2
      <4>3. CASE call[q].answer > 0
        BY <2>2, <2>3, <4>1, <4>3
      <4> QED
        BY <4>1, <4>2, <4>3
    <3> QED
      BY <3>1 DEF AgentInv, CallsInv
  <2>6. node \in [Agents -> Answers]
    <3>1. ASSUME NEW a \in Agents PROVE node[a] \in Answers
      <4>1. node[a] \in Nat /\ (node[a] > 0 => IsNode(a, node[a]))
        BY DEF AgentInv, AgentTypes, Good
      <4>2. CASE node[a] = 0
        BY <2>2, <4>2
      <4>3. CASE node[a] > 0
        BY <2>2, <2>3, <4>1, <4>3
      <4> QED
        BY <4>1, <4>2, <4>3
    <3> QED
      BY <3>1 DEF AgentInv, AgentTypes
  <2> QED
    BY <2>4, <2>5, <2>6 DEF AgentTypeOK, AgentInv, AgentTypes
<1> QED
  BY <1>1, AgentInvHolds, PTL

(* An agent that runs is a node of its own, with its name and address,     *)
(* whatever calls were lost, late or repeated after a restart (runAgent,   *)
(* operations.go, CreateNode).                                             *)
THEOREM RunningAgentsAreRegistered == ProgramsSpec => []RunningIsRegistered
<1>1. AgentInv => RunningIsRegistered
  <2> SUFFICES ASSUME AgentInv PROVE RunningIsRegistered
    OBVIOUS
  <2>1. \A a \in Running : a \in Agents /\ IsNode(a, node[a])
    BY DEF AgentInv, Good, Running
  <2> QED
    BY <2>1 DEF RunningIsRegistered, IsNode, AgentInv, RowsInv
<1> QED
  BY <1>1, AgentInvHolds, PTL

(* The stop closes the GPIO system under no call, however often the agent  *)
(* is told to stop (runAgent, internal/agent/server.go).                   *)
THEOREM CallsFindGPIOOpen == ProgramsSpec => []NoCallOnClosedGPIO
<1>1. AgentInv => NoCallOnClosedGPIO
  BY DEF AgentInv, Good, NoCallOnClosedGPIO
<1> QED
  BY <1>1, AgentInvHolds, PTL

-----------------------------------------------------------------------------
(* The mock driver.                                                        *)

Places == {"none", "select", "emit", "lock"}

LoopTypes ==
  /\ running \in BOOLEAN
  /\ cancel \in {0} \cup Loops
  /\ loops \in {0} \cup Loops
  /\ at \in [Loops -> Places]

\* The loop that is not at rest is the one that eventLoopCancel ends.
OneLoop ==
  /\ running <=> cancel # 0
  /\ \A l \in Loops : at[l] # "none" <=> l = cancel

LoopInv == LoopTypes /\ OneLoop

LEMMA LoopsArePositive == Loops \subseteq Nat \ {0}
BY MockAssumption DEF MockAssumption, Loops

LEMMA LoopInitially == Init => LoopInv
BY LoopsArePositive DEF Init, LoopInv, LoopTypes, OneLoop, Places

\* A loop that goes from one place to another and not to rest.
LEMMA LoopMoves ==
  ASSUME LoopInv, NEW l \in Loops, NEW where \in Places, at[l] # "none", where # "none",
         at' = [at EXCEPT ![l] = where], UNCHANGED <<running, cancel, loops>>
  PROVE  LoopInv'
<1>1. LoopTypes'
  BY DEF LoopInv, LoopTypes
<1>2. \A k \in Loops : at'[k] # "none" <=> at[k] # "none"
  BY DEF LoopInv, LoopTypes
<1>3. OneLoop'
  BY <1>2 DEF LoopInv, OneLoop
<1> QED
  BY <1>1, <1>3 DEF LoopInv

LEMMA LoopStays == ASSUME LoopInv, UNCHANGED <<running, cancel, loops, at>> PROVE LoopInv'
BY DEF LoopInv, LoopTypes, OneLoop

LEMMA LoopStepKeeps == LoopInv /\ [Next]_vars => LoopInv'
<1> SUFFICES ASSUME LoopInv, [Next]_vars PROVE LoopInv'
  OBVIOUS
<1>1. CASE StartEventLoop
  <2>1. /\ loops + 1 \in Loops /\ loops + 1 # 0 /\ cancel = 0
        /\ running' = TRUE /\ loops' = loops + 1 /\ cancel' = loops + 1
        /\ at' = [at EXCEPT ![loops + 1] = "select"]
    BY <1>1, MockAssumption DEF MockAssumption, StartEventLoop, LoopInv, LoopTypes, OneLoop, Loops
  <2>2. LoopTypes'
    BY <2>1 DEF LoopInv, LoopTypes, Places
  <2>3. \A l \in Loops : at[l] = "none"
    BY <2>1, LoopsArePositive DEF LoopInv, OneLoop
  <2>4. \A l \in Loops : at'[l] # "none" <=> l = loops + 1
    BY <2>1, <2>3 DEF LoopInv, LoopTypes
  <2>5. OneLoop'
    BY <2>1, <2>4 DEF OneLoop
  <2> QED
    BY <2>2, <2>5 DEF LoopInv
<1>2. ASSUME NEW l \in Loops, LoopEnds(l) PROVE LoopInv'
  <2>1. /\ l = cancel /\ running' = FALSE /\ cancel' = 0 /\ loops' = loops
        /\ at' = [at EXCEPT ![l] = "none"]
    BY <1>2 DEF LoopEnds, LoopInv, OneLoop
  <2>2. LoopTypes'
    BY <2>1 DEF LoopInv, LoopTypes, Places
  <2>3. \A k \in Loops : at'[k] = "none"
    BY <2>1 DEF LoopInv, LoopTypes, OneLoop
  <2>4. OneLoop'
    BY <2>1, <2>3, LoopsArePositive DEF OneLoop
  <2> QED
    BY <2>2, <2>4 DEF LoopInv
<1>3. ASSUME NEW l \in Loops, TakeTick(l) PROVE LoopInv'
  BY <1>3, LoopMoves DEF TakeTick, Places
<1>4. ASSUME NEW l \in Loops, Emitted(l) PROVE LoopInv'
  BY <1>4, LoopMoves DEF Emitted, Places
<1>5. ASSUME NEW l \in Loops, TakeDone(l) PROVE LoopInv'
  BY <1>5, LoopMoves DEF TakeDone, Places
<1>6. ASSUME NEW l \in Loops, Emit(l) PROVE LoopInv'
  BY <1>6, LoopStays DEF Emit
<1>7. ASSUME \/ Initialize \/ Close \/ ConfigurePin \/ WritePin \/ SetPWM
             \/ \E r \in Readers : Read(r)
             \/ EnableInterrupt \/ DisableInterrupt \/ Deliver
             \/ StopEventLoop \/ CancelContext \/ UNCHANGED vars
      PROVE  LoopInv'
  <2>1. UNCHANGED <<running, cancel, loops, at>>
    BY <1>7
    DEF Initialize, Close, AskLoopToEnd, ConfigurePin, WritePin, SetPWM, Read, BeginRead,
        StampWord, EndRead, EnableInterrupt, DisableInterrupt, Deliver, StopEventLoop,
        CancelContext, vars, loopVars
  <2> QED
    BY <2>1, LoopStays
<1> QED
  BY <1>1, <1>2, <1>3, <1>4, <1>5, <1>6, <1>7 DEF Next, LoopStep

(* The flag stands for one goroutine, which eventLoopCancel ends, whatever *)
(* stops, closes and starts meet (mock.go).                                *)
THEOREM FlagStandsForTheLoop == Spec => []FlagIsTheLoop
<1>1. LoopInv => FlagIsTheLoop
  <2> SUFFICES ASSUME LoopInv PROVE FlagIsTheLoop
    OBVIOUS
  <2> DEFINE alive == {l \in Loops : at[l] # "none"}
  <2>1. alive \subseteq {cancel}
    BY DEF LoopInv, OneLoop
  <2>2. Cardinality(alive) <= 1
    <3>1. IsFiniteSet({cancel}) /\ Cardinality({cancel}) = 1
      BY FS_Singleton
    <3>2. Cardinality(alive) <= Cardinality({cancel})
      BY <2>1, <3>1, FS_Subset
    <3> QED
      BY <3>1, <3>2
  <2>3. running <=> alive # {}
    <3>1. cancel # 0 => cancel \in alive
      BY DEF LoopInv, LoopTypes, OneLoop
    <3>2. alive # {} => cancel # 0
      BY LoopsArePositive DEF LoopInv, OneLoop
    <3> QED
      BY <3>1, <3>2 DEF LoopInv, OneLoop
  <2>4. \A l \in alive : cancel = l
    BY <2>1
  <2> QED
    BY <2>2, <2>3, <2>4 DEF FlagIsTheLoop
<1> QED
  BY <1>1, LoopInitially, LoopStepKeeps, PTL DEF Spec

=============================================================================
