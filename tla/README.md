# pi-controller in TLA+

Formal models of the controller and agent of `pi-controller`, checked with TLC
and, for every safety property the runs check, proved with TLAPS.

    tlc -workers 2 -config Hub.cfg MCWebSocketHub   # any run, see "Runs"
    tlapm GPIOController_proofs.tla                 # any *_proofs module

`PROJECT.json` names, for every definition, the source lines it stands for,
and, for every checked property, a mutated definition under which TLC refutes it.

## The system

A *controller* (`cmd/pi-controller`) keeps an inventory of clusters, nodes and
GPIO devices in SQLite and serves REST, gRPC and WebSocket. An *agent*
(`cmd/pi-agent`) runs on each Raspberry Pi: it owns the pins, registers with the
controller over gRPC, and sends heartbeats.

| component | state | operations | talks to | what is hard |
|---|---|---|---|---|
| gpio controller `pkg/gpio/controller.go` | `activePins`, `activeOps`, release goroutines | Initialize, Close, ConfigurePin, ReadPin, WritePin, SetPWM, EnableInterrupt, DisableInterrupt, GetPinState, list | driver (calls), agent's gRPC service (called by) | permission, driver call and record are three critical sections; slots come back by timers |
| gpio driver `pkg/gpio/periph.go` | `pins`, `pwmPins`, lock, event loop, PWM goroutines | the same, on hardware | periph.io | goroutines outlive calls; a lock taken twice; failure halfway |
| gpio mock `pkg/gpio/mock.go` | pins, handlers, time stamps, the event loop's flag | the same, for machines with no pins | tests; whoever asks for a mock | the flag is cleared later by the goroutine; readers write under the read lock |
| agent's service `internal/agent`, `cmd/gpio-test-client` | its own gate over the driver | ConfigureGPIOPin, ReadGPIOPin, WriteGPIOPin, SetGPIOPWM, queries, a stream | gpio controller; gRPC clients | calls go on when their client has given up |
| websocket hub `internal/websocket/server.go` | `clients`, per-client queue and subscriptions, `register`/`unregister`/`broadcast`/`shutdown` channels | upgrade, register, unregister, broadcast, topic cast, ping, reply, Stop | browsers; services that broadcast | channels closed by several goroutines, map under a read lock, full queues, Stop racing all of it |
| agent client `internal/grpc/client` | `conn`, `client`, `connected`, `reconnecting`, heartbeat goroutine | Start, Stop, Connect, Disconnect, RPCs, heartbeat | controller's gRPC server; agent's main loop | outages, retries, waiters, stop signals, a stub read without the lock |
| services `internal/services` | tables `nodes`, `clusters`, `gpio_devices` | Create, Update, Delete, Provision, Deprovision, Read, Write | SQLite by GORM; cluster REST handler | check-then-act without transactions, whole rows saved, soft deletion |
| controller's gRPC server `internal/grpc/server` | the same tables | CreateCluster, CreateNode, GPIO calls | the agent client | inserts with no checks of its own |
| migrations `internal/migrations` | the schema, its record in the table `migrations` | Up, Down, Reset, Status | SQLite; called by the server when it opens the file and by `migrate` commands | crashes, Reset outside transactions, Down's order by the wall clock, two processes on one file |
| discovery `pkg/discovery/mdns.go` | `nodes`, `running`, `stopChan`, the contexts of two loops | Start, Stop, find, cleanup, GetNodes, events | event handlers, each in a goroutine | Stop before Start has returned, restart, events out of order, static nodes loaded with no lock |
| REST `internal/api` | rows of `clusters`; a chain of middlewares before every handler | filters, limiter, authentication, cluster routes; nodes and GPIO are stubs | services | statements after the check of a token; errors mapped by their text |
| authentication `internal/api/middleware/auth.go` | the secret of this boot | GenerateToken, ValidateToken, roles | REST, gRPC | expiry and restart between check and use |
| rate limiter `internal/api/middleware/ratelimit.go` | one token bucket per address, `lastClean` | getLimiter, allow, cleanup | REST | a bucket dropped while a request holds it |
| programs `cmd/pi-controller`, `cmd/pi-agent` | servers, their goroutines, signals, `serverErrors` | start, shutdown, registration, retry by a supervisor | all of the above | stopping what has not started, drains with a deadline, answers that are lost |
| encrypted storage `internal/storage/encryption.go` | key file, bolt file | open, Store, Delete, Close | nothing yet but a test | a key made by the first start, killed anywhere |
| config, logger, errors, k8s client, metrics | – | – | – | little state of their own |

What makes each correct: no order of calls drives a protected pin or leaves an
output high after Close, slots are neither lost nor doubled (gpio controller);
tables, goroutines and levels agree, calls return (driver); a channel is never
used after it was closed, gone clients leave, Stop ends what it should (hub);
one connection at a time, calls and goroutines end (client); rows refer to rows
that exist, uniqueness holds, nothing stored is lost (services); the record says what
is in the file, and a command that returns no error did what it is for, whatever
was interrupted before (migrations); rows change only for who was entitled to it,
and a client gets no more than its budget (REST, authentication, limiter); events
balance, and Stop ends the loops (discovery); an agent that runs is registered as
itself, and a stop cuts off no call (programs); what was sealed can be opened by
the next start (encrypted storage).

`PROJECT.json` lists every component with what is left out of it, and the
hazards with their lines.

## Modules

| module | stands for | |
|---|---|---|
| `PinDriver` | what `pkg/gpio` promises of a driver (`Interface`, kept by `periph.go`) | abstract; each call one step |
| `PeriphGPIO` | `periph.go` with its lock, PWM objects and goroutines | implements `PinDriver` |
| `GPIOController` | `controller.go`, EXTENDS `PinDriver` | composes the two |
| `WebSocketHub` | `websocket/server.go` | |
| `AgentGPIO` | `agent/gpio_service.go` and `cmd/gpio-test-client`, EXTENDS `GPIOController` | composes client, handler, gate, driver |
| `MockGPIO` | `mock.go` | |
| `AgentClient` | `grpc/client` and the loop of `cmd/pi-agent` | |
| `Inventory` | `services`, gRPC creations, `models` | |
| `RateLimiter` | `middleware/ratelimit.go` | |
| `ControllerAPI` | the middlewares, every REST route, the gRPC server's calls but nodes; EXTENDS `RateLimiter` | composes limiter, authentication, handlers, rows |
| `ControllerProgram` | `cmd/pi-controller` and Start and Stop of its three servers | |
| `AgentProgram` | `cmd/pi-agent`, the agent's server, registration, the mock server; EXTENDS `ControllerProgram` | composes agents and controller |
| `Discovery` | `discovery/mdns.go` | |
| `Migrations` | `internal/migrations`, and who calls it | |
| `EncryptedStorage` | `storage/encryption.go` | |
| `MC*` | instances for TLC, with the history their properties need; departures | `MCGPIOOperations` is `GPIOController` with every operation let in |
| `*_proofs` | theorems about the modules they extend ("Proofs") | |

**PinDriver / GPIOController.** `initialized`, `dir` (stored config), `mode` and
`level` (hardware), `pwm` and `pwmDriven` (PWM table, goroutines) are the driver;
`activeDir`, `activeValue`, `activeOps`, `sleepers` are `activePins`, `activeOps`
and the goroutines that sleep for `OperationTimeout`. An operation is a walk of
its caller through `pc`: `RefuseOverLimit` or `TakeSlot` with `Admit`/`Deny`
(`checkOperationLimits`, `IsPinAllowed`), `CheckDirection` (WritePin's look at
`activePins`), one `Driver*` step, `Record`. `Initialize` and `Close` go straight
to the driver at any time. Pins are numbers, values Booleans; a PWM duty cycle is
any sequence of levels.

**AgentGPIO.** A method's message is converted (`ConvertDirection`, `High`) and
becomes one call of the gate, in a goroutine of its own. The test client waits for
one call at a time (`served`), may run the whole demo (`script`), and gives up after
its ten seconds while the call goes on. `written` and `sure` are history: the value
a read must return as long as one call at a time touched the pin since the write.

**MockGPIO.** Calls hold the mutex and are one step; a read writes its time stamp,
two words, under the read lock, and is three. A loop is in its select, emits from a
copy of the handlers, or waits for the lock to clear its flag; `Call` counts handler
goroutines that have not run.

**PeriphGPIO.** A call waits for `mutex`, then runs in one step; PWM objects are
numbered so that a goroutine can hold an entry that the table no longer has.
`GetPinState` and `ListConfiguredPins` lock for reading twice, so they are several
steps, and a waiting writer keeps new readers out, as Go's `RWMutex` does.

**WebSocketHub.** A queue is a count and an open flag. `hub` is the place in
`run()`; `fan` the loop over `clients`, the hub's or a topic caster's, one step for
each client picked, sent to, or dropped; `reader` and `writer` are the pumps. A
send on a closed channel, a second close, or a map write under a reader sets
`panic`, which ends the process: Go makes the first two certain and detects the
third if it happens to, so that step may or may not panic.

**AgentClient.** `pc[t]` follows a goroutine through `ensureConnected`,
`connectWithRetry`, `Connect`, `WaitForConnection` and the use of the stub. `mu`
is held across steps only while dialling. The server comes and goes
(`ServerToggles`), and gRPC breaks and repairs the connection on its own.
Payloads are left out here; registration is in `AgentProgram`.

**Inventory.** Each `call[c]` goes through its statements: `at` is the next one,
`row` what it has read. GORM is modelled as the code uses it (module comment).
Two unique indexes speak in it: that on names, which counts deleted rows, and that on
the pins of a node, which leaves deleted devices out (`definitions.go:106`, `:168`); a
statement they refuse changes nothing. Bounds: the row sets; a creation begins while
rows are left. MAC addresses, which also carry a unique index, are taken to be
distinct. `readings` are left out, and
the row read and its preloaded associations count as one statement.
`ClusterService.Create` has no action because it never inserts: it compares the
error of `GetByName` with the text "not found" (`cluster.go:40`), which is not that
error's text, so a name that is free makes it return.

**ControllerAPI / RateLimiter.** A REST request goes through `at`: "allow" (it has
fetched its limiter, `GetLimiter`), "auth", "handle" (its first statement), "write",
"reading". A gRPC call begins at "auth". Answers are numbers only where a property or a
departure reads them (`Reply`). `issued` are the tokens in clients' hands: the secret
is drawn anew at each boot, and no route of the program hands tokens out, so
`IssueToken` stands for whoever embeds the manager. `GrpcAuth` is FALSE in the program
itself (`grpc/server/server.go:51` builds its server without a manager: reads and
writes of GPIO are then always refused); the run sets it, to look at what the check
promises once it is wired. In the limiter a step of time is one token; `overtaken`
counts the requests that a cleanup dropped from the table in between, `BeginCount`
begins a new period, so that `WithinBudget` speaks of all of them. The wall clock is
taken to go forward.

**ControllerProgram / AgentProgram.** `main` follows `runServer`; `server[s]` and
`stopper[s]` are the goroutines of Start and Stop of each server, `work` what they
handle. `phase[a]` follows `runAgent`: in "updating" and
"reporting" its loop waits for UpdateNodeStatus, and sees no signal; a CreateNode `call` is sent, taken, answered or
lost, and a server carries out what its client gave up. `peer` is the server the agents
call: the controller, or the mock server of the client's tests. A supervisor starts
both again (`MaxBoots`, `MaxStarts`).

**Discovery.** Time goes in intervals; `Timely` says whether a goroutine serves its
tick before the next one. `nodes` holds the age of each entry, `holder` the mutex,
`flying` the events whose goroutine has not called the handler. `loadStaticNodes`
writes the map with no lock: meeting another user of the map sets `panic`.

**EncryptedStorage.** Every look at a file is a step. `raced` and `lost` are history:
two first starts that both found no key file, and power that failed before the key
file, which is never synced, was on the disk.

**Migrations.** `tables`, `indexed` and `readings` are the file's schema, `record`
and `appliedAt` the rows of `migrations` (`Log`). A process walks through `Up`,
`Down`, `Status` or `Reset`, one step for each transaction and for each statement
outside one; `pending`, `target` and `todo` are what it has read and still works
on. It may be killed or fail at any step (`Abort`), and `Refuse` is a statement that
finds the file other than it had read it. A `Plan` says who may work on the file,
with which commands, and whether the clock may step back; a property's
precondition on the plan is what it needs of the operator. Of the order in which
tables were created, which is Reset's order of dropping, only each table's place
before or after `Log` is kept (`older`): that is what decides which records survive an
interrupted Reset. Migrations 1 to 4 differ only in their table, so N is a
constant.

## Runs

Every property has a mutant in `PROJECT.json`. States are distinct ones of the last
complete run; every run ends within three minutes. A run whose module has a `scene`
looks at several small instances at once: parts that share no state are not
multiplied with one another, and each property is checked in the scenes it is about.

| run | states | question |
|---|---|---|
| `AgentGPIO` | 468 000 | scene "service": the agent's handlers with default settings, the test client and another client, bad values, Close and Initialize at any time; scene "gate": every operation, called directly. `SlotAccounting`, `SlotsComeBack`, `ProtectedPinsUntouched`, `InputNotDriven`, `ClosedOutputsLow`, `RecordMatchesDriver` (pins not `contested`: two operations at once, or a configure that failed half-way), `ReadsReturnWrites` |
| `GPIOAllOperations` | 1 483 000 | paranoid settings but every operation allowed, PWM and interrupts too, a pin whose hardware may fail: the PWM goroutines disturb no pin but their own (`UnpulsedPinsSafe`) |
| `PeriphPins` | 793 000 | `ImplementsPinDriver` (refinement), `ActiveEntryIsDriven` |
| `Mock` | 38 000 | two loops one after the other, two readers, Close at any time: `FlagIsTheLoop`, `EndedLoopRests` |
| `Hub` | 89 000 | scene "listeners": peers only listen (`ListenersAreSafe`); scene "everything": replies, casts, broadcasts and pings (`SafeWithoutOverflow`, `DroppedIsDisconnected`, `GoneIsRemoved`) |
| `ClientCalls` | 3 500 | three goroutines, outages, Stop: `ConnectionAccounting`, `OneReconnector`, `CallsReturn`, `BeatEndsAfterStop` |
| `Inventory` | 1 081 000 | scene "alone": one request of the services at a time, and no cluster deleted, keeps the inventory consistent (`ReferencesLive`, `SavedIsKept`, `DeletedStaysDeleted`); scene "together": two at a time for nodes and clusters, statements interleaved; scene "devices": two at a time for the devices of a node. In all, names are unique and a pin has one live device, and alone addresses are unique (`OneOfEach`) |
| `ControllerRequests` | 784 000 | limiter with cleanup, restarts and periods (`WithinBudget`); tokens that expire, restarts and other requests between the check and the statements (`ChangesEntitled`) |
| `Programs` | 181 000 | scene "shutdown": the whole controller under a registration and a REST request; "restarts": two agents of one name register, die, lose answers, with either server; "stop": the whole of an agent, with either server, which may go away. `RunningIsRegistered`, `NoCallOnClosedGPIO`, `CallsAreFinished`, `ShutdownEnds`, `SignalEndsAgent` |
| `Discovery` | 70 000 | two starts, two found nodes and a static one: `EventsAccount`, `AnsweringStaysKnown`, `StopEndsLoops` |
| `Storage` | 400 000 | scene "schema": Up, Down, Status and Reset killed anywhere: `TableIffRecorded` (two processes too), `AppliedIsPrefix`, `IndexedWhileRecorded`, `UpRecordsAll`, `ResetRebuilds`; scene "secrets": two processes open the encrypted file: `StoredIsReadable` |
| `MigrationsReadings` | violation | `ReadingsCanBeStored`: an index that refuses every row |

Bounds. Two callers or clients make every race between two critical sections
of the code happen; no code compares more than two of them. Queues and the
broadcast channel have room for one message so that they fill within few steps:
only "full" and "not full" are told apart. Pins are chosen for what they are:
15 (critical) and 18 (PWM) for the gate; in `GPIOAllOperations` 18, with PWM and a
fault, and 20, with neither, under one slot;
17 (no PWM) and 18 for the driver, 4 and 41 (out of range) for the mock.
`MaxEntries` and `MaxRoutines` bound how many PWM objects and goroutines are ever
made; two is what a goroutine that outlives its entry needs. `MaxRetries` is 2:
first, middle and last attempt. Two tables and their index migration make a gap, a
prefix and an order of dropping possible; `MaxClock` bounds the applications a
behaviour sees, six being twice the whole of the migrations. In `Inventory` two
requests at a time carry one address, and only Provision carries a cluster; those for
devices are on one node, and none is an Update, which saves a row as Write does.
`ControllerRequests` has one row, one token, a burst of one and a cleanup after every
token: what a second row adds is a name that is taken, which the handlers see with a
deleted row too. `Programs` takes one request at a time in
"shutdown" and two starts of each program; `Discovery` two starts, so that a Stop can
overtake the first and meet the second. `MaxDrawn` is 2: one key for each process.
Symmetry is declared for callers, threads, requests and devices where no temporal
property is checked (`ControllerRequests` and `Inventory` check action properties, which are
symmetric).

Fairness. Only what the Go runtime and the code's own timers guarantee:
`time.Sleep` ends (`GPIOController`); a goroutine that can go on does; a `select`
picks each case that stays ready again and again, and an `RWMutex` holds new
readers back while a writer waits, hence strong fairness for those that take
locks or wait on channels (`WebSocketHub`); dials, backoffs and calls have
timeouts, and `WaitForConnection` polls (`AgentClient`); the 30 seconds of a
shutdown pass (`ControllerProgram`). Nobody is assumed to call, to connect, to read,
to leave or to repair the server. The stop of an agent needs two of these, and has
them as premises in `SignalEndsAgent` where a reader sees them. Its loop waits for
UpdateNodeStatus, whose context has no deadline (`cmd/pi-agent/main.go:203`, `:220`):
the fairness of `Update` and `Report` is only that they return while the server can be
reached. And GracefulStop waits for metrics streams, which end with their clients:
only unary calls are fair. Without either premise TLC finds an agent that never stops
(`StopsUnreachable`, `StopsUnderStreams` under "Departures").

Deadlock is not checked where the program really stops: a hub that waits in its
own ping or was stopped, a stopped agent, readers of the driver that wait for each
other (`ReadersReturn` below), a discovery whose program has ended, programs whose
starts are used up, a mock whose loops and events are, and an inventory whose rows are.

## Proofs

Every safety invariant and action property of a passing run is a theorem, for every
value of the constants that meets the modules' named assumptions. Liveness is not
(below). One proof module serves components of a kind: `Storage_proofs` extends
`EncryptedStorage`, `Migrations` and `MCInventory`, `Programs_proofs` extends
`AgentProgram` (with `ControllerProgram`) and `MockGPIO`, `GPIOController_proofs`
`AgentGPIO` and `MCGPIOOperations`; the others are named for the module they are about.

| theorem | states | argument |
|---|---|---|
| **`GPIOController_proofs`** | | |
| `TypeCorrect` | `TypeOK` | inductive |
| `SlotsAccounted` | `SlotAccounting`: `activeOps` equals the number of release goroutines and stays within the limit | inductive with the typing of the two counters; the clamp at zero in the goroutine is never needed |
| `ProtectedPinsSafe` | `ProtectedPinsUntouched` | needs that every request past `Admit` is for a permitted pin |
| `InputsNeverDriven`, `ClosedDriverIsSafe` | `InputNotDriven`, `ClosedOutputsLow`, if PWM is not allowed | no PWM goroutine exists, and the driver looks at its own tables in the step in which it writes |
| `PulsesStayOnTheirPins` | `UnpulsedPinsSafe`, for every operation | a property of the driver alone: a goroutine runs for a pin of `pwmDriven`, and a pin that was never there is driven only by the call that has just looked it up; the gate's steps are steps or stutters of the driver |
| `RecordAgreesWithDriver` | `RecordMatchesDriver`, for plain operations | `RecordInv`: on a pin that is not contested one call is at work; when none has an answer to record, the entry agrees with the driver, and when one has, its answer does |
| `ReadsReturnTheirWrites` | `ReadsReturnWrites`, for plain operations | `HistoryInv`: what a read must return is on the pin, and nothing that changes the pin is at work; a write that nothing overlapped has put its value there when it comes to its record |
| **`PeriphGPIO_proofs`** | | |
| `ActiveEntriesDriven` | `ActiveEntryIsDriven` | no two pins share a PWM object, the next object and goroutine are nobody's, and one thread at a time is in the lock |
| `PeriphImplements` | `ImplementsPinDriver` | under that invariant every call in its lock is a call of `PinDriver`, a goroutine's step is one of its background, and waiting is a stutter; one lemma per call |
| **`WebSocketHub_proofs`** | | |
| `TypeCorrect` | `TypeOK` | one lemma per part of the state |
| `SafeUntilOverflow` | `SafeWithoutOverflow` | until a queue is full nobody is in a dropping step, a channel is open exactly for clients between upgrade and unregistration, and each client's reader leaves once |
| `ListenersSafe` | `ListenersAreSafe`, queues full or not | `HubAlone`: nobody but the hub sends or closes; `HubFindsOpen`: what it is about to use is open, and it takes a client from the map in the step in which it closes its channel |
| **`AgentClient_proofs`** | | |
| `TypeCorrect` | `TypeOK` | the bound on `attempt` needs that who is in `backoff` has made at least one and who connects has one left |
| `ConnectionsAccounted` | `ConnectionAccounting`: connections dialled and not closed are one when connected, else none | a goroutine dials only while `connected` is false, which needs that only one dials |
| `ReconnectorIsAlone` | `OneReconnector` | needs that the heartbeat goroutine starts once, so that `Start`'s return cannot put it in two places |
| **`ControllerAPI_proofs`** | | |
| `ClientsWithinBudget` | `WithinBudget` | what was let through plus the tokens a client can still count on stays within the budget; needs that two clients share no limiter and that a limiter in the table is held only for its client |
| `ChangesAreEntitled` | `ChangesEntitled` | whatever is past its check was entitled; a token good now was good when the request came, since the clock goes forward; a restart ends every request |
| **`Discovery_proofs`** | | |
| `TableIsAccounted` | `EventsAccount` | inductive with the typing: every step that enters or drops a node sends one event |
| `AnsweringNodesStay` | `AnsweringStaysKnown` | `SeenInTime`: while goroutines are in time a found node was seen in this interval, or in the last one and a query is due or under way, so no cleanup finds it three old; needs which goroutines a Start has launched, and that a stop, once made, stays |
| **`Storage_proofs`** | | |
| `StoredCanBeRead` | `StoredIsReadable` | `KeysInv`: until two starts race or power is lost, one process at a time is between drawing a key and saving it, nothing is stored before a key is saved, and whoever runs has the key of the next start |
| `TypeCorrect` | `Migrations!TypeOK` | inductive |
| `TablesRecorded` | `TableIffRecorded`: without Reset, tables and record agree, whoever is killed or interleaves | inductive as it stands with the typing: table and record change in one transaction |
| `UpRecords`, `ResetRebuildsSchema` | `UpRecordsAll`, `ResetRebuilds` | `Sole` and `FileInv`: while one process works, what it has read is true (`pending` is what is not recorded); `ResetInv`: after the drops only what this Reset has applied is there |
| `PrefixApplied`, `TablesIndexed` | `AppliedIsPrefix`, `IndexedWhileRecorded` | `OrderInv`: times recorded are in the past and in the order of the migrations, so that Down takes the highest, and the indexed tables are all there are, also in the middle of a Reset |
| `InventoryTyped` | `InventoryTypeOK` | with `CallsForRows`: what a call has read is a row of the kind its operation is about |
| `NamesStayUnique`, `PinsStayUnique` | `UniqueNames`, `OneDevicePerPin`, for any callers | a row's name, and a live device's pin, change only in statements that go through their index; a row that comes back brings the name it kept, and goes through the index with its pin |
| `OneOfEachHolds` | `OneOfEach` | those two, and `AloneFacts` (next line) for addresses, which no index guards |
| `ReferencesStayLive`, `SavedValuesAreKept` | `ReferencesLive`, `SavedIsKept` | `AloneFacts`: one call is at work, so what its checks found is still so at its last statement (`NodeCallKnows`, `DeviceCallKnows`) |
| `DeletedRowsStayDeleted` | `DeletedStaysDeleted` | the same: the row a call saves is live, so Save never inserts |
| **`Programs_proofs`** | | |
| `ControllerTyped` | `ControllerTypeOK` | its part worth a theorem is that `serverErrors` never holds more than three: a server sends once, as it returns, and is launched once for each boot |
| `CallsFinish` | `CallsAreFinished` | a server that does not listen has no call, and `Drained` ends it only when there is none |
| `AgentsTyped` | `AgentTypeOK` | IDs count the rows, and an address has one, so there are no more rows than agents |
| `RunningAgentsAreRegistered` | `RunningIsRegistered` | whatever ID is in an answer or an agent is that of its row, and no row goes away or changes its address |
| `CallsFindGPIOOpen` | `NoCallOnClosedGPIO` | calls are at work only while the agent serves or drains, and its pins close after |
| `FlagStandsForTheLoop` | `MockGPIO!FlagIsTheLoop` | the loop that is not at rest is the one `cancel` is of; only that loop clears the flag |

Each rests on an inductive invariant that is named in its module. A step has one case
per action, and lemmas where a case is used twice. A type invariant that is proved is
in no run.

What the theorems assume. Of constants, the `ASSUME`s of the modules, which TLC
evaluates in every run: sets that the code leaves open are any sets, but the agents
are finitely many, since the controller counts rows, and pins are integers. Of
operations, what the theorem says: "PWM is not allowed" is `PWMForbidden`, and "plain"
is `PlainOperations`, that is `AllowedOperations` names only `read`, `write` and
`configure`, as `DefaultSecurityConfig` does (the list is not empty, because an empty
one allows everything). With PWM these are not promised: a goroutine drives pins
between calls, and still does when the tables have forgotten it. What stays promised
then, of the pins no goroutine was started for, is `PulsesStayOnTheirPins`. Of the
world, what the scene of a run says: peers that only listen, one request at a time.
These are preconditions inside the properties, in the theorem as in the run. The scene "alone" has no deletion of a cluster, because
`ClusterService.Delete` looks for no nodes (`cluster.go:96`).

Model-checked only: `SlotsComeBack`, `DroppedIsDisconnected`, `GoneIsRemoved`,
`CallsReturn`, `BeatEndsAfterStop`, `StopEndsLoops`, `EndedLoopRests`, `ShutdownEnds`
and `SignalEndsAgent`. They are leads-to properties under weak or strong fairness: a
proof needs `ENABLED` of the fair actions, which the installed provers do not expand,
and most need induction on how much is queued or left to do. The violation run is TLC's
too. Of invariants, only those of `Departures` are unproved: they do not hold.

## Departures

What the code says and does not do, met while modelling. One has a run (and is in
`findings`): `MigrationsReadings`. TLC refutes the others too; put the property in
the place of those of the configuration named to see it.

| property | in | the code says | what happens |
|---|---|---|---|
| `RefusedOnlyWhenBusy` | `AgentGPIO` | "maximum concurrent operations reached" (`controller.go:242`) | a slot is kept for the whole `OperationTimeout`, so idle callers are refused |
| `TrackedPinsConfigured` | `AgentGPIO` | "a list of all configured GPIO pins" (`controller.go:417`) | Close leaves `activePins` |
| `TrackedValueIsLevel`, `TrackedDirectionIsConfigured` | `AgentGPIO` | "Update active pin state" (`controller.go:344`) | two calls take effect in one order and are recorded in the other; a configure that fails at PWM has already reset the pin |
| `PWMIsSupported` | `AgentGPIO` | "Test PWM (if supported)" (`cmd/gpio-test-client/main.go:212`) | the agent's settings allow no PWM operation, for any pin |
| `OneRoutinePerEntry` | `PeriphPins` | "Start PWM if not already active" (`periph.go:359`) | reconfigured before the goroutine looked its entry up, a pin gets two |
| `ClosedPinsStayLow` | `PeriphPins` | "Stop PWM on all pins" (`periph.go:109`) | the goroutine drives on after Close |
| `RunningLoopIsLive` | `PeriphPins` | "event loop already running" (`periph.go:562`) | Close cancels the loop and leaves it marked |
| `ReadersReturn` | `PeriphPins` with one pin, `FairSpec`, no symmetry and no PWM | "returns the current state of a GPIO pin" (`periph.go:290`) | a read lock taken twice (`periph.go:301`) and a writer between wait for each other |
| `StoppedIsNotRunning` | `Mock` | "stops the event processing loop" (`mock.go:433`) | the loop clears its flag later; until then Start is refused |
| `DisabledIsSilent` | `Mock` | "disables interrupt-based event detection on a pin" (`mock.go:387`) | goroutines and the copy of the handlers still call |
| `StampIsWhole` | `Mock` | "Update timestamp" (`mock.go:98`) | reads write the time stamp under the read lock |
| `NoPanic` | `Hub` | `clientsMux` guards the map (`server.go:26`) | a peer that asks faster than it reads: its channel is closed twice, or sent to when closed (`server.go:303`), and casts delete from the map under a read lock (`server.go:283`) |
| `StopClosesConnections` | `Hub` | "Close all client connections" (`server.go:169`) | a registration after Stop's loop stays open |
| `ReadersEndAfterStop` | `Hub` | "Stop gracefully stops the WebSocket server" (`server.go:164`) | nobody receives from `unregister` |
| `BroadcastReturns` | `Hub` | "broadcasts a message to all connected clients" (`server.go:259`) | the hub waits for room in the channel only it empties |
| `StubNeverNil` | `ClientCalls` | "checks the connection" (`client.go:304`) | Disconnect between the check and the call |
| `EnsuredIsReady` | `ClientCalls` | "attempts to reconnect if necessary" (`client.go:304`) | `connected` stays true over a broken connection |
| `StoppedIsDisconnected` | `ClientCalls` | "cleans up resources" (`client.go:401`) | a call in flight dials again after Stop |
| `BeatEndsAfterStop` | `ClientCalls`, `OwnerCancels = FALSE` | "Cancel context to stop all goroutines" (`client.go:405`) | the heartbeat listens to another context |
| `OwnerComesBack` | `ClientCalls` | "Setup graceful shutdown" (`cmd/pi-agent/main.go:143`) | the loop waits with no deadline while the controller is down |
| `UniqueAddresses`, `NodeClusterLive` | `Inventory` | `node.go:192`, `node.go:200` | look-ups, deletions and saves of two calls interleave |
| `DeviceHasNode`, `DeviceAsSaved` | module `Inventory`, `InventorySpec`, no symmetry | `node.go:345`, `gpio.go:378` | the same, for devices (the pins of a node are kept apart by their index) |
| `DeprovisionLeavesCluster` | `Inventory` | "removes a node from its cluster" (`node.go:437`) | saving the row saves its preloaded cluster, whose ID goes back to `cluster_id` |
| `MissingIsNotFound` | `ControllerRequests` | "maps them to appropriate HTTP responses" (`handlers/cluster.go:190`) | the error of a missing cluster is not among those it maps: 500 |
| `CreateSucceeds` | `ControllerRequests` | "Create creates a new cluster" (`services/cluster.go:32`) | it goes on only when an error reads "not found", and it reads otherwise: 404 for a free name |
| `ReadingIsValue` | `ControllerRequests` | "Record the write operation" (`pi_controller.go:259`) | two writes interleave, and a reading that is not stored is not noticed |
| `GracefulAPI` | `Programs` | "All servers stopped gracefully" (`cmd/pi-controller/main.go:232`) | main waits for Start, which returns when Shutdown begins: REST requests may be cut off |
| `NoPanic` | `Programs` | the same | a signal before Start has made its server: Stop uses a nil pointer |
| `StoppedServersReturn` | `Programs` | the same | the WebSocket listener is never closed, so a shutdown takes its 30 seconds |
| `KnownAgentStartsAgain` | `Programs` | "Node already registered, attempting to update" (`operations.go:54`) | the client looks for `AlreadyExists`, the server answers `Internal`: an agent that was stored never starts again |
| `StoppedIsInMaintenance` | `Programs` | "Update node status to maintenance before shutting down" (`cmd/pi-agent/main.go:219`) | the controller has no UpdateNode |
| `StopsUnreachable`, `StopsUnderStreams` | `Programs` | "Setup graceful shutdown" (`cmd/pi-agent/main.go:143`) | the stop waits with no deadline, to update its node while the controller is away (`main.go:220`), and for the clients of metrics streams to leave (`agent/server.go:111`) |
| `MockSurvives` | `Programs` | `RLock` pairs with `RUnlock` (`mock_server.go`) | it unlocks for writing what it locked for reading, which ends the process |
| `NoPanic`, `RunningMeansAlive` | `Discovery` | "Stop stops the discovery service" (`mdns.go:155`) | `stopChan` is made once: a restart ends at once, and the next Stop closes it again |
| `ToldInOrder` | `Discovery` | "represents a node discovery event" (`mdns.go:36`) | every event is a goroutine |
| `UpBuildsSchema` | `Storage` | "All migrations applied successfully" (`migrations.go:112`) | an interrupted Reset leaves a record of dropped tables, which Up believes |
| `NoGapAlone` | `Storage` | "Rollback the most recently applied migration" (`cmd/pi-controller/main.go:87`) | where the clock stepped back, Down takes another |
| `StartsAgain` | `Storage` | `GenerateKeyIfMissing` (`encryption.go:125`) | a key file that was cut and not written is refused for ever |
| `RunningHasTheKey` | `Storage` | "Generated new encryption key and saved to file" (`encryption.go:155`) | the other of two first starts overwrites it |

Two more are in no property, since nothing in the models would be about them. The
limiter runs before authentication, so its limits per user (`ratelimit.go:125-130`)
never apply. And nothing calls GenerateToken, so with authentication on every request
to `/api/v1` is refused.

## Not modelled

The monitor goroutines behind EnableInterrupt (`periph.go:519`), which wait for edges
and call the handler: what they see is decided by periph's `WaitForEdge`, which is not
in the repository. Hardware writes that fail in `periph.go` (they do in `PinDriver`).
SPI and I2C (they pass through, or refuse), the audit log, statistics and lists;
readings of the inventory. HTTP as such: parsing, the text checks of `ValidateRequest`
(one condition: refused before the limiter, or not), CORS, request IDs, logging.
Refreshing and hashing in `auth.go`, which no route uses. The messages and clients
generated by `protoc`: of the generated code only which calls a service has, and what
is Unimplemented, is modelled. Pin and deployment services (one statement each), the
k8s client (called by nobody), metrics, configuration.

## Plan

What the models and their theorems still leave:

1. The bounds that are part of an invariant (`MaxStarts`, `MaxBoots`, `MaxClock`,
   `MaxRoutines`) are parameters of the theorems; that nothing else depends on them is
   said by the proofs, and could be stated as a refinement between two values.
2. An abstract inventory (one step for each call) that `Inventory` implements when
   requests come one at a time, and one of the hub (a set of clients, each with a
   sequence of messages) that `WebSocketHub` implements until a queue is full.
3. Two processes on one file: what of the migrations' `UpRecordsAll` is left when both
   only run Up.
4. The hazards without a property (`PROJECT.json`) are those whose properties TLC
   refutes under "Departures": they become invariants to prove once the code is mended.
5. The nodes' REST routes and the agent's registration with REST, once they are more
   than stubs.
