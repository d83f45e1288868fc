---------------------------- MODULE WebSocketHub ----------------------------
(***************************************************************************)
(* internal/websocket/server.go: the hub goroutine, the two pumps of every *)
(* client, the callers of BroadcastMessage and BroadcastToTopic, and Stop. *)
(*                                                                         *)
(* A client's send channel is a count of queued messages and an open flag; *)
(* sending on it when closed, or closing it twice, panics and ends the     *)
(* process.  The hub removes clients under the write lock, but the two     *)
(* fan-outs drop a slow client under the read lock, which several of them  *)
(* hold at once, and sendToClient sends without any lock.  A fan-out is    *)
(* therefore one step per thing it does to a client: pick it from the map, *)
(* try to send, and (when the queue is full) delete it and close its       *)
(* channel.                                                                *)
(***************************************************************************)
EXTENDS Integers, FiniteSets

CONSTANTS
  Clients,       \* connections that may be upgraded, each once
  Topics,        \* subscription topics
  Broadcasters,  \* goroutines that call BroadcastMessage
  Casters,       \* goroutines that call BroadcastToTopic
  Hub,           \* the hub's own fan-out
  NoClient,      \* no client: not a connection
  EveryTopic,    \* what the hub's fan-out is addressed to: every client
  SendCap,       \* capacity of a client's send channel (256)
  BroadcastCap,  \* capacity of the broadcast channel (256)
  PeersAsk       \* whether peers send messages that are answered

ASSUME HubAssumption ==
  /\ Hub \notin Casters
  /\ NoClient \notin Clients
  /\ EveryTopic \notin Topics
  /\ SendCap \in Nat \ {0}
  /\ BroadcastCap \in Nat \ {0}
  /\ PeersAsk \in BOOLEAN

VARIABLES
  clients,      \* Server.clients
  queued,       \* messages in client.send
  open,         \* the clients whose send channel exists and is not closed
  broadcast,    \* messages in Server.broadcast
  hub,          \* where run() is, and for which client
  fan,          \* the loop over clients of the hub and of each topic caster
  caster,       \* BroadcastMessage callers: "idle" or "sending"
  handler,      \* handleWebSocket: "none", "registering", "registered"
  conn,         \* the connection: "none", "open", "closed"
  reader,       \* readPump
  writer,       \* writePump
  subscriptions,\* topics of each client
  stop,         \* Stop: "no", "closing" (shutdown closed), "done"
  panic,        \* what ended the process: "no", a closed "channel", the "map"
  overflow      \* history: some send found a full queue

hubVars == <<hub, fan, broadcast, caster>>
clientVars == <<handler, conn, reader, writer, subscriptions>>
channelVars == <<clients, queued, open>>
vars == <<hubVars, clientVars, channelVars, stop, panic, overflow>>

Fans == Casters \cup {Hub}

\* The hub's place in run(), with the client it is busy with.
HubPlaces ==
  [at : {"select", "fanout", "ping", "returned"}, cur : {NoClient}]
    \cup [at : {"register", "welcome", "welcomeDrop", "unregister"}, cur : Clients]

TypeOK ==
  /\ clients \subseteq Clients
  /\ queued \in [Clients -> 0..SendCap]
  /\ open \subseteq Clients
  /\ broadcast \in 0..BroadcastCap
  /\ hub \in HubPlaces
  /\ fan \in [Fans -> [at : {"idle", "pick", "send", "drop"},
                       todo : SUBSET Clients,
                       cur : Clients \cup {NoClient},
                       topic : Topics \cup {EveryTopic}]]
  /\ caster \in [Broadcasters -> {"idle", "sending"}]
  /\ handler \in [Clients -> {"none", "registering", "registered"}]
  /\ conn \in [Clients -> {"none", "open", "closed"}]
  /\ reader \in [Clients -> {"none", "reading", "replying", "dropping", "leaving", "done"}]
  /\ writer \in [Clients -> {"none", "running", "done"}]
  /\ subscriptions \in [Clients -> SUBSET Topics]
  /\ stop \in {"no", "closing", "done"}
  /\ panic \in {"no", "channel", "map"}
  /\ overflow \in BOOLEAN

NotFanning == [at |-> "idle", todo |-> {}, cur |-> NoClient, topic |-> EveryTopic]

Init ==
  /\ clients = {}
  /\ queued = [c \in Clients |-> 0]
  /\ open = {}
  /\ broadcast = 0
  /\ hub = [at |-> "select", cur |-> NoClient]
  /\ fan = [f \in Fans |-> NotFanning]
  /\ caster = [b \in Broadcasters |-> "idle"]
  /\ handler = [c \in Clients |-> "none"]
  /\ conn = [c \in Clients |-> "none"]
  /\ reader = [c \in Clients |-> "none"]
  /\ writer = [c \in Clients |-> "none"]
  /\ subscriptions = [c \in Clients |-> {}]
  /\ stop = "no"
  /\ panic = "no"
  /\ overflow = FALSE

-----------------------------------------------------------------------------
(* clientsMux and the send channels.                                       *)

\* Nobody holds the read lock: the write lock can be had.
LockFree == \A f \in Fans : fan[f].at = "idle"

\* The two ways a non-blocking send on client.send goes through.
Enqueued(c) ==
  /\ c \in open
  /\ queued[c] < SendCap
  /\ queued' = [queued EXCEPT ![c] = @ + 1]
  /\ UNCHANGED <<panic, overflow>>

SendPanics(c) ==
  /\ c \notin open
  /\ panic' = "channel"
  /\ UNCHANGED <<queued, overflow>>

\* The default branch of the select: the queue is full.
QueueFull(c) ==
  /\ c \in open
  /\ queued[c] = SendCap
  /\ overflow' = TRUE
  /\ UNCHANGED <<queued, panic>>

\* delete(s.clients, c); close(c.send)
DeleteAndClose(c) ==
  /\ clients' = clients \ {c}
  /\ open' = open \ {c}
  /\ panic' = IF c \in open THEN panic ELSE "channel"
  /\ UNCHANGED <<queued, overflow>>

-----------------------------------------------------------------------------
(* handleWebSocket and the hub's select.                                   *)

Upgrade(c) ==
  /\ handler[c] = "none"
  /\ handler' = [handler EXCEPT ![c] = "registering"]
  /\ conn' = [conn EXCEPT ![c] = "open"]
  /\ open' = open \cup {c}
  /\ UNCHANGED <<hubVars, reader, writer, subscriptions, clients, queued, stop, panic, overflow>>

HubGoes(at, c) == hub' = [at |-> at, cur |-> c]

\* The hub receives the client; the handler goes on to start the pumps.
ReceiveRegister(c) ==
  /\ hub.at = "select"
  /\ handler[c] = "registering"
  /\ HubGoes("register", c)
  /\ handler' = [handler EXCEPT ![c] = "registered"]
  /\ reader' = [reader EXCEPT ![c] = "reading"]
  /\ writer' = [writer EXCEPT ![c] = "running"]
  /\ UNCHANGED <<fan, broadcast, caster, conn, subscriptions, channelVars, stop, panic, overflow>>

AddClient ==
  /\ hub.at = "register"
  /\ LockFree
  /\ clients' = clients \cup {hub.cur}
  /\ HubGoes("welcome", hub.cur)
  /\ UNCHANGED <<fan, broadcast, caster, clientVars, queued, open, stop, panic, overflow>>

\* sendToClient of the welcome message, and its drop under the write lock.
Welcome ==
  /\ hub.at = "welcome"
  /\ \/ Enqueued(hub.cur) /\ HubGoes("select", NoClient)
     \/ SendPanics(hub.cur) /\ UNCHANGED hub
     \/ QueueFull(hub.cur) /\ HubGoes("welcomeDrop", hub.cur)
  /\ UNCHANGED <<fan, broadcast, caster, clientVars, clients, open, stop>>

WelcomeDrop ==
  /\ hub.at = "welcomeDrop"
  /\ LockFree
  /\ DeleteAndClose(hub.cur)
  /\ HubGoes("select", NoClient)
  /\ UNCHANGED <<fan, broadcast, caster, clientVars, stop>>

\* The hub receives from unregister; readPump goes on to close the connection.
ReceiveUnregister(c) ==
  /\ hub.at = "select"
  /\ reader[c] = "leaving"
  /\ HubGoes("unregister", c)
  /\ reader' = [reader EXCEPT ![c] = "done"]
  /\ conn' = [conn EXCEPT ![c] = "closed"]
  /\ UNCHANGED <<fan, broadcast, caster, handler, writer, subscriptions, channelVars,
                 stop, panic, overflow>>

\* Wrong removals: without looking in the map, and without the lock.
RemoveClient_NoLookup ==
  /\ hub.at = "unregister"
  /\ LockFree
  /\ DeleteAndClose(hub.cur)
  /\ HubGoes("select", NoClient)
  /\ UNCHANGED <<fan, broadcast, caster, clientVars, stop>>

RemoveClient_NoLock ==
  /\ hub.at = "unregister"
  /\ IF hub.cur \in clients
       THEN DeleteAndClose(hub.cur)
       ELSE UNCHANGED <<channelVars, panic, overflow>>
  /\ HubGoes("select", NoClient)
  /\ UNCHANGED <<fan, broadcast, caster, clientVars, stop>>

RemoveClient ==
  /\ hub.at = "unregister"
  /\ LockFree
  /\ IF hub.cur \in clients
       THEN DeleteAndClose(hub.cur)
       ELSE UNCHANGED <<channelVars, panic, overflow>>
  /\ HubGoes("select", NoClient)
  /\ UNCHANGED <<fan, broadcast, caster, clientVars, stop>>

StartFan(f, topic) ==
  fan' = [fan EXCEPT ![f] = [at |-> "pick", todo |-> clients, cur |-> NoClient, topic |-> topic]]

ReceiveBroadcast ==
  /\ hub.at = "select"
  /\ broadcast > 0
  /\ broadcast' = broadcast - 1
  /\ HubGoes("fanout", NoClient)
  /\ StartFan(Hub, EveryTopic)
  /\ UNCHANGED <<caster, clientVars, channelVars, stop, panic, overflow>>

BroadcastDone ==
  /\ hub.at = "fanout"
  /\ fan[Hub].at = "idle"
  /\ HubGoes("select", NoClient)
  /\ UNCHANGED <<fan, broadcast, caster, clientVars, channelVars, stop, panic, overflow>>

\* The ticker: the hub itself calls BroadcastMessage, which blocks when the
\* channel only the hub drains is full.
Tick ==
  /\ hub.at = "select"
  /\ HubGoes("ping", NoClient)
  /\ UNCHANGED <<fan, broadcast, caster, clientVars, channelVars, stop, panic, overflow>>

SendPing ==
  /\ hub.at = "ping"
  /\ broadcast < BroadcastCap
  /\ broadcast' = broadcast + 1
  /\ HubGoes("select", NoClient)
  /\ UNCHANGED <<fan, caster, clientVars, channelVars, stop, panic, overflow>>

HubReturns ==
  /\ hub.at = "select"
  /\ stop # "no"
  /\ HubGoes("returned", NoClient)
  /\ UNCHANGED <<fan, broadcast, caster, clientVars, channelVars, stop, panic, overflow>>

-----------------------------------------------------------------------------
(* A loop over s.clients under the read lock.  A client deleted before the *)
(* loop reaches it is not produced.                                        *)

PickClient(f) ==
  /\ fan[f].at = "pick"
  /\ \E c \in fan[f].todo \cap clients :
       fan' = [fan EXCEPT ![f] = [fan[f] EXCEPT !.at = "send", !.todo = fan[f].todo \ {c}, !.cur = c]]
  /\ UNCHANGED <<hub, broadcast, caster, clientVars, channelVars, stop, panic, overflow>>

EndLoop(f) ==
  /\ fan[f].at = "pick"
  /\ fan[f].todo \cap clients = {}
  /\ fan' = [fan EXCEPT ![f] = NotFanning]
  /\ UNCHANGED <<hub, broadcast, caster, clientVars, channelVars, stop, panic, overflow>>

\* The hub sends to every client, a topic caster to the subscribed ones.
Addressed(f, c) == fan[f].topic \in subscriptions[c] \cup {EveryTopic}

FanGoes(f, at) == fan' = [fan EXCEPT ![f] = [@ EXCEPT !.at = at]]

SkipClient(f) ==
  /\ fan[f].at = "send"
  /\ ~Addressed(f, fan[f].cur)
  /\ FanGoes(f, "pick")
  /\ UNCHANGED <<hub, broadcast, caster, clientVars, channelVars, stop, panic, overflow>>

SendToFan(f) ==
  LET c == fan[f].cur IN
  /\ fan[f].at = "send"
  /\ Addressed(f, c)
  /\ \/ (Enqueued(c) \/ SendPanics(c)) /\ FanGoes(f, "pick")
     \/ QueueFull(c) /\ FanGoes(f, "drop")
  /\ UNCHANGED <<hub, broadcast, caster, clientVars, clients, open, stop>>

\* The slow client is deleted under the read lock.  Another loop over the
\* map at the same moment may be caught by the runtime as a concurrent
\* map write, which also ends the process.
DropSlow(f) ==
  LET c == fan[f].cur IN
  /\ fan[f].at = "drop"
  /\ FanGoes(f, "pick")
  /\ \/ DeleteAndClose(c)
     \/ /\ \E g \in Fans \ {f} : fan[g].at # "idle"
        /\ panic' = "map"
        /\ UNCHANGED <<channelVars, overflow>>
  /\ UNCHANGED <<hub, broadcast, caster, clientVars, stop>>

StartTopicCast(f) ==
  /\ f \in Casters
  /\ fan[f].at = "idle"
  /\ \E topic \in Topics : StartFan(f, topic)
  /\ UNCHANGED <<hub, broadcast, caster, clientVars, channelVars, stop, panic, overflow>>

-----------------------------------------------------------------------------
(* BroadcastMessage, called from elsewhere.                                *)

CallBroadcast(b) ==
  /\ caster[b] = "idle"
  /\ caster' = [caster EXCEPT ![b] = "sending"]
  /\ UNCHANGED <<hub, fan, broadcast, clientVars, channelVars, stop, panic, overflow>>

BroadcastSent(b) ==
  /\ caster[b] = "sending"
  /\ broadcast < BroadcastCap
  /\ broadcast' = broadcast + 1
  /\ caster' = [caster EXCEPT ![b] = "idle"]
  /\ UNCHANGED <<hub, fan, clientVars, channelVars, stop, panic, overflow>>

-----------------------------------------------------------------------------
(* readPump and handleMessage.                                             *)

ReaderGoes(c, at) == reader' = [reader EXCEPT ![c] = at]

PeerCloses(c) ==
  /\ conn[c] = "open"
  /\ conn' = [conn EXCEPT ![c] = "closed"]
  /\ UNCHANGED <<hubVars, handler, reader, writer, subscriptions, channelVars, stop, panic, overflow>>

Subscribe(c) ==
  /\ reader[c] = "reading" /\ conn[c] = "open"
  /\ \E topic \in Topics :
       \/ subscriptions' = [subscriptions EXCEPT ![c] = @ \cup {topic}]
       \/ subscriptions' = [subscriptions EXCEPT ![c] = @ \ {topic}]
  /\ UNCHANGED <<hubVars, handler, conn, reader, writer, channelVars, stop, panic, overflow>>

\* A ping, or a message the server answers with an error.
PeerAsks(c) ==
  /\ PeersAsk
  /\ reader[c] = "reading" /\ conn[c] = "open"
  /\ ReaderGoes(c, "replying")
  /\ UNCHANGED <<hubVars, handler, conn, writer, subscriptions, channelVars, stop, panic, overflow>>

\* sendToClient of the answer: a send with no lock held, ...
Reply(c) ==
  /\ reader[c] = "replying"
  /\ \/ (Enqueued(c) \/ SendPanics(c)) /\ ReaderGoes(c, "reading")
     \/ QueueFull(c) /\ ReaderGoes(c, "dropping")
  /\ UNCHANGED <<hubVars, handler, conn, writer, subscriptions, clients, open, stop>>

\* ... and the drop, which closes the channel without looking at the map.
ReplyDrop(c) ==
  /\ reader[c] = "dropping"
  /\ LockFree
  /\ DeleteAndClose(c)
  /\ ReaderGoes(c, "reading")
  /\ UNCHANGED <<hubVars, handler, conn, writer, subscriptions, stop>>

\* Nothing, not even a pong, was read for 60 seconds.
ReadTimesOut(c) ==
  /\ reader[c] = "reading" /\ conn[c] = "open"
  /\ ReaderGoes(c, "leaving")
  /\ UNCHANGED <<hubVars, handler, conn, writer, subscriptions, channelVars, stop, panic, overflow>>

\* A wrong end of readPump that does not unregister.
ReadFails_Silent(c) ==
  /\ reader[c] = "reading" /\ conn[c] = "closed"
  /\ ReaderGoes(c, "done")
  /\ UNCHANGED <<hubVars, handler, conn, writer, subscriptions, channelVars, stop, panic, overflow>>

ReadFails(c) ==
  /\ reader[c] = "reading" /\ conn[c] = "closed"
  /\ ReaderGoes(c, "leaving")
  /\ UNCHANGED <<hubVars, handler, conn, writer, subscriptions, channelVars, stop, panic, overflow>>

-----------------------------------------------------------------------------
(* writePump.                                                              *)

\* A wrong end of writePump that does not close the connection.
WriterReturns_KeepsConn(c) == writer' = [writer EXCEPT ![c] = "done"] /\ UNCHANGED conn

WriterReturns(c) ==
  /\ writer' = [writer EXCEPT ![c] = "done"]
  /\ conn' = [conn EXCEPT ![c] = "closed"]

WriteMessage(c) ==
  /\ writer[c] = "running"
  /\ queued[c] > 0
  /\ queued' = [queued EXCEPT ![c] = @ - 1]
  /\ IF conn[c] = "open" THEN UNCHANGED <<writer, conn>> ELSE WriterReturns(c)
  /\ UNCHANGED <<hubVars, handler, reader, subscriptions, clients, open, stop, panic, overflow>>

\* The channel is closed and drained, or the keepalive ping fails.
WriterEnds(c) ==
  /\ writer[c] = "running"
  /\ (c \notin open /\ queued[c] = 0) \/ conn[c] = "closed"
  /\ WriterReturns(c)
  /\ UNCHANGED <<hubVars, handler, reader, subscriptions, channelVars, stop, panic, overflow>>

-----------------------------------------------------------------------------
(* Stop: close(shutdown), then every connection in the map.                *)

BeginStop ==
  /\ stop = "no"
  /\ stop' = "closing"
  /\ UNCHANGED <<hubVars, clientVars, channelVars, panic, overflow>>

CloseConnections ==
  /\ stop = "closing"
  /\ \/ panic' = panic
     \/ (\E f \in Fans : fan[f].at = "drop") /\ panic' = "map"
  /\ conn' = [c \in Clients |-> IF c \in clients THEN "closed" ELSE conn[c]]
  /\ stop' = "done"
  /\ UNCHANGED <<hubVars, handler, reader, writer, subscriptions, channelVars, overflow>>

-----------------------------------------------------------------------------
HubStep ==
  \/ AddClient \/ Welcome \/ WelcomeDrop \/ RemoveClient
  \/ ReceiveBroadcast \/ BroadcastDone \/ SendPing \/ HubReturns

FanStep(f) ==
  PickClient(f) \/ EndLoop(f) \/ SkipClient(f) \/ SendToFan(f) \/ DropSlow(f)

PumpStep(c) == Reply(c) \/ ReplyDrop(c) \/ ReadFails(c) \/ WriteMessage(c) \/ WriterEnds(c)

ClientStep(c) ==
  \/ Upgrade(c) \/ ReceiveRegister(c) \/ ReceiveUnregister(c)
  \/ PeerCloses(c) \/ ReadTimesOut(c) \/ Subscribe(c) \/ PeerAsks(c) \/ PumpStep(c)

Next ==
  /\ panic = "no"
  /\ \/ HubStep \/ Tick
     \/ \E f \in Fans : FanStep(f) \/ StartTopicCast(f)
     \/ \E b \in Broadcasters : CallBroadcast(b) \/ BroadcastSent(b)
     \/ \E c \in Clients : ClientStep(c)
     \/ BeginStop \/ CloseConnections

Spec == Init /\ [][Next]_vars

\* Goroutines that can go on do.  An RWMutex lets no new reader in while a
\* writer waits, Go's select picks every case that stays ready again and
\* again, and channels serve their waiting senders in turn: what waits for
\* one of these gets it although others take it in between.
Fairness ==
  /\ SF_vars(panic = "no" /\ (AddClient \/ Welcome \/ WelcomeDrop \/ RemoveClient
                        \/ BroadcastDone \/ SendPing))
  /\ SF_vars(panic = "no" /\ ReceiveBroadcast)
  /\ SF_vars(panic = "no" /\ HubReturns)
  /\ \A f \in Fans : WF_vars(panic = "no" /\ FanStep(f))
  /\ \A b \in Broadcasters : SF_vars(panic = "no" /\ BroadcastSent(b))
  /\ \A c \in Clients :
       /\ SF_vars(panic = "no" /\ (Reply(c) \/ ReplyDrop(c) \/ ReadFails(c)
                                  \/ ReceiveUnregister(c)))
       /\ WF_vars(panic = "no" /\ (WriteMessage(c) \/ WriterEnds(c)))
       /\ SF_vars(panic = "no" /\ ReceiveRegister(c))

FairSpec == Spec /\ Fairness

-----------------------------------------------------------------------------
(* No goroutine sends on a closed client channel or closes one twice, and  *)
(* none writes the clients map while another goes through it: the          *)
(* RWMutex "clientsMux" is there for that.                                 *)
NoPanic == panic = "no"

(* With peers that only listen and no topic casters, dropping slow clients *)
(* in the hub never meets a closed channel: whatever the order of          *)
(* upgrades, departures, broadcasts and a Stop, the map only holds clients *)
(* whose channel is open.                                                  *)
HubOwnsChannels == panic # "channel" /\ clients \subseteq open

(* As long as no client was too slow, no order of registrations,           *)
(* departures, broadcasts, casts and answers panics or leaves a client     *)
(* with a closed channel in the map: only the drops of slow clients are    *)
(* unsafe.                                                                 *)
SafeWithoutOverflow == ~overflow => panic = "no" /\ clients \subseteq open

(* A dropped client does not hang on: when its channel is closed, its      *)
(* connection is closed too, once the messages already queued are written. *)
DroppedIsDisconnected ==
  \A c \in Clients :
    writer[c] = "running" /\ c \notin open ~> conn[c] = "closed" \/ panic # "no"

\* The hub waits for room in the channel that only it empties.
HubStuck == hub.at = "ping" /\ broadcast = BroadcastCap

(* While the server runs and its hub is not stuck, a client whose          *)
(* connection is gone leaves the map, however busy the hub is.             *)
GoneIsRemoved ==
  \A c \in Clients :
    conn[c] = "closed" ~> c \notin clients \/ stop # "no" \/ HubStuck \/ panic # "no"

=============================================================================
