------------------------- MODULE WebSocketHub_proofs -------------------------
(***************************************************************************)
(* Proofs about the websocket hub, for every set of connections and        *)
(* callers and every queue capacity.                                       *)
(***************************************************************************)
EXTENDS MCWebSocketHub, TLAPS


-----------------------------------------------------------------------------
(* The hub's place is a place, and a loop's record is one.                  *)
HubTypeOK == hub \in HubPlaces

FanRecord == [at : {"idle", "pick", "send", "drop"}, todo : SUBSET Clients,
              cur : Clients \cup {NoClient}, topic : Topics \cup {EveryTopic}]

(* Moving the hub keeps its record well formed.                            *)
LEMMA HubGoesTyped ==
  ASSUME NEW at, NEW c, HubGoes(at, c),
         \/ at \in {"select", "fanout", "ping", "returned"} /\ c = NoClient
         \/ at \in {"register", "welcome", "welcomeDrop", "unregister"} /\ c \in Clients
  PROVE  HubTypeOK'
  BY DEF HubGoes, HubTypeOK, HubPlaces

(* A hub busy with a client is busy with one that exists.                  *)
LEMMA HubHasClient ==
  ASSUME HubTypeOK, hub.at \in {"register", "welcome", "welcomeDrop", "unregister"}
  PROVE  hub.cur \in Clients
  BY DEF HubTypeOK, HubPlaces

(* A loop that has not started is well formed.                             *)
LEMMA NotFanningTyped == NotFanning \in FanRecord
  <1>1. {} \in SUBSET Clients
    OBVIOUS
  <1>2. QED
    BY <1>1 DEF NotFanning, FanRecord

(* Starting, moving and ending a loop keeps its record well formed.        *)
LEMMA FanTyped ==
  ASSUME fan \in [Fans -> FanRecord], clients \subseteq Clients, NEW f \in Fans,
         \/ PickClient(f) \/ EndLoop(f)
         \/ \E at \in {"pick", "drop"} : FanGoes(f, at)
         \/ \E topic \in Topics \cup {EveryTopic} : StartFan(f, topic)
  PROVE  fan' \in [Fans -> FanRecord]
  <1>1. fan[f] \in FanRecord
    OBVIOUS
  <1>2. CASE PickClient(f)
    <2>1. PICK c \in fan[f].todo \cap clients :
            fan' = [fan EXCEPT ![f] = [fan[f] EXCEPT !.at = "send", !.todo = fan[f].todo \ {c}, !.cur = c]]
      BY <1>2 DEF PickClient
    <2> DEFINE r == [fan[f] EXCEPT !.at = "send", !.todo = fan[f].todo \ {c}, !.cur = c]
    <2>2. r \in FanRecord
      BY <1>1, <2>1 DEF FanRecord
    <2>3. fan' = [fan EXCEPT ![f] = r]
      BY <2>1
    <2> HIDE DEF r
    <2>4. QED
      BY <2>2, <2>3
  <1>3. CASE EndLoop(f)
    BY <1>3, NotFanningTyped DEF EndLoop
  <1>4. ASSUME NEW at \in {"pick", "drop"}, FanGoes(f, at) PROVE fan' \in [Fans -> FanRecord]
    <2>1. [fan[f] EXCEPT !.at = at] \in FanRecord
      BY <1>1 DEF FanRecord
    <2>2. QED
      BY <1>4, <2>1 DEF FanGoes
  <1>5. ASSUME NEW topic \in Topics \cup {EveryTopic}, StartFan(f, topic)
        PROVE  fan' \in [Fans -> FanRecord]
    <2>1. [at |-> "pick", todo |-> clients, cur |-> NoClient, topic |-> topic] \in FanRecord
      BY DEF FanRecord
    <2>2. QED
      BY <1>5, <2>1 DEF StartFan
  <1>6. QED
    BY <1>2, <1>3, <1>4, <1>5

(* Every outcome of a send, and every drop, keeps the channels typed.      *)
LEMMA ChannelsTyped ==
  ASSUME clients \subseteq Clients, open \subseteq Clients, queued \in [Clients -> 0..SendCap],
         panic \in {"no", "channel", "map"}, overflow \in BOOLEAN, NEW c,
         \/ (Enqueued(c) \/ SendPanics(c) \/ QueueFull(c)) /\ UNCHANGED <<clients, open>>
         \/ DeleteAndClose(c)
  PROVE  /\ clients' \subseteq Clients /\ open' \subseteq Clients
         /\ queued' \in [Clients -> 0..SendCap]
         /\ panic' \in {"no", "channel", "map"} /\ overflow' \in BOOLEAN
  <1>1. CASE Enqueued(c) /\ UNCHANGED <<clients, open>>
    <2>1. queued[c] + 1 \in 0..SendCap
      BY <1>1, HubAssumption DEF Enqueued
    <2>2. QED
      BY <1>1, <2>1 DEF Enqueued
  <1>2. CASE (SendPanics(c) \/ QueueFull(c)) /\ UNCHANGED <<clients, open>>
    BY <1>2 DEF SendPanics, QueueFull
  <1>3. CASE DeleteAndClose(c)
    BY <1>3 DEF DeleteAndClose
  <1>4. QED
    BY <1>1, <1>2, <1>3

(* What the pumps, the connection, the callers and Stop are doing.         *)
PeersTypeOK ==
  /\ broadcast \in 0..BroadcastCap
  /\ caster \in [Broadcasters -> {"idle", "sending"}]
  /\ handler \in [Clients -> {"none", "registering", "registered"}]
  /\ conn \in [Clients -> {"none", "open", "closed"}]
  /\ reader \in [Clients -> {"none", "reading", "replying", "dropping", "leaving", "done"}]
  /\ writer \in [Clients -> {"none", "running", "done"}]
  /\ subscriptions \in [Clients -> SUBSET Topics]
  /\ stop \in {"no", "closing", "done"}

ChannelsTypeOK ==
  /\ clients \subseteq Clients /\ open \subseteq Clients
  /\ queued \in [Clients -> 0..SendCap]
  /\ panic \in {"no", "channel", "map"} /\ overflow \in BOOLEAN

(* TypeOK, in the four parts its proof treats apart.                       *)
LEMMA TypeParts ==
  TypeOK <=> HubTypeOK /\ fan \in [Fans -> FanRecord] /\ PeersTypeOK /\ ChannelsTypeOK
  BY DEF TypeOK, HubTypeOK, FanRecord, PeersTypeOK, ChannelsTypeOK

(* Queue lengths stay within the capacities of the channels, whatever the  *)
(* senders do, and every goroutine is at one of its places.                *)
THEOREM TypeCorrect == Spec => []TypeOK
  <1>1. Init => TypeOK
    <2> SUFFICES ASSUME Init PROVE TypeOK
      OBVIOUS
    <2>1. HubTypeOK
      <3>1. [at |-> "select", cur |-> NoClient]
              \in [at : {"select", "fanout", "ping", "returned"}, cur : {NoClient}]
        OBVIOUS
      <3>2. QED
        BY <3>1 DEF Init, HubTypeOK, HubPlaces
    <2>2. fan \in [Fans -> FanRecord]
      BY NotFanningTyped DEF Init
    <2>3. PeersTypeOK
      BY HubAssumption DEF Init, PeersTypeOK
    <2>4. queued \in [Clients -> 0..SendCap]
      BY HubAssumption DEF Init
    <2>5. ChannelsTypeOK
      BY <2>4 DEF Init, ChannelsTypeOK
    <2>6. QED
      BY <2>1, <2>2, <2>3, <2>5, TypeParts
  <1>2. TypeOK /\ [Next]_vars => TypeOK'
    <2> SUFFICES ASSUME TypeOK, [Next]_vars PROVE TypeOK'
      OBVIOUS
    <2> USE DEF clientVars, channelVars, hubVars
    <2>1. HubTypeOK /\ fan \in [Fans -> FanRecord] /\ PeersTypeOK /\ ChannelsTypeOK
      BY TypeParts
    <2>3. HubTypeOK'
      <3>1. CASE AddClient \/ Welcome \/ WelcomeDrop \/ RemoveClient \/ ReceiveBroadcast
                 \/ BroadcastDone \/ Tick \/ SendPing \/ HubReturns
        <4>1. CASE AddClient \/ Welcome
          BY <2>1, <3>1, <4>1, HubGoesTyped, HubHasClient DEF AddClient, Welcome, HubTypeOK
        <4>2. CASE WelcomeDrop \/ RemoveClient \/ ReceiveBroadcast \/ BroadcastDone \/ Tick
                   \/ SendPing \/ HubReturns
          BY <4>2, HubGoesTyped DEF WelcomeDrop, RemoveClient, ReceiveBroadcast, BroadcastDone,
             Tick, SendPing, HubReturns
        <4>3. QED
          BY <3>1, <4>1, <4>2
      <3>2. ASSUME NEW c \in Clients, ReceiveRegister(c) \/ ReceiveUnregister(c) PROVE HubTypeOK'
        BY <3>2, HubGoesTyped DEF ReceiveRegister, ReceiveUnregister
      <3>3. CASE UNCHANGED hub
        BY <2>1, <3>3 DEF HubTypeOK
      <3>4. QED
        BY <3>1, <3>2, <3>3 DEF Next, HubStep, vars, FanStep, PickClient, EndLoop, SkipClient,
           SendToFan, DropSlow, StartTopicCast, CallBroadcast, BroadcastSent, ClientStep, PumpStep,
           Upgrade, PeerCloses, ReadTimesOut, Subscribe, PeerAsks, Reply, ReplyDrop, ReadFails,
           WriteMessage, WriterEnds, BeginStop, CloseConnections
    <2>4. fan' \in [Fans -> FanRecord]
      <3>1. CASE ReceiveBroadcast
        BY <2>1, <3>1, FanTyped DEF ReceiveBroadcast, Fans, ChannelsTypeOK
      <3>2. ASSUME NEW f \in Fans, FanStep(f) \/ StartTopicCast(f) PROVE fan' \in [Fans -> FanRecord]
        BY <2>1, <3>2, FanTyped DEF FanStep, SkipClient, SendToFan, DropSlow, StartTopicCast,
           ChannelsTypeOK
      <3>3. CASE UNCHANGED fan
        BY <2>1, <3>3
      <3>4. QED
        BY <3>1, <3>2, <3>3 DEF Next, HubStep, vars, AddClient, Welcome, WelcomeDrop, RemoveClient,
           BroadcastDone, Tick, SendPing, HubReturns, CallBroadcast, BroadcastSent, ClientStep,
           PumpStep, Upgrade, ReceiveRegister, ReceiveUnregister, PeerCloses, ReadTimesOut,
           Subscribe, PeerAsks, Reply, ReplyDrop, ReadFails, WriteMessage, WriterEnds, BeginStop,
           CloseConnections
    <2>5. PeersTypeOK'
      <3> USE DEF PeersTypeOK
      <3>1. CASE AddClient \/ Welcome \/ WelcomeDrop \/ RemoveClient \/ ReceiveBroadcast
                 \/ BroadcastDone \/ Tick \/ SendPing \/ HubReturns
        BY <2>1, <3>1, HubAssumption DEF AddClient, Welcome, WelcomeDrop, RemoveClient,
           ReceiveBroadcast, BroadcastDone, Tick, SendPing, HubReturns
      <3>2. ASSUME NEW f \in Fans, FanStep(f) \/ StartTopicCast(f) PROVE PeersTypeOK'
        BY <2>1, <3>2 DEF FanStep, PickClient, EndLoop, SkipClient, SendToFan, DropSlow, StartTopicCast
      <3>3. ASSUME NEW b \in Broadcasters, CallBroadcast(b) \/ BroadcastSent(b) PROVE PeersTypeOK'
        BY <2>1, <3>3, HubAssumption DEF CallBroadcast, BroadcastSent
      <3>4. ASSUME NEW c \in Clients, ClientStep(c) PROVE PeersTypeOK'
        BY <2>1, <3>4 DEF ClientStep, PumpStep, Upgrade, ReceiveRegister, ReceiveUnregister,
           PeerCloses, ReadTimesOut, Subscribe, PeerAsks, Reply, ReplyDrop, ReadFails, ReaderGoes,
           WriteMessage, WriterEnds, WriterReturns
      <3>5. CASE BeginStop \/ CloseConnections \/ UNCHANGED vars
        BY <2>1, <3>5 DEF BeginStop, CloseConnections, vars
      <3>6. QED
        BY <3>1, <3>2, <3>3, <3>4, <3>5 DEF Next, HubStep
    <2>6. ChannelsTypeOK'
      <3> DEFINE Sends(c) == (Enqueued(c) \/ SendPanics(c) \/ QueueFull(c)) /\ UNCHANGED <<clients, open>>
      <3>1. ASSUME NEW c, Sends(c) \/ DeleteAndClose(c) PROVE ChannelsTypeOK'
        BY <2>1, <3>1, ChannelsTyped DEF ChannelsTypeOK
      <3>2. ASSUME UNCHANGED <<channelVars, panic, overflow>> PROVE ChannelsTypeOK'
        BY <2>1, <3>2 DEF ChannelsTypeOK
      <3>3. CASE AddClient
        BY <2>1, <3>3, HubHasClient DEF AddClient, ChannelsTypeOK
      <3>4. CASE Welcome \/ WelcomeDrop \/ RemoveClient
        BY <3>1, <3>2, <3>4 DEF Welcome, WelcomeDrop, RemoveClient
      <3>5. CASE ReceiveBroadcast \/ BroadcastDone \/ Tick \/ SendPing \/ HubReturns
        BY <3>2, <3>5 DEF ReceiveBroadcast, BroadcastDone, Tick, SendPing, HubReturns
      <3>6. ASSUME NEW f \in Fans, SendToFan(f) PROVE ChannelsTypeOK'
        BY <3>1, <3>6 DEF SendToFan
      <3>7. ASSUME NEW f \in Fans, DropSlow(f) PROVE ChannelsTypeOK'
        BY <2>1, <3>1, <3>7 DEF DropSlow, ChannelsTypeOK
      <3>8. ASSUME NEW f \in Fans, PickClient(f) \/ EndLoop(f) \/ SkipClient(f) \/ StartTopicCast(f)
            PROVE  ChannelsTypeOK'
        BY <3>2, <3>8 DEF PickClient, EndLoop, SkipClient, StartTopicCast
      <3>9. ASSUME NEW c \in Clients, Upgrade(c) \/ WriteMessage(c) PROVE ChannelsTypeOK'
        BY <2>1, <3>9, HubAssumption DEF Upgrade, WriteMessage, ChannelsTypeOK
      <3>10. ASSUME NEW c \in Clients, Reply(c) \/ ReplyDrop(c) PROVE ChannelsTypeOK'
        BY <3>1, <3>10 DEF Reply, ReplyDrop
      <3>11. ASSUME NEW c \in Clients,
                    \/ ReceiveRegister(c) \/ ReceiveUnregister(c) \/ PeerCloses(c) \/ ReadTimesOut(c)
                    \/ Subscribe(c) \/ PeerAsks(c) \/ ReadFails(c) \/ WriterEnds(c)
             PROVE  ChannelsTypeOK'
        BY <3>2, <3>11 DEF ReceiveRegister, ReceiveUnregister, PeerCloses, ReadTimesOut, Subscribe,
           PeerAsks, ReadFails, WriterEnds
      <3>12. ASSUME NEW b \in Broadcasters, CallBroadcast(b) \/ BroadcastSent(b) PROVE ChannelsTypeOK'
        BY <3>2, <3>12 DEF CallBroadcast, BroadcastSent
      <3>13. CASE BeginStop \/ CloseConnections \/ UNCHANGED vars
        BY <2>1, <3>2, <3>13 DEF BeginStop, CloseConnections, vars, ChannelsTypeOK
      <3>14. ASSUME NEW f \in Fans, FanStep(f) \/ StartTopicCast(f) PROVE ChannelsTypeOK'
        BY <3>6, <3>7, <3>8, <3>14 DEF FanStep
      <3>15. ASSUME NEW c \in Clients, ClientStep(c) PROVE ChannelsTypeOK'
        BY <3>9, <3>10, <3>11, <3>15 DEF ClientStep, PumpStep
      <3>16. CASE HubStep \/ Tick
        BY <3>3, <3>4, <3>5, <3>16 DEF HubStep
      <3>17. QED
        BY <3>12, <3>13, <3>14, <3>15, <3>16 DEF Next
    <2>7. QED
      BY <2>3, <2>4, <2>5, <2>6 DEF TypeOK, HubTypeOK, FanRecord, PeersTypeOK, ChannelsTypeOK
  <1>3. QED
    BY <1>1, <1>2, PTL DEF Spec

-----------------------------------------------------------------------------
(* Until a queue is full, every goroutine that may still use a client's    *)
(* channel finds it open: the reader until it has unregistered, the hub    *)
(* while it greets the client, a loop over the map while it stands at the  *)
(* client (the read lock keeps the client in the map).                     *)
NobodyDrops ==
  /\ \A f \in Fans : fan[f].at # "drop"
  /\ \A c \in Clients : reader[c] # "dropping"
  /\ hub.at # "welcomeDrop"

ReadersHaveOpenChannels ==
  \A c \in Clients :
    /\ handler[c] = "none" => reader[c] = "none" /\ c \notin clients
    /\ handler[c] = "registering" => reader[c] = "none" /\ c \in open
    /\ reader[c] \in {"reading", "replying", "leaving"} => c \in open

HubGreetsOpenChannel ==
  hub.at \in {"register", "welcome"} =>
    hub.cur \in Clients /\ reader[hub.cur] \in {"reading", "replying", "leaving"}

HubRemovesFinished ==
  hub.at = "unregister" => hub.cur \in Clients /\ reader[hub.cur] = "done"

LoopsStandAtRegistered == \A f \in Fans : fan[f].at = "send" => fan[f].cur \in clients

OrderlyUse ==
  /\ panic = "no"
  /\ NobodyDrops
  /\ clients \subseteq open
  /\ ReadersHaveOpenChannels
  /\ HubGreetsOpenChannel
  /\ HubRemovesFinished
  /\ LoopsStandAtRegistered
  /\ \A c \in clients : handler[c] = "registered"
  /\ \A c \in Clients : reader[c] # "none" => handler[c] = "registered"

OrderlyUntilOverflow == ~overflow => OrderlyUse

(* overflow is a history variable: nothing clears it.                      *)
LEMMA OverflowStays == ASSUME TypeOK, [Next]_vars, overflow PROVE overflow'
  <1> USE DEF clientVars, channelVars, hubVars
  <1>1. CASE HubStep \/ Tick
    BY <1>1 DEF HubStep, AddClient, Welcome, WelcomeDrop, RemoveClient, ReceiveBroadcast,
       BroadcastDone, Tick, SendPing, HubReturns, Enqueued, SendPanics, QueueFull, DeleteAndClose
  <1>2. ASSUME NEW f \in Fans, FanStep(f) \/ StartTopicCast(f) PROVE overflow'
    BY <1>2 DEF FanStep, PickClient, EndLoop, SkipClient, SendToFan, DropSlow, StartTopicCast,
       Enqueued, SendPanics, QueueFull, DeleteAndClose
  <1>3. ASSUME NEW b \in Broadcasters, CallBroadcast(b) \/ BroadcastSent(b) PROVE overflow'
    BY <1>3 DEF CallBroadcast, BroadcastSent
  <1>4. ASSUME NEW c \in Clients, ClientStep(c) PROVE overflow'
    BY <1>4 DEF ClientStep, PumpStep, Upgrade, ReceiveRegister, ReceiveUnregister, PeerCloses,
       ReadTimesOut, Subscribe, PeerAsks, Reply, ReplyDrop, ReadFails, WriteMessage, WriterEnds,
       Enqueued, SendPanics, QueueFull, DeleteAndClose
  <1>5. CASE BeginStop \/ CloseConnections \/ UNCHANGED vars
    BY <1>5 DEF BeginStop, CloseConnections, vars
  <1>6. QED
    BY <1>1, <1>2, <1>3, <1>4, <1>5 DEF Next

(* A step after which no queue has been found full keeps the order: the    *)
(* only steps that shrink the set of open channels are the hub's removals  *)
(* of clients whose reader is done, and they need the write lock.          *)
LEMMA OrderlyKept ==
  ASSUME TypeOK, [Next]_vars, ~overflow', OrderlyUse
  PROVE  OrderlyUse'
  <1> USE DEF clientVars, channelVars, hubVars, OrderlyUse, NobodyDrops, ReadersHaveOpenChannels,
              HubGreetsOpenChannel, HubRemovesFinished, LoopsStandAtRegistered
  <1>1. CASE HubStep \/ Tick
    <2>1. CASE AddClient
      BY <2>1 DEF AddClient, HubGoes
    <2>2. CASE Welcome
      BY <2>2 DEF Welcome, HubGoes, Enqueued, SendPanics, QueueFull
    <2>3. CASE RemoveClient
      <3>1. hub.cur \in Clients /\ reader[hub.cur] = "done" /\ handler[hub.cur] = "registered"
        BY <2>3 DEF RemoveClient
      <3>2. \A f \in Fans : fan[f].at # "send"
        BY <2>3 DEF RemoveClient, LockFree
      <3>3. QED
        BY <2>3, <3>1, <3>2 DEF RemoveClient, HubGoes, DeleteAndClose
    <2>4. CASE ReceiveBroadcast
      BY <2>4 DEF ReceiveBroadcast, HubGoes, StartFan, Fans, TypeOK
    <2>5. CASE WelcomeDrop \/ BroadcastDone \/ Tick \/ SendPing \/ HubReturns
      BY <2>5 DEF WelcomeDrop, BroadcastDone, Tick, SendPing, HubReturns, HubGoes
    <2>6. QED
      BY <1>1, <2>1, <2>2, <2>3, <2>4, <2>5 DEF HubStep
  <1>2. ASSUME NEW f \in Fans, FanStep(f) \/ StartTopicCast(f) PROVE OrderlyUse'
    <2>1. CASE PickClient(f)
      BY <2>1 DEF PickClient, TypeOK
    <2>2. CASE EndLoop(f) \/ SkipClient(f) \/ DropSlow(f)
      BY <2>2 DEF EndLoop, SkipClient, DropSlow, FanGoes, NotFanning, TypeOK
    <2>3. CASE SendToFan(f)
      <3>1. fan[f].cur \in open /\ FanGoes(f, "pick") /\ UNCHANGED panic
        BY <2>3 DEF SendToFan, Enqueued, SendPanics, QueueFull
      <3>2. QED
        BY <2>3, <3>1 DEF SendToFan, FanGoes, TypeOK
    <2>4. CASE StartTopicCast(f)
      BY <2>4 DEF StartTopicCast, StartFan, TypeOK
    <2>5. QED
      BY <1>2, <2>1, <2>2, <2>3, <2>4 DEF FanStep
  <1>3. ASSUME NEW b \in Broadcasters, CallBroadcast(b) \/ BroadcastSent(b) PROVE OrderlyUse'
    BY <1>3 DEF CallBroadcast, BroadcastSent
  <1>4. ASSUME NEW c \in Clients, ClientStep(c) PROVE OrderlyUse'
    <2>1. CASE Upgrade(c)
      BY <2>1 DEF Upgrade, TypeOK
    <2>2. CASE ReceiveRegister(c)
      BY <2>2 DEF ReceiveRegister, HubGoes, TypeOK
    <2>3. CASE ReceiveUnregister(c)
      BY <2>3 DEF ReceiveUnregister, HubGoes, TypeOK
    <2>4. CASE PeerCloses(c) \/ Subscribe(c) \/ WriteMessage(c) \/ WriterEnds(c)
      BY <2>4 DEF PeerCloses, Subscribe, WriteMessage, WriterEnds
    <2>5. CASE PeerAsks(c) \/ ReadTimesOut(c) \/ ReadFails(c) \/ Reply(c) \/ ReplyDrop(c)
      BY <2>5 DEF PeerAsks, ReadTimesOut, ReadFails, Reply, ReplyDrop, ReaderGoes, TypeOK,
         Enqueued, SendPanics, QueueFull
    <2>6. QED
      BY <1>4, <2>1, <2>2, <2>3, <2>4, <2>5 DEF ClientStep, PumpStep
  <1>5. CASE BeginStop \/ CloseConnections \/ UNCHANGED vars
    BY <1>5 DEF BeginStop, CloseConnections, vars
  <1>6. QED
    BY <1>1, <1>2, <1>3, <1>4, <1>5 DEF Next

(* Until some client is too slow for its queue, nothing panics and every   *)
(* registered client can be sent to.                                       *)
THEOREM SafeUntilOverflow == Spec => []SafeWithoutOverflow
  <1>1. Init => OrderlyUntilOverflow
    BY DEF Init, OrderlyUntilOverflow, OrderlyUse, NobodyDrops, ReadersHaveOpenChannels,
       HubGreetsOpenChannel, HubRemovesFinished, LoopsStandAtRegistered, NotFanning
  <1>2. TypeOK /\ OrderlyUntilOverflow /\ [Next]_vars => OrderlyUntilOverflow'
    BY OverflowStays, OrderlyKept DEF OrderlyUntilOverflow
  <1>3. OrderlyUntilOverflow => SafeWithoutOverflow
    BY DEF OrderlyUntilOverflow, OrderlyUse, SafeWithoutOverflow
  <1>4. QED
    BY <1>1, <1>2, <1>3, TypeCorrect, PTL DEF Spec

-----------------------------------------------------------------------------
(* With peers that only listen and no topic cast, the hub alone closes     *)
(* channels, one at a time: whatever it is about to use or to close is     *)
(* still open, full queues or not.                                         *)
HubAlone ==
  /\ \A f \in Fans : fan[f].at # "idle" => f = Hub /\ hub.at = "fanout"
  /\ \A c \in Clients : reader[c] \notin {"replying", "dropping"}

HubFindsOpen ==
  /\ panic # "channel"
  /\ clients \subseteq open
  /\ \A c \in clients : handler[c] = "registered"
  /\ \A c \in Clients : handler[c] = "registering" => c \in open
  /\ hub.at \in {"register", "welcome", "welcomeDrop"} =>
       hub.cur \in open /\ handler[hub.cur] = "registered"
  /\ fan[Hub].at \in {"send", "drop"} => fan[Hub].cur \in clients

ListenersInv == scene = "listeners" => HubAlone /\ HubFindsOpen

Listens ==
  /\ \A f \in Casters : fan'[f] = fan[f]
  /\ \A c \in Clients : reader'[c] # "replying" /\ subscriptions'[c] = {}

LEMMA HubStaysAlone ==
  ASSUME TypeOK, [Next]_vars, Listens, HubAlone PROVE HubAlone'
  <1> USE DEF clientVars, channelVars, hubVars
  <1>1. \A c \in Clients : reader'[c] \notin {"replying", "dropping"}
    <2>1. ASSUME NEW c \in Clients, reader'[c] = "dropping" PROVE FALSE
      <3>1. ASSUME NEW d \in Clients, ClientStep(d) PROVE FALSE
        <4>1. ~Reply(d) /\ ~ReplyDrop(d)
          BY DEF HubAlone, Reply, ReplyDrop
        <4>2. CASE ReceiveRegister(d) \/ ReceiveUnregister(d) \/ ReadTimesOut(d) \/ PeerAsks(d) \/ ReadFails(d)
          <5>1. PICK at \in {"reading", "done", "leaving", "replying"} : reader' = [reader EXCEPT ![d] = at]
            BY <4>2 DEF ReceiveRegister, ReceiveUnregister, ReadTimesOut, PeerAsks, ReadFails, ReaderGoes
          <5>2. reader[c] # "dropping" /\ reader \in [Clients -> {"none", "reading", "replying", "dropping", "leaving", "done"}]
            BY DEF HubAlone, TypeOK
          <5>3. reader'[c] # "dropping"
            BY <5>1, <5>2
          <5>4. QED
            BY <2>1, <5>3
        <4>3. CASE Upgrade(d) \/ PeerCloses(d) \/ Subscribe(d) \/ WriteMessage(d) \/ WriterEnds(d)
          <5>1. reader' = reader
            BY <4>3 DEF Upgrade, PeerCloses, Subscribe, WriteMessage, WriterEnds
          <5>2. QED
            BY <2>1, <5>1 DEF HubAlone
        <4>4. QED
          BY <3>1, <4>1, <4>2, <4>3 DEF ClientStep, PumpStep
      <3>2. reader' # reader
        BY <2>1 DEF HubAlone
      <3>3. QED
        BY <3>1, <3>2 DEF Next, HubStep, vars, AddClient, Welcome, WelcomeDrop, RemoveClient,
           ReceiveBroadcast, BroadcastDone, Tick, SendPing, HubReturns, FanStep, PickClient, EndLoop,
           SkipClient, SendToFan, DropSlow, StartTopicCast, CallBroadcast, BroadcastSent, BeginStop,
           CloseConnections
    <2>2. QED
      BY <2>1 DEF Listens
  <1>2. ASSUME NEW f \in Fans, fan'[f].at # "idle" PROVE f = Hub /\ hub'.at = "fanout"
    <2>1. f = Hub
      BY <1>2 DEF Fans, Listens, HubAlone
    <2>2. CASE fan[Hub].at # "idle"
      <3>1. hub.at = "fanout"
        BY <2>2 DEF HubAlone, Fans
      <3>2. hub' = hub
        BY <1>2, <2>1, <2>2, <3>1 DEF Next, HubStep, vars, AddClient, Welcome, WelcomeDrop, RemoveClient,
           ReceiveBroadcast, BroadcastDone, Tick, SendPing, HubReturns, FanStep, PickClient, EndLoop,
           SkipClient, SendToFan, DropSlow, StartTopicCast, CallBroadcast, BroadcastSent, BeginStop,
           CloseConnections, ClientStep, PumpStep, Upgrade, ReceiveRegister, ReceiveUnregister,
           PeerCloses, ReadTimesOut, Subscribe, PeerAsks, Reply, ReplyDrop, ReadFails, WriteMessage,
           WriterEnds
      <3>3. QED
        BY <2>1, <3>1, <3>2
    <2>3. CASE fan[Hub].at = "idle"
      <3>1. ReceiveBroadcast
        <4>1. fan'[Hub] # fan[Hub]
          BY <1>2, <2>1, <2>3
        <4>2. ASSUME NEW g \in Fans, FanStep(g) PROVE FALSE
          <5>1. g # Hub
            BY <2>3, <4>2 DEF FanStep, PickClient, EndLoop, SkipClient, SendToFan, DropSlow
          <5>2. \E r : fan' = [fan EXCEPT ![g] = r]
            BY <4>2 DEF FanStep, PickClient, EndLoop, SkipClient, SendToFan, DropSlow, FanGoes
          <5>3. fan'[Hub] = fan[Hub]
            BY <5>1, <5>2 DEF TypeOK, Fans
          <5>4. QED
            BY <4>1, <5>3
        <4>3. ASSUME NEW g \in Fans, StartTopicCast(g) PROVE FALSE
          BY <4>1, <4>3, HubAssumption DEF TypeOK, StartTopicCast, StartFan, Fans
        <4>4. QED
          BY <4>1, <4>2, <4>3 DEF Next, HubStep, vars, AddClient, Welcome, WelcomeDrop, RemoveClient,
             BroadcastDone, Tick, SendPing, HubReturns, CallBroadcast, BroadcastSent, BeginStop,
             CloseConnections, ClientStep, PumpStep, Upgrade, ReceiveRegister, ReceiveUnregister,
             PeerCloses, ReadTimesOut, Subscribe, PeerAsks, Reply, ReplyDrop, ReadFails, WriteMessage,
             WriterEnds
      <3>2. QED
        BY <2>1, <3>1 DEF ReceiveBroadcast, HubGoes
    <2>4. QED
      BY <2>2, <2>3
  <1>3. QED
    BY <1>1, <1>2 DEF HubAlone

LEMMA HubKeepsFindingOpen ==
  ASSUME TypeOK, [Next]_vars, HubAlone, HubAlone', HubFindsOpen PROVE HubFindsOpen'
  <1> USE DEF clientVars, channelVars, hubVars, HubFindsOpen
  <1>0. Hub \in Fans
    BY DEF Fans
  <1>1. CASE HubStep \/ Tick
    <2>1. CASE AddClient
      <3>1. fan[Hub].at = "idle" /\ hub.cur \in open /\ handler[hub.cur] = "registered"
        BY <1>0, <2>1 DEF AddClient, LockFree
      <3>2. QED
        BY <2>1, <3>1 DEF AddClient, HubGoes
    <2>2. CASE Welcome
      BY <2>2 DEF Welcome, HubGoes, Enqueued, SendPanics, QueueFull
    <2>3. CASE WelcomeDrop \/ RemoveClient
      <3>1. fan[Hub].at = "idle"
        BY <1>0, <2>3 DEF WelcomeDrop, RemoveClient, LockFree
      <3>2. CASE DeleteAndClose(hub.cur) /\ (hub.at = "welcomeDrop" \/ hub.cur \in clients)
        <4>1. handler[hub.cur] = "registered" /\ hub.cur \in open
          BY <3>2
        <4>2. QED
          BY <2>3, <3>1, <3>2, <4>1 DEF WelcomeDrop, RemoveClient, HubGoes, DeleteAndClose
      <3>3. CASE UNCHANGED <<channelVars, panic>>
        BY <2>3, <3>1, <3>3 DEF WelcomeDrop, RemoveClient, HubGoes
      <3>4. QED
        BY <2>3, <3>2, <3>3 DEF WelcomeDrop, RemoveClient
    <2>4. CASE ReceiveBroadcast
      BY <1>0, <2>4 DEF ReceiveBroadcast, HubGoes, StartFan, TypeOK
    <2>5. CASE BroadcastDone \/ Tick \/ SendPing \/ HubReturns
      BY <2>5 DEF BroadcastDone, Tick, SendPing, HubReturns, HubGoes
    <2>6. QED
      BY <1>1, <2>1, <2>2, <2>3, <2>4, <2>5 DEF HubStep
  <1>2. ASSUME NEW f \in Fans, FanStep(f) PROVE HubFindsOpen'
    <2>0. f = Hub /\ hub.at = "fanout"
      BY <1>2 DEF HubAlone, FanStep, PickClient, EndLoop, SkipClient, SendToFan, DropSlow
    <2>1. CASE PickClient(f)
      BY <2>0, <2>1 DEF PickClient, TypeOK
    <2>2. CASE EndLoop(f) \/ SkipClient(f)
      BY <2>0, <2>2 DEF EndLoop, SkipClient, FanGoes, NotFanning, TypeOK
    <2>3. CASE SendToFan(f)
      <3>1. fan[f].cur \in open /\ fan[f].cur \in clients
        BY <2>0, <2>3 DEF SendToFan
      <3>2. UNCHANGED panic /\ (FanGoes(f, "pick") \/ FanGoes(f, "drop"))
        BY <2>3, <3>1 DEF SendToFan, Enqueued, SendPanics, QueueFull
      <3>3. fan'[Hub].at \in {"pick", "drop"} /\ fan'[Hub].cur = fan[Hub].cur
        BY <1>0, <2>0, <3>2 DEF FanGoes, TypeOK
      <3>4. QED
        BY <2>0, <2>3, <3>1, <3>2, <3>3 DEF SendToFan
    <2>4. CASE DropSlow(f)
      <3>1. DeleteAndClose(fan[f].cur) /\ fan[f].cur \in clients
        BY <2>0, <2>4 DEF DropSlow, HubAlone
      <3>2. fan'[Hub].at = "pick"
        BY <1>0, <2>0, <2>4 DEF DropSlow, FanGoes, TypeOK
      <3>3. QED
        BY <2>0, <2>4, <3>1, <3>2 DEF DropSlow, DeleteAndClose
    <2>5. QED
      BY <1>2, <2>1, <2>2, <2>3, <2>4 DEF FanStep
  <1>3. ASSUME NEW f \in Fans, StartTopicCast(f) PROVE FALSE
    BY <1>3, HubAssumption DEF HubAlone, StartTopicCast, StartFan, TypeOK
  <1>4. ASSUME NEW b \in Broadcasters, CallBroadcast(b) \/ BroadcastSent(b) PROVE HubFindsOpen'
    BY <1>4 DEF CallBroadcast, BroadcastSent
  <1>5. ASSUME NEW c \in Clients, ClientStep(c) PROVE HubFindsOpen'
    <2>1. CASE Upgrade(c)
      BY <2>1 DEF Upgrade, TypeOK
    <2>2. CASE ReceiveRegister(c)
      BY <2>2 DEF ReceiveRegister, HubGoes, TypeOK
    <2>3. CASE ReceiveUnregister(c)
      BY <2>3 DEF ReceiveUnregister, HubGoes
    <2>4. CASE PeerCloses(c) \/ Subscribe(c) \/ WriteMessage(c) \/ WriterEnds(c) \/ PeerAsks(c)
               \/ ReadTimesOut(c) \/ ReadFails(c)
      BY <2>4 DEF PeerCloses, Subscribe, WriteMessage, WriterEnds, PeerAsks, ReadTimesOut, ReadFails
    <2>5. CASE Reply(c) \/ ReplyDrop(c)
      BY <2>5 DEF HubAlone, Reply, ReplyDrop
    <2>6. QED
      BY <1>5, <2>1, <2>2, <2>3, <2>4, <2>5 DEF ClientStep, PumpStep
  <1>6. CASE BeginStop \/ CloseConnections \/ UNCHANGED vars
    BY <1>6 DEF BeginStop, CloseConnections, vars
  <1>7. QED
    BY <1>1, <1>2, <1>3, <1>4, <1>5, <1>6 DEF Next

(* Peers that only listen, and no topic cast: the hub may drop slow        *)
(* clients, and yet never sends on a closed channel nor closes one twice,  *)
(* whatever the order of upgrades, departures, broadcasts and a Stop.      *)
THEOREM ListenersSafe == MCSpec => []ListenersAreSafe
  <1>1. MCInit => Init /\ ListenersInv
    BY DEF MCInit, Init, ListenersInv, HubAlone, HubFindsOpen, NotFanning, Fans
  <1>2. TypeOK /\ ListenersInv /\ [MCNext]_<<vars, scene>> => ListenersInv'
    <2> SUFFICES ASSUME TypeOK, ListenersInv, [MCNext]_<<vars, scene>>, scene' = "listeners"
                 PROVE  HubAlone' /\ HubFindsOpen'
      BY DEF ListenersInv
    <2>1. scene = "listeners" /\ HubAlone /\ HubFindsOpen /\ [Next]_vars
      BY DEF MCNext, ListenersInv
    <2>2. CASE MCNext
      <3>1. Listens
        BY <2>1, <2>2 DEF MCNext, Listens
      <3>2. QED
        BY <2>1, <3>1, HubStaysAlone, HubKeepsFindingOpen
    <2>3. CASE UNCHANGED <<vars, scene>>
      BY <2>1, <2>3 DEF vars, hubVars, clientVars, channelVars, HubAlone, HubFindsOpen
    <2>4. QED
      BY <2>2, <2>3
  <1>3. ListenersInv => ListenersAreSafe
    BY DEF ListenersInv, HubFindsOpen, ListenersAreSafe, HubOwnsChannels
  <1>4. [MCNext]_<<vars, scene>> => [Next]_vars
    BY DEF MCNext
  <1>5. QED
    BY <1>1, <1>2, <1>3, <1>4, TypeCorrect, PTL DEF MCSpec, Spec

=============================================================================
