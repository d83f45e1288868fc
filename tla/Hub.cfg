\* Queues of one message: clients are dropped.
SPECIFICATION MCSpec
CONSTANTS
  Clients = {c1}
  Topics = {gpio}
  Broadcasters = {b1}
  Casters = {f1}
  Hub = Hub
  NoClient = NoClient
  EveryTopic = EveryTopic
  SendCap = 1
  BroadcastCap = 1
  PeersAsk = TRUE
INVARIANTS ListenersAreSafe SafeWithoutOverflow
PROPERTIES DroppedIsDisconnected GoneIsRemoved
\* The hub may block for good in its own ping, and all is done after Stop.
CHECK_DEADLOCK FALSE
