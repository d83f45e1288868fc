--------------------------- MODULE MCWebSocketHub ---------------------------
(* Instances of WebSocketHub for TLC. *)
EXTENDS WebSocketHub, TLC

\* Listeners: peers only listen, and there is no topic cast.  Everything: every
\* kind of sender may drop the client.
VARIABLE scene

Scenes == {"listeners", "everything"}

MCInit == Init /\ scene \in Scenes

MCNext ==
  /\ Next
  /\ UNCHANGED scene
  /\ scene = "listeners" =>
       /\ \A f \in Casters : fan'[f] = fan[f]
       /\ \A c \in Clients : reader'[c] # "replying" /\ subscriptions'[c] = {}

MCSpec == MCInit /\ [][MCNext]_<<vars, scene>> /\ Fairness

(* With peers that only listen and no topic casters, dropping slow clients *)
(* in the hub never meets a closed channel: whatever the order of          *)
(* upgrades, departures, broadcasts and a Stop, the map only holds clients *)
(* whose channel is open.                                                  *)
ListenersAreSafe == scene = "listeners" => HubOwnsChannels

-----------------------------------------------------------------------------
(* What a comment or a message of the code says and the code does not do:  *)
(* TLC refutes each of these under the configuration that README.md names  *)
(* ("Departures").  They are kept to be checked when the code is mended.   *)

(* "Close all client connections": once Stop has returned, every client in *)
(* the map has a closed connection.                                        *)
StopClosesConnections == stop = "done" => \A c \in clients : conn[c] = "closed"

(* "Stop gracefully stops the WebSocket server": the readers end.          *)
ReadersEndAfterStop ==
  \A c \in Clients :
    stop = "done" /\ reader[c] = "leaving" ~> reader[c] = "done" \/ panic # "no"

(* "BroadcastMessage broadcasts a message": while the server runs, a call  *)
(* to it returns.                                                          *)
BroadcastReturns ==
  \A b \in Broadcasters :
    caster[b] = "sending" ~> caster[b] = "idle" \/ stop # "no" \/ panic # "no"

=============================================================================
