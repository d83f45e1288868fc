---------------------------- MODULE MCInventory ----------------------------
(***************************************************************************)
(* Small instances of Inventory.  Rows are interchangeable only in part:   *)
(* Init chooses a node, a name, an address and a pin for the empty rows.   *)
(***************************************************************************)
EXTENDS Inventory, TLC

CONSTANTS n1, n2, k1, d1, d2, r1, r2, name1, name2, ip1, ip2, pin1

RowSymmetry == Permutations(Callers) \cup Permutations(Devices)

\* Alone: one request of NodeService or GPIOService at a time, and no cluster
\* is deleted, since Delete looks for no nodes (cluster.go:96); clusters are
\* created over gRPC, nodes are not.  Together: two requests for nodes and
\* clusters at a time, over both interfaces.  Devices: two requests at a time
\* for the devices of one node.
VARIABLE scene

Scenes == {"alone", "together", "devices"}

\* Bound: of two requests at a time none carries another address, and only
\* Provision carries a cluster.
Plain(q) == q.op \in NodeCalls => q.new.ip = ip1 /\ (q.new.cluster = NoCluster \/ q.op = "Provision")

\* Bound: of two requests at a time for devices, none is an Update, which
\* saves the row as Write does.
AboutDevices(q) ==
  \/ q.op \in DeviceCalls \ {"UpdateDevice"}
  \/ q.op = "InsertNode" /\ Plain(q) /\ q.new.name = name1

MCInit == InventoryInit /\ scene \in Scenes

MCNext ==
  /\ InventoryNext
  /\ UNCHANGED scene
  /\ CASE scene = "alone" ->
            /\ \A c, d \in Callers : call'[c] # NoCall /\ call'[d] # NoCall => c = d
            /\ \A c \in Callers : call'[c].op # "InsertNode"
            /\ \A k \in Clusters : cluster'[k] # "deleted"
       [] scene = "together" ->
            \A c \in Callers : call'[c].op \notin DeviceCalls /\ (call'[c] = NoCall \/ Plain(call'[c]))
       [] scene = "devices" ->
            \A c \in Callers : call'[c] = NoCall \/ AboutDevices(call'[c])

MCSpec == MCInit /\ [][MCNext]_<<inventoryVars, scene>>

(* Names stay unique, and a pin has one live device, whoever interleaves,  *)
(* also when rows come back.  One request at a time leaves no two nodes    *)
(* with one address: what sets it looks first.                             *)
OneOfEach == UniqueNames /\ OneDevicePerPin /\ (scene = "alone" => UniqueAddresses)

(* One request at a time leaves every device a node that is there, and,    *)
(* while no cluster is deleted, every node in a cluster that is there or   *)
(* in none, through every sequence of creations, moves and deletions of    *)
(* nodes and devices.                                                      *)
ReferencesLive == scene = "alone" => DeviceHasNode /\ NodeClusterLive

(* One request at a time, a row holds what was last reported as stored.    *)
SavedIsKept == scene = "alone" => DeviceAsSaved

(* One request at a time, a node or device that was deleted stays deleted, *)
(* although a Save of its row would take the mark away.                    *)
DeletedStaysDeleted ==
  [][scene = "alone" =>
       /\ \A n \in Nodes : node[n].state = "deleted" => node'[n].state = "deleted"
       /\ \A d \in Devices : device[d].state = "deleted" => device'[d].state = "deleted"]_<<inventoryVars, scene>>

-----------------------------------------------------------------------------
(* What a comment or a message of the code says and the code does not do:  *)
(* see README.md, "Departures".                                            *)

(* "Deprovision removes a node from its cluster."                          *)
DeprovisionLeavesCluster ==
  [][\A c \in Callers : Doing(c, {"Deprovision"}, "write") /\ call'[c] = NoCall
       => node'[call[c].id].cluster = NoCluster]_inventoryVars

=============================================================================
