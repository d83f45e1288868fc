------------------------------ MODULE Inventory ------------------------------
(***************************************************************************)
(* internal/services (ClusterService, NodeService, GPIOService) and the    *)
(* gRPC handlers beside them, over the tables clusters, nodes and          *)
(* gpio_devices of internal/models.                                        *)
(*                                                                         *)
(* No handler opens a transaction: each runs its queries one by one and    *)
(* then a single Create, Save or Delete.  A step is one SQL statement; the *)
(* statements of concurrent calls interleave.                              *)
(*                                                                         *)
(* The database and GORM, as the code uses them:                           *)
(*  - Delete marks the row, and queries do not see marked rows;            *)
(*  - a name of a marked row still counts in the unique index on names,    *)
(*    while the unique index on a node's pins leaves marked devices out;   *)
(*    a statement that an index refuses changes nothing, and the call      *)
(*    returns its error;                                                   *)
(*  - foreign keys are not enforced;                                       *)
(*  - Save writes every column of the struct that was read earlier.  When  *)
(*    the row has been marked meanwhile, the UPDATE matches nothing and    *)
(*    Save inserts with ON CONFLICT UPDATE, which takes the mark away;     *)
(*  - Save of a node that was read with its live cluster first stores that *)
(*    cluster's ID in cluster_id, whatever the code assigned to it.        *)
(***************************************************************************)
EXTENDS Integers, FiniteSets

CONSTANTS
  Nodes, Clusters, Devices,   \* row IDs, that is, the rows ever inserted
  Names, Addresses, Pins,
  NoCluster,                  \* a NULL cluster_id
  Callers,                    \* concurrent requests
  Calls                       \* the operations they may call

NodeCalls == {"CreateNode", "InsertNode", "UpdateNode", "DeleteNode", "Provision", "Deprovision"}
DeviceCalls == {"CreateDevice", "UpdateDevice", "WriteDevice", "DeleteDevice"}
ClusterCalls == {"InsertCluster", "DeleteCluster"}

ASSUME InventoryAssumption ==
  /\ NoCluster \notin Clusters
  /\ Nodes # {} /\ Names # {} /\ Addresses # {} /\ Pins # {}
  /\ Calls \subseteq NodeCalls \cup DeviceCalls \cup ClusterCalls

RowStates == {"free", "live", "deleted"}
Values == {0, 1}

VARIABLES
  cluster,   \* the rows of clusters: their state
  node,      \* the rows of nodes
  device,    \* the rows of gpio_devices
  call,      \* what each caller is doing
  saved      \* history: per device, the last value and mode a caller stored

inventoryVars == <<cluster, node, device, call, saved>>

\* name, ip_address and cluster_id are what the calls compare and change.
NodeRow == [state : RowStates, name : Names, ip : Addresses, cluster : Clusters \cup {NoCluster}]

\* writable: the device is active and an output.
DeviceRow == [state : RowStates, node : Nodes, pin : Pins, value : Values, writable : BOOLEAN]

\* Requests.  id is the row asked for, new what the request carries (in a
\* node's, cluster is NoCluster when none is given), row what the call has
\* read, preload the live cluster it has read with a node.
NoCall == [op |-> "none"]
NoRow == [state |-> "none"]

NodeFields == [name : Names, ip : Addresses, cluster : Clusters \cup {NoCluster}]
NodeCreations == {"CreateNode", "InsertNode"}
NodeCreation ==
  [op : NodeCreations, at : {"name", "ip", "cluster", "write"}, id : {NoCluster},
   new : NodeFields, row : {NoRow}, preload : {NoCluster}]
NodeChange ==
  [op : NodeCalls \ NodeCreations, at : {"read", "name", "ip", "cluster", "write"},
   id : Nodes, new : NodeFields, row : NodeRow \cup {NoRow}, preload : Clusters \cup {NoCluster}]
DeviceCreation ==
  [op : {"CreateDevice"}, at : {"node", "pin", "write"}, id : {NoCluster},
   new : [node : Nodes, pin : Pins], row : {NoRow}, preload : {NoCluster}]
DeviceChange ==
  [op : DeviceCalls \ {"CreateDevice"}, at : {"read", "write"}, id : Devices,
   new : [value : Values, writable : BOOLEAN], row : DeviceRow \cup {NoRow}, preload : {NoCluster}]

Call == NodeCreation \cup NodeChange \cup DeviceCreation \cup DeviceChange

InventoryTypeOK ==
  /\ cluster \in [Clusters -> RowStates]
  /\ node \in [Nodes -> NodeRow]
  /\ device \in [Devices -> DeviceRow]
  /\ call \in [Callers -> Call \cup {NoCall}]
  /\ saved \in [Devices -> [value : Values, writable : BOOLEAN]]

EmptyNode == [state |-> "free", name |-> CHOOSE s \in Names : TRUE,
              ip |-> CHOOSE a \in Addresses : TRUE, cluster |-> NoCluster]
EmptyDevice == [state |-> "free", node |-> CHOOSE n \in Nodes : TRUE,
                pin |-> CHOOSE p \in Pins : TRUE, value |-> 0, writable |-> TRUE]

InventoryInit ==
  /\ cluster = [k \in Clusters |-> "free"]
  /\ node = [n \in Nodes |-> EmptyNode]
  /\ device = [d \in Devices |-> EmptyDevice]
  /\ call = [c \in Callers |-> NoCall]
  /\ saved = [d \in Devices |-> [value |-> 0, writable |-> TRUE]]

\* Mutant: queries that see marked rows.
LiveNode_Unscoped(n) == node[n].state # "free"

LiveNode(n) == node[n].state = "live"
LiveDevice(d) == device[d].state = "live"
LiveCluster(k) == k # NoCluster /\ cluster[k] = "live"

\* The unique index on nodes.name.
NameFree(name, n) == \A m \in Nodes \ {n} : node[m].state = "free" \/ node[m].name # name

\* Mutant: the index on the pins of a node is left out.
PinFree_NoIndex(n, p, d) == TRUE

\* The unique index on the pins of live devices.
PinFree(n, p, d) ==
  \A e \in Devices \ {d} : ~(LiveDevice(e) /\ device[e].node = n /\ device[e].pin = p)

Finish(c) == call' = [call EXCEPT ![c] = NoCall]
Go(c, at) == call' = [call EXCEPT ![c] = [call[c] EXCEPT !.at = at]]
Doing(c, ops, at) == call[c].op \in ops /\ call[c].at = at

-----------------------------------------------------------------------------
(* Requests begin.                                                         *)

BeginCall(c, op, at, id, new) ==
  /\ op \in Calls
  /\ call[c] = NoCall
  /\ call' = [call EXCEPT ![c] = [op |-> op, at |-> at, id |-> id, new |-> new, row |-> NoRow,
                                 preload |-> NoCluster]]
  /\ UNCHANGED <<cluster, node, device, saved>>

\* Bound: a creation begins while a row is left for every creation begun.
Creating(ops) == {c \in Callers : call[c].op \in ops}
RoomFor(free, ops) == Cardinality(free) > Cardinality(Creating(ops))

\* NodeService.Create checks first; the gRPC handler CreateNode only inserts.
BeginCreateNode(c) ==
  /\ RoomFor({n \in Nodes : node[n].state = "free"}, NodeCreations)
  /\ \E new \in NodeFields : \/ BeginCall(c, "CreateNode", "name", NoCluster, new)
                             \/ BeginCall(c, "InsertNode", "write", NoCluster, new)

BeginNodeCall(c) ==
  \E n \in Nodes, new \in NodeFields :
    /\ node[n].state # "free"
    /\ \/ BeginCall(c, "UpdateNode", "read", n, new)
       \/ new.name = node[n].name /\ new.ip = node[n].ip
          /\ \/ new.cluster # NoCluster /\ BeginCall(c, "Provision", "read", n, new)
             \/ new.cluster = NoCluster /\ BeginCall(c, "Deprovision", "read", n, new)
             \/ new.cluster = NoCluster /\ BeginCall(c, "DeleteNode", "read", n, new)

BeginCreateDevice(c) ==
  /\ RoomFor({d \in Devices : device[d].state = "free"}, {"CreateDevice"})
  /\ \E n \in Nodes, p \in Pins :
       BeginCall(c, "CreateDevice", "node", NoCluster, [node |-> n, pin |-> p])

BeginDeviceCall(c) ==
  \E d \in Devices :
    /\ device[d].state # "free"
    /\ \/ \E v \in Values : BeginCall(c, "WriteDevice", "read", d, [value |-> v, writable |-> TRUE])
       \/ \E w \in BOOLEAN : BeginCall(c, "UpdateDevice", "read", d, [value |-> 0, writable |-> w])
       \/ BeginCall(c, "DeleteDevice", "read", d, [value |-> 0, writable |-> TRUE])

-----------------------------------------------------------------------------
(* Clusters: the one statement each of CreateCluster (gRPC) and Delete.    *)

InsertCluster(k) ==
  /\ "InsertCluster" \in Calls
  /\ cluster[k] = "free"
  /\ cluster' = [cluster EXCEPT ![k] = "live"]
  /\ UNCHANGED <<node, device, call, saved>>

DeleteCluster(k) ==
  /\ "DeleteCluster" \in Calls
  /\ cluster[k] = "live"
  /\ cluster' = [cluster EXCEPT ![k] = "deleted"]
  /\ UNCHANGED <<node, device, call, saved>>

-----------------------------------------------------------------------------
(* Nodes.                                                                  *)

AfterNodeRead(op) ==
  CASE op = "UpdateNode" -> "name"
    [] op = "Provision" -> "cluster"
    [] op \in {"Deprovision", "DeleteNode"} -> "write"

DevicesOn(n) == {d \in Devices : LiveDevice(d) /\ device[d].node = n}

\* Mutant: Delete does not look at the devices.
ReadNode_NoDevices(c) ==
  /\ Doing(c, NodeCalls, "read")
  /\ IF ~LiveNode(call[c].id)
       THEN Finish(c)
       ELSE call' = [call EXCEPT ![c] = [call[c] EXCEPT !.at = AfterNodeRead(call[c].op),
                                                        !.row = node[call[c].id]]]
  /\ UNCHANGED <<cluster, node, device, saved>>

\* GetByID, with the cluster and, for Delete, the devices preloaded.
ReadNode(c) ==
  /\ Doing(c, NodeCalls, "read")
  /\ LET n == call[c].id
         op == call[c].op
     IN  IF ~LiveNode(n) \/ (op = "DeleteNode" /\ DevicesOn(n) # {})
           THEN Finish(c)
           ELSE call' = [call EXCEPT ![c] =
                  [call[c] EXCEPT !.at = AfterNodeRead(op), !.row = node[n],
                     !.preload = IF LiveCluster(node[n].cluster) THEN node[n].cluster ELSE NoCluster]]
  /\ UNCHANGED <<cluster, node, device, saved>>

Changes(c, field) == call[c].op = "CreateNode" \/ call[c].new[field] # call[c].row[field]

\* GetByName, unless the name stays.
CheckName(c) ==
  /\ Doing(c, NodeCalls, "name")
  /\ IF Changes(c, "name") /\ \E n \in Nodes : LiveNode(n) /\ node[n].name = call[c].new.name
       THEN Finish(c) ELSE Go(c, "ip")
  /\ UNCHANGED <<cluster, node, device, saved>>

\* Mutant: an address that changes is not looked up.
CheckIP_OnCreate(c) ==
  /\ Doing(c, NodeCalls, "ip")
  /\ IF call[c].op = "CreateNode" /\ \E n \in Nodes : LiveNode(n) /\ node[n].ip = call[c].new.ip
       THEN Finish(c) ELSE Go(c, "cluster")
  /\ UNCHANGED <<cluster, node, device, saved>>

\* GetByIPAddress, unless the address stays.
CheckIP(c) ==
  /\ Doing(c, NodeCalls, "ip")
  /\ IF Changes(c, "ip") /\ \E n \in Nodes : LiveNode(n) /\ node[n].ip = call[c].new.ip
       THEN Finish(c) ELSE Go(c, "cluster")
  /\ UNCHANGED <<cluster, node, device, saved>>

CheckCluster(c) ==
  /\ Doing(c, NodeCalls, "cluster")
  /\ IF call[c].new.cluster # NoCluster /\ ~LiveCluster(call[c].new.cluster)
       THEN Finish(c) ELSE Go(c, "write")
  /\ UNCHANGED <<cluster, node, device, saved>>

InsertNode(c) ==
  /\ Doing(c, NodeCreations, "write")
  /\ \E n \in Nodes :
       /\ node[n].state = "free"
       /\ node' = IF NameFree(call[c].new.name, n)
                    THEN [node EXCEPT ![n] =
                           [state |-> "live", name |-> call[c].new.name, ip |-> call[c].new.ip,
                            cluster |-> call[c].new.cluster]]
                    ELSE node
  /\ Finish(c)
  /\ UNCHANGED <<cluster, device, saved>>

\* The cluster_id the code assigned, or the preloaded cluster's.
SavedCluster(c) ==
  IF call[c].preload # NoCluster THEN call[c].preload
  ELSE IF call[c].op = "UpdateNode" /\ call[c].new.cluster = NoCluster THEN call[c].row.cluster
  ELSE call[c].new.cluster

SaveNode(c) ==
  /\ Doing(c, {"UpdateNode", "Provision", "Deprovision"}, "write")
  /\ LET n == call[c].id
         fields == IF call[c].op = "UpdateNode" THEN call[c].new ELSE call[c].row
     IN  node' = IF NameFree(fields.name, n)
                   THEN [node EXCEPT ![n] = [state |-> "live", name |-> fields.name,
                                             ip |-> fields.ip, cluster |-> SavedCluster(c)]]
                   ELSE node
  /\ Finish(c)
  /\ UNCHANGED <<cluster, device, saved>>

DeleteNode(c) ==
  /\ Doing(c, {"DeleteNode"}, "write")
  /\ node' = [node EXCEPT ![call[c].id] = [node[call[c].id] EXCEPT !.state = "deleted"]]
  /\ Finish(c)
  /\ UNCHANGED <<cluster, device, saved>>

-----------------------------------------------------------------------------
(* Devices.                                                                *)

CheckNode(c) ==
  /\ Doing(c, {"CreateDevice"}, "node")
  /\ IF LiveNode(call[c].new.node) THEN Go(c, "pin") ELSE Finish(c)
  /\ UNCHANGED <<cluster, node, device, saved>>

\* GetByNodeAndPin.
CheckPin(c) ==
  /\ Doing(c, {"CreateDevice"}, "pin")
  /\ IF \E d \in DevicesOn(call[c].new.node) : device[d].pin = call[c].new.pin
       THEN Finish(c) ELSE Go(c, "write")
  /\ UNCHANGED <<cluster, node, device, saved>>

InsertDevice(c) ==
  /\ Doing(c, {"CreateDevice"}, "write")
  /\ \E d \in Devices :
       /\ device[d].state = "free"
       /\ device' = IF PinFree(call[c].new.node, call[c].new.pin, d)
                      THEN [device EXCEPT ![d] =
                             [state |-> "live", node |-> call[c].new.node, pin |-> call[c].new.pin,
                              value |-> 0, writable |-> TRUE]]
                      ELSE device
  /\ Finish(c)
  /\ UNCHANGED <<cluster, node, saved>>

\* GetByID; a write needs an active output.
ReadDevice(c) ==
  /\ Doing(c, DeviceCalls, "read")
  /\ LET d == call[c].id
     IN  IF ~LiveDevice(d) \/ (call[c].op = "WriteDevice" /\ ~device[d].writable)
           THEN Finish(c)
           ELSE call' = [call EXCEPT ![c] = [call[c] EXCEPT !.at = "write", !.row = device[d]]]
  /\ UNCHANGED <<cluster, node, device, saved>>

\* Mutant: an update that does not read the row first.
SaveDevice_Fresh(c) ==
  /\ Doing(c, {"UpdateDevice", "WriteDevice"}, "write")
  /\ LET d == call[c].id
         new == call[c].new
         row == call[c].row
     IN  IF ~PinFree(row.node, row.pin, d)
           THEN UNCHANGED <<device, saved>>
           ELSE IF call[c].op = "WriteDevice"
           THEN /\ device' = [device EXCEPT ![d] = [row EXCEPT !.value = new.value]]
                /\ saved' = [saved EXCEPT ![d] = [saved[d] EXCEPT !.value = new.value]]
           ELSE /\ device' = [device EXCEPT ![d] = [row EXCEPT !.writable = new.writable, !.value = 0]]
                /\ saved' = [saved EXCEPT ![d] = [saved[d] EXCEPT !.writable = new.writable]]
  /\ Finish(c)
  /\ UNCHANGED <<cluster, node>>

\* A row that was deleted meanwhile comes back, unless its pin was taken.
SaveDevice(c) ==
  /\ Doing(c, {"UpdateDevice", "WriteDevice"}, "write")
  /\ LET d == call[c].id
         new == call[c].new
         row == call[c].row
     IN  IF ~PinFree(row.node, row.pin, d)
           THEN UNCHANGED <<device, saved>>
           ELSE IF call[c].op = "WriteDevice"
           THEN /\ device' = [device EXCEPT ![d] = [row EXCEPT !.value = new.value]]
                /\ saved' = [saved EXCEPT ![d] = [saved[d] EXCEPT !.value = new.value]]
           ELSE /\ device' = [device EXCEPT ![d] = [row EXCEPT !.writable = new.writable]]
                /\ saved' = [saved EXCEPT ![d] = [saved[d] EXCEPT !.writable = new.writable]]
  /\ Finish(c)
  /\ UNCHANGED <<cluster, node>>

\* The readings of the device are deleted by a statement before this one.
DeleteDevice(c) ==
  /\ Doing(c, {"DeleteDevice"}, "write")
  /\ device' = [device EXCEPT ![call[c].id] = [device[call[c].id] EXCEPT !.state = "deleted"]]
  /\ Finish(c)
  /\ UNCHANGED <<cluster, node, saved>>

-----------------------------------------------------------------------------
NodeStep(c) ==
  \/ BeginCreateNode(c) \/ BeginNodeCall(c)
  \/ ReadNode(c) \/ CheckName(c) \/ CheckIP(c) \/ CheckCluster(c)
  \/ InsertNode(c) \/ SaveNode(c) \/ DeleteNode(c)

DeviceStep(c) ==
  \/ BeginCreateDevice(c) \/ BeginDeviceCall(c)
  \/ CheckNode(c) \/ CheckPin(c) \/ InsertDevice(c)
  \/ ReadDevice(c) \/ SaveDevice(c) \/ DeleteDevice(c)

InventoryNext ==
  \/ \E c \in Callers : NodeStep(c) \/ DeviceStep(c)
  \/ \E k \in Clusters : InsertCluster(k) \/ DeleteCluster(k)

InventorySpec == InventoryInit /\ [][InventoryNext]_inventoryVars

-----------------------------------------------------------------------------
(* Names stay unique over all rows, marked ones included: two creations    *)
(* that both found a name free do not both insert it, and a row that comes *)
(* back finds its name still its own.                                      *)
UniqueNames ==
  \A m, n \in Nodes : m # n /\ node[m].state # "free" /\ node[n].state # "free"
                      => node[m].name # node[n].name

(* "Check if node with same IP address already exists": no two nodes of    *)
(* the inventory have the same address.                                    *)
UniqueAddresses ==
  \A m, n \in Nodes : m # n /\ LiveNode(m) /\ LiveNode(n) => node[m].ip # node[n].ip

(* "Check if pin is already in use on this node": one live device per pin. *)
(* Two creations that both found a pin free do not both insert, and a      *)
(* deleted device does not come back to a pin that another one has taken.  *)
OneDevicePerPin ==
  \A d, e \in Devices : d # e /\ LiveDevice(d) /\ LiveDevice(e) /\ device[d].node = device[e].node
                        => device[d].pin # device[e].pin

(* "Check if node has GPIO devices": a device's node is there.             *)
DeviceHasNode == \A d \in Devices : LiveDevice(d) => LiveNode(device[d].node)

(* "Validate cluster exists if provided": a node's cluster is there.       *)
NodeClusterLive ==
  \A n \in Nodes : LiveNode(n) /\ node[n].cluster # NoCluster => cluster[node[n].cluster] = "live"

(* What Write and Update reported as stored is what the row holds, until   *)
(* another call stores something else.                                     *)
DeviceAsSaved ==
  \A d \in Devices : LiveDevice(d) =>
    device[d].value = saved[d].value /\ device[d].writable = saved[d].writable

=============================================================================
