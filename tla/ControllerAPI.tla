---------------------------- MODULE ControllerAPI ----------------------------
(***************************************************************************)
(* The controller's two interfaces to its clusters and GPIO devices: REST  *)
(* (internal/api: filters, rate limiter, authentication, cluster handlers) *)
(* and gRPC (internal/grpc/server).  Node calls are in Inventory.          *)
(*                                                                         *)
(* A REST request is filtered, fetches its client's limiter, asks it, is   *)
(* authenticated, and then makes its SQL statements; a gRPC call has no    *)
(* limiter, and only its GPIO calls are authenticated.  Every one of these *)
(* is a step, and the steps of requests interleave.  The server may be     *)
(* killed and started at any time: requests die, the limiters and the      *)
(* secret that signs tokens are new, the database stays.                   *)
(*                                                                         *)
(* GORM is used as in Inventory: Delete marks, Save writes the whole row   *)
(* that was read and takes a mark away, names are unique over all rows.    *)
(***************************************************************************)
EXTENDS RateLimiter, FiniteSets

CONSTANTS
  Whitelisted,  \* RateLimitConfig.WhitelistedIPs
  AuthEnabled,  \* APIConfig.AuthEnabled
  GrpcAuth,     \* whether the gRPC server was given an AuthManager
  TokenLives,   \* AuthConfig: how long the types of tokens live
  Clusters, Names,
  MaxTokens,    \* bound: tokens issued
  MaxBoots,     \* bound: starts of the server
  MaxNow        \* bound: the clock

ASSUME APIAssumption ==
  /\ Whitelisted \subseteq Clients /\ Clusters # {} /\ Names # {}
  /\ AuthEnabled \in BOOLEAN /\ GrpcAuth \in BOOLEAN
  /\ TokenLives \subseteq Nat
  /\ MaxNow \in Nat

VARIABLES
  at,       \* where each request is
  req,      \* the request
  cluster,  \* the rows of clusters
  device,   \* a row of gpio_devices
  reading,  \* the value of its latest reading
  issued,   \* tokens in the hands of clients
  boot,     \* the secret: each start draws its own
  now       \* the wall clock, which is taken to go forward

apiVars == <<cluster, device, reading>>
vars == <<limiterVars, at, req, apiVars, issued, boot, now>>

Roles == {"viewer", "operator", "admin"}
Statuses == {"pending", "active"}
RowStates == {"free", "live", "deleted"}

\* The routes of nodes and GPIO devices have stubs for handlers, and the calls
\* of the service that the server leaves out are Unimplemented.  A preflight,
\* and a path that is no route, change as little as Health does.
Open == {"Health", "Ready"}
Stubs == {"ReadStub", "ChangeStub", "DeleteStub"}
RestOps ==
  Open \cup Stubs \cup {"System", "List", "Get", "Status", "ListNodes", "Create", "Update", "Delete"}
Unimplemented == {"UpdateCluster", "DeleteCluster"}
GrpcOps == Unimplemented \cup {"CreateCluster", "GetCluster", "ListClusters", "ReadGPIO", "WriteGPIO"}
Ops == RestOps \cup GrpcOps
NoToken == [boot |-> 0, role |-> "viewer", exp |-> 0]
Token == [boot : Nat, role : Roles, exp : Nat]

\* setupRoutes, ReadGPIO, WriteGPIO: the role an operation asks for.
Required(op) ==
  CASE op \in {"ChangeStub", "Create", "Update", "WriteGPIO"} -> "operator"
    [] op \in {"DeleteStub", "Delete"} -> "admin"
    [] OTHER -> "viewer"

\* Mutant: an operator may do what asks for an admin.
HasPermission_Generous(role, required) == role # "viewer" \/ required = "viewer"

\* hasPermission, requireRole.
HasPermission(role, required) ==
  \/ role = "admin"
  \/ role = "operator" /\ required \in {"operator", "viewer"}
  \/ role = "viewer" /\ required = "viewer"

\* ValidateToken: signed with this secret, and not expired.
Valid(t) == t # NoToken /\ t.boot = boot /\ now < t.exp

ClusterRow == [state : RowStates, name : Names, status : Statuses]
NoRow == [state |-> "free", name |-> CHOOSE n \in Names : TRUE, status |-> "pending"]

\* What a request carries: a name, a status or a pin value, as it needs.
\* fresh is history: the token had not expired when the request came.
Request ==
  [op : Ops, id : Clusters, name : Names, status : Statuses,
   keepName : BOOLEAN, value : {0, 1}, token : Token, fresh : BOOLEAN,
   row : ClusterRow]

NoRequest ==
  [op |-> "Health", id |-> CHOOSE k \in Clusters : TRUE, name |-> NoRow.name, status |-> "pending",
   keepName |-> TRUE, value |-> 0, token |-> NoToken, fresh |-> FALSE, row |-> NoRow]

TypeOK ==
  /\ LimiterTypeOK
  /\ at \in [Requests -> {"idle", "allow", "auth", "handle", "write", "reading"}]
  /\ req \in [Requests -> Request]
  /\ cluster \in [Clusters -> ClusterRow]
  /\ device \in [kind : {"missing", "inactive", "input", "output"}, value : {0, 1}]
  /\ reading \in {0, 1}
  /\ issued \subseteq Token
  /\ boot \in Nat /\ now \in Nat

Init ==
  /\ LimiterInit
  /\ at = [r \in Requests |-> "idle"]
  /\ req = [r \in Requests |-> NoRequest]
  /\ cluster = [k \in Clusters |-> NoRow]
  /\ device \in [kind : {"missing", "inactive", "input", "output"}, value : {0}]
  /\ reading = 0
  /\ issued = {}
  /\ boot = 1 /\ now = 0

Goto(r, where) == at' = [at EXCEPT ![r] = where]

Finish(r) == Goto(r, "idle") /\ req' = [req EXCEPT ![r] = NoRequest]

-----------------------------------------------------------------------------
(* Arrival.  A request that ValidateRequest refuses changes nothing.       *)

\* What a client may send; what its operation does not need is left out.
Sendable ==
  {q \in [op : Ops, id : Clusters, name : Names, status : Statuses,
          keepName : BOOLEAN, value : {0, 1}, token : issued \cup {NoToken},
          fresh : BOOLEAN, row : {NoRow}] :
     /\ q.fresh = (now < q.token.exp)
     /\ q.keepName \/ q.op = "Update"
     /\ q.name = NoRow.name \/ q.op \in {"Create", "CreateCluster"} \/ ~q.keepName
     /\ q.status = "pending" \/ (q.op = "Update" /\ q.keepName)
     /\ q.value = 0 \/ q.op = "WriteGPIO"}

\* RateLimit lets the whitelisted by and fetches the limiter of the others.
ArriveREST(r) ==
  /\ at[r] = "idle"
  /\ \E q \in Sendable, c \in Clients :
       /\ q.op \in RestOps
       /\ req' = [req EXCEPT ![r] = q]
       /\ IF c \in Whitelisted THEN Goto(r, "auth") /\ UNCHANGED limiterVars
                               ELSE Goto(r, "allow") /\ GetLimiter(r, c)
  /\ UNCHANGED <<apiVars, issued, boot, now>>

ArriveGRPC(r) ==
  /\ at[r] = "idle"
  /\ \E q \in Sendable : q.op \in GrpcOps /\ req' = [req EXCEPT ![r] = q]
  /\ Goto(r, "auth")
  /\ UNCHANGED <<limiterVars, apiVars, issued, boot, now>>

LetThrough(r) ==
  /\ at[r] = "allow"
  /\ Admit(r)
  /\ Goto(r, "auth")
  /\ UNCHANGED <<req, apiVars, issued, boot, now>>

SlowDown(r) ==
  /\ at[r] = "allow"
  /\ Refuse(r)
  /\ Finish(r)
  /\ UNCHANGED <<apiVars, issued, boot, now>>

-----------------------------------------------------------------------------
(* The rest of the middleware: CORS, the router, Auth and RequireRole, or  *)
(* validateAuthentication and requireRole of the gRPC server.              *)

Checked(op) ==
  \/ op \in RestOps \ Open /\ AuthEnabled
  \/ op \in {"ReadGPIO", "WriteGPIO"}

\* NoToken also stands for a request that is not over HTTPS where that is
\* asked for (426), or whose header is malformed.
\* The status that refuses the request, 0 when it is let through.  gRPC's
\* Unauthenticated and PermissionDenied are written as 401 and 403.
Verdict(q) ==
  IF ~Checked(q.op) THEN 0
  ELSE IF (q.op \in GrpcOps /\ ~GrpcAuth) \/ ~Valid(q.token) THEN 401
  ELSE IF ~HasPermission(q.token.role, Required(q.op)) THEN 403
  ELSE 0

Authenticate(r) ==
  /\ at[r] = "auth"
  /\ IF Verdict(req[r]) = 0 THEN Goto(r, "handle") /\ UNCHANGED req ELSE Finish(r)
  /\ UNCHANGED <<limiterVars, apiVars, issued, boot, now>>

-----------------------------------------------------------------------------
(* The handlers.                                                           *)

Live(k) == cluster[k].state = "live"
NameTaken(name, k) == \E j \in Clusters \ {k} : cluster[j].state # "free" /\ cluster[j].name = name

Handling(r, ops, where) == at[r] = where /\ req[r].op \in ops

(* What the handlers that change nothing answer.  A row that is not there  *)
(* is gorm.ErrRecordNotFound, which handleServiceError does not know and   *)
(* the gRPC server does.  ClusterService.Create goes on only when the      *)
(* error of GetByName reads "not found"; it reads "resource not found",    *)
(* which is a 404.  So Create inserts nothing.  The nodes of a cluster     *)
(* that is not there are an empty list.                                    *)
Reply(q) ==
  CASE q.op \in Stubs \cup Unimplemented -> 501
    [] q.op \in {"Get", "Status"} -> IF Live(q.id) THEN 200 ELSE 500
    [] q.op = "GetCluster" -> IF Live(q.id) THEN 200 ELSE 404
    [] q.op = "Create" -> IF \E k \in Clusters : Live(k) /\ cluster[k].name = q.name THEN 409 ELSE 404
    [] OTHER -> 200

Answer(r, ops) ==
  /\ Handling(r, ops, "handle")
  /\ Finish(r)
  /\ UNCHANGED <<limiterVars, apiVars, issued, boot, now>>

\* Ready pings the database, which is open while there are requests.
Health(r) == Answer(r, Open)
System(r) == Answer(r, {"System"})
Stub(r) == Answer(r, Stubs)
LeftOut(r) == Answer(r, Unimplemented)
GetCluster(r) == Answer(r, {"Get", "GetCluster"})
GetStatus(r) == Answer(r, {"Status"})
ListNodes(r) == Answer(r, {"ListNodes"})
ListClusters(r) == Answer(r, {"List", "ListClusters"})
Create(r) == Answer(r, {"Create"})

\* gRPC.  The insertion may fail; it does when no row is left (a bound).
HandleCreateCluster(r) ==
  /\ Handling(r, {"CreateCluster"}, "handle")
  /\ \/ UNCHANGED cluster
     \/ \E k \in Clusters :
          /\ cluster[k].state = "free" /\ ~NameTaken(req[r].name, k)
          /\ cluster' = [cluster EXCEPT ![k] =
               [state |-> "live", name |-> req[r].name, status |-> "pending"]]
  /\ Finish(r)
  /\ UNCHANGED <<limiterVars, device, reading, issued, boot, now>>

\* A row that is not there is no error to Delete.
HandleDelete(r) ==
  /\ Handling(r, {"Delete"}, "handle")
  /\ LET k == req[r].id
     IN  cluster' = IF Live(k) THEN [cluster EXCEPT ![k] = [cluster[k] EXCEPT !.state = "deleted"]]
                               ELSE cluster
  /\ Finish(r)
  /\ UNCHANGED <<limiterVars, device, reading, issued, boot, now>>

ReadCluster(r) ==
  /\ Handling(r, {"Update"}, "handle")
  /\ IF Live(req[r].id)
       THEN /\ req' = [req EXCEPT ![r] = [req[r] EXCEPT !.row = cluster[req[r].id]]]
            /\ Goto(r, "write")
       ELSE Finish(r)
  /\ UNCHANGED <<limiterVars, apiVars, issued, boot, now>>

\* The row with what the request brings: a new name, or a status.
Updated(q) == IF q.keepName THEN [q.row EXCEPT !.status = q.status] ELSE [q.row EXCEPT !.name = q.name]

SaveCluster(r) ==
  /\ Handling(r, {"Update"}, "write")
  /\ cluster' = IF NameTaken(Updated(req[r]).name, req[r].id) THEN cluster
                ELSE [cluster EXCEPT ![req[r].id] = Updated(req[r])]
  /\ Finish(r)
  /\ UNCHANGED <<limiterVars, device, reading, issued, boot, now>>

ReadDevice(r) ==
  /\ Handling(r, {"ReadGPIO", "WriteGPIO"}, "handle")
  /\ IF device.kind \in {"missing", "inactive"} \/ (req[r].op = "WriteGPIO" /\ device.kind # "output")
       THEN Finish(r)
       ELSE /\ req' = [req EXCEPT ![r] = IF req[r].op = "ReadGPIO"
                                           THEN [req[r] EXCEPT !.value = device.value] ELSE req[r]]
            /\ Goto(r, IF req[r].op = "ReadGPIO" THEN "reading" ELSE "write")
  /\ UNCHANGED <<limiterVars, apiVars, issued, boot, now>>

SaveDevice(r) ==
  /\ Handling(r, {"WriteGPIO"}, "write")
  /\ device' = [device EXCEPT !.value = req[r].value]
  /\ Goto(r, "reading")
  /\ UNCHANGED <<limiterVars, req, cluster, reading, issued, boot, now>>

\* The reading may fail to be stored: nobody looks.
RecordReading(r) ==
  /\ at[r] = "reading"
  /\ \E stored \in BOOLEAN : reading' = IF stored THEN req[r].value ELSE reading
  /\ Finish(r)
  /\ UNCHANGED <<limiterVars, cluster, device, issued, boot, now>>

-----------------------------------------------------------------------------
(* GenerateToken, for whoever embeds the AuthManager: the program itself   *)
(* has no route that calls it.                                             *)
IssueToken ==
  /\ Cardinality(issued) < MaxTokens
  /\ \E role \in Roles, life \in TokenLives :
       issued' = issued \cup {[boot |-> boot, role |-> role, exp |-> now + life]}
  /\ UNCHANGED <<limiterVars, at, req, apiVars, boot, now>>

Tick ==
  /\ now < MaxNow
  /\ now' = now + 1
  /\ Second
  /\ UNCHANGED <<at, req, apiVars, issued, boot>>

Restart ==
  /\ boot < MaxBoots
  /\ boot' = boot + 1
  /\ at' = [r \in Requests |-> "idle"]
  /\ req' = [r \in Requests |-> NoRequest]
  /\ LimiterRestart
  /\ UNCHANGED <<apiVars, issued, now>>

Housekeeping ==
  /\ Cleanup \/ BeginCount
  /\ UNCHANGED <<at, req, apiVars, issued, boot, now>>

Handle(r) ==
  \/ Health(r) \/ System(r) \/ Stub(r) \/ LeftOut(r) \/ GetCluster(r) \/ GetStatus(r)
  \/ ListNodes(r) \/ ListClusters(r) \/ Create(r) \/ HandleCreateCluster(r) \/ HandleDelete(r)
  \/ ReadCluster(r) \/ SaveCluster(r)
  \/ ReadDevice(r) \/ SaveDevice(r) \/ RecordReading(r)

Next ==
  \/ \E r \in Requests :
       \/ ArriveREST(r) \/ ArriveGRPC(r)
       \/ LetThrough(r) \/ SlowDown(r) \/ Authenticate(r) \/ Handle(r)
  \/ IssueToken \/ Tick \/ Restart \/ Housekeeping

Spec == Init /\ [][Next]_vars

-----------------------------------------------------------------------------
Rank(role) == CASE role = "viewer" -> 1 [] role = "operator" -> 2 [] role = "admin" -> 3

\* The request showed a token of this boot, still good when the request came,
\* of a role that its operation asks for or a higher one.
Entitled(q) ==
  /\ q.token.boot = boot
  /\ q.fresh
  /\ Rank(q.token.role) >= Rank(Required(q.op))

(* Every change of a row by an authenticated operation is made by a        *)
(* request that was entitled to it, whatever tokens expire, roles other    *)
(* requests have, or restarts happen between its check and its statements. *)
ChangesEntitled ==
  [][\A k \in Clusters :
       /\ (cluster'[k] # cluster[k] /\ cluster[k].state # "free" /\ AuthEnabled) =>
            \E r \in Requests : req[r].op \in {"Update", "Delete"} /\ at'[r] # at[r]
                                /\ req[r].id = k /\ Entitled(req[r])
       /\ (device' # device) =>
            \E r \in Requests : req[r].op = "WriteGPIO" /\ at'[r] # at[r] /\ Entitled(req[r])]_vars

=============================================================================
