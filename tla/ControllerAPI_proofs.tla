------------------------ MODULE ControllerAPI_proofs ------------------------
(***************************************************************************)
(* Proofs about ControllerAPI and its rate limiter, for any number of      *)
(* clients, requests and clusters.                                         *)
(***************************************************************************)
EXTENDS ControllerAPI, TLAPS

\* The tokens a client can count on: a limiter it has not got yet is full.
Level(c) == IF limiter[c] = None THEN Burst ELSE tokens[limiter[c]]

\* Two clients share no limiter, and a limiter in the table is held only by
\* requests of its client.
NotShared ==
  /\ \A c, d \in Clients : limiter[c] # None /\ limiter[c] = limiter[d] => c = d
  /\ \A r \in Requests, c \in Clients : held[r] # None /\ held[r] = limiter[c] => who[r] = c
  /\ \A r \in Requests : held[r] # None => who[r] \in Clients

\* What was let through and what still may be is within the budget.
Balance == \A c \in Clients : admitted[c] + Level(c) <= Burst + seconds + overtaken[c]

LimiterInv == LimiterTypeOK /\ NotShared /\ Balance

LEMMA LimiterInitially == ASSUME LimiterInit PROVE LimiterInv
BY LimiterAssumption DEF LimiterInit, LimiterInv, LimiterTypeOK, NotShared, Balance, Level

LEMMA GetLimiterKeeps ==
  ASSUME LimiterInv, NEW r \in Requests, NEW c \in Clients, GetLimiter(r, c) PROVE LimiterInv'
<1> USE LimiterAssumption
<1>0. /\ held[r] = None
      /\ who' = [who EXCEPT ![r] = c]
      /\ UNCHANGED <<sinceClean, admitted, overtaken, seconds>>
  BY DEF GetLimiter, history
<1>1. CASE limiter[c] # None /\ held' = [held EXCEPT ![r] = limiter[c]] /\ UNCHANGED <<limiter, tokens>>
  <2>1. LimiterTypeOK' BY <1>0, <1>1 DEF LimiterInv, LimiterTypeOK
  <2>2. NotShared' BY <1>0, <1>1 DEF LimiterInv, LimiterTypeOK, NotShared
  <2>3. Balance' BY <1>0, <1>1 DEF LimiterInv, LimiterTypeOK, Balance, Level
  <2> QED BY <2>1, <2>2, <2>3 DEF LimiterInv
<1>2. ASSUME NEW l \in Limiters, limiter[c] = None, Unused(l),
             limiter' = [limiter EXCEPT ![c] = l], tokens' = [tokens EXCEPT ![l] = Burst],
             held' = [held EXCEPT ![r] = l]
      PROVE  LimiterInv'
  <2>1. LimiterTypeOK' BY <1>0, <1>2 DEF LimiterInv, LimiterTypeOK
  <2>2. NotShared' BY <1>0, <1>2 DEF LimiterInv, LimiterTypeOK, NotShared, Unused
  <2>3. \A d \in Clients : Level(d)' = Level(d)
    BY <1>0, <1>2 DEF LimiterInv, LimiterTypeOK, Level, Unused
  <2>4. Balance' BY <1>0, <2>3 DEF LimiterInv, LimiterTypeOK, Balance
  <2> QED BY <2>1, <2>2, <2>4 DEF LimiterInv
<1> QED BY <1>1, <1>2 DEF GetLimiter

LEMMA AdmitKeeps == ASSUME LimiterInv, NEW r \in Requests, Admit(r) PROVE LimiterInv'
<1> USE LimiterAssumption
<1> DEFINE l == held[r]
           c == who[r]
<1>0. /\ l \in Limiters /\ c \in Clients /\ tokens[l] > 0
      /\ tokens' = [tokens EXCEPT ![l] = tokens[l] - 1]
      /\ held' = [held EXCEPT ![r] = None] /\ who' = [who EXCEPT ![r] = None]
      /\ admitted' = [admitted EXCEPT ![c] = admitted[c] + 1]
      /\ overtaken' = [overtaken EXCEPT ![c] =
                         IF l # limiter[c] THEN overtaken[c] + 1 ELSE overtaken[c]]
      /\ UNCHANGED <<limiter, sinceClean, seconds>>
  BY DEF Admit, Forget, Overtaken, LimiterInv, LimiterTypeOK, NotShared
<1>1. LimiterTypeOK' BY <1>0 DEF LimiterInv, LimiterTypeOK
<1>2. NotShared' BY <1>0 DEF LimiterInv, LimiterTypeOK, NotShared
<1>3. ASSUME NEW d \in Clients
      PROVE  admitted'[d] + Level(d)' <= Burst + seconds' + overtaken'[d]
  <2>1. CASE d # c
    <3>1. Level(d)' = Level(d) BY <1>0, <2>1 DEF LimiterInv, LimiterTypeOK, NotShared, Level
    <3> QED BY <1>0, <2>1, <3>1 DEF LimiterInv, LimiterTypeOK, Balance
  <2>2. CASE d = c /\ l = limiter[c]
    <3>1. Level(d)' = Level(d) - 1 BY <1>0, <2>2 DEF LimiterInv, LimiterTypeOK, Level
    <3>2. Level(d) \in Int BY <1>0, <2>2 DEF LimiterInv, LimiterTypeOK, Level
    <3> QED BY <1>0, <2>2, <3>1, <3>2 DEF LimiterInv, LimiterTypeOK, Balance
  <2>3. CASE d = c /\ l # limiter[c]
    <3>1. Level(d)' = Level(d) /\ Level(d) \in Int
      BY <1>0, <2>3 DEF LimiterInv, LimiterTypeOK, Level
    <3> QED BY <1>0, <2>3, <3>1 DEF LimiterInv, LimiterTypeOK, Balance
  <2> QED BY <2>1, <2>2, <2>3
<1> QED BY <1>1, <1>2, <1>3 DEF LimiterInv, Balance

LEMMA RefuseKeeps == ASSUME LimiterInv, NEW r \in Requests, Refuse(r) PROVE LimiterInv'
<1>0. /\ held' = [held EXCEPT ![r] = None] /\ who' = [who EXCEPT ![r] = None]
      /\ UNCHANGED <<limiter, tokens, sinceClean, admitted, overtaken, seconds>>
  BY DEF Refuse, Forget, history
<1>1. LimiterTypeOK' BY <1>0 DEF LimiterInv, LimiterTypeOK
<1>2. NotShared' BY <1>0, LimiterAssumption DEF LimiterInv, LimiterTypeOK, NotShared
<1>3. Balance' BY <1>0 DEF LimiterInv, Balance, Level
<1> QED BY <1>1, <1>2, <1>3 DEF LimiterInv

LEMMA SecondKeeps == ASSUME LimiterInv, Second PROVE LimiterInv'
<1> USE LimiterAssumption
<1>0. /\ seconds < MaxSeconds /\ seconds' = seconds + 1
      /\ tokens' = [l \in Limiters |-> IF tokens[l] < Burst THEN tokens[l] + 1 ELSE Burst]
      /\ sinceClean' = IF sinceClean <= CleanupInterval THEN sinceClean + 1 ELSE sinceClean
      /\ UNCHANGED <<limiter, held, who, admitted, overtaken>>
  BY DEF Second
<1>1. LimiterTypeOK' BY <1>0 DEF LimiterInv, LimiterTypeOK
<1>2. NotShared' BY <1>0 DEF LimiterInv, NotShared
<1>3. \A c \in Clients : Level(c) \in Int /\ Level(c)' \in Int /\ Level(c)' <= Level(c) + 1
  BY <1>0 DEF LimiterInv, LimiterTypeOK, Level
<1>4. Balance' BY <1>0, <1>3 DEF LimiterInv, LimiterTypeOK, Balance
<1> QED BY <1>1, <1>2, <1>4 DEF LimiterInv

LEMMA CleanupKeeps == ASSUME LimiterInv, Cleanup PROVE LimiterInv'
<1> USE LimiterAssumption
<1>0. PICK late \in {sinceClean > CleanupInterval, TRUE} :
        limiter' = [c \in Clients |-> IF Inactive(c) /\ late THEN None ELSE limiter[c]]
  BY DEF Cleanup
<1>a. sinceClean' = 0 /\ UNCHANGED <<tokens, held, who, admitted, overtaken, seconds>>
  BY DEF Cleanup, history
<1>b. \A c \in Clients : limiter'[c] = limiter[c] \/ (limiter'[c] = None /\ Inactive(c))
  BY <1>0
<1>1. LimiterTypeOK'
  <2>1. limiter' \in [Clients -> Limiters \cup {None}] BY <1>0 DEF LimiterInv, LimiterTypeOK
  <2> QED BY <1>a, <2>1 DEF LimiterInv, LimiterTypeOK
<1>2. NotShared' BY <1>a, <1>b DEF LimiterInv, NotShared
<1>3. \A c \in Clients : Level(c)' = Level(c)
  BY <1>a, <1>b DEF LimiterInv, LimiterTypeOK, Level, Inactive
<1>4. Balance' BY <1>a, <1>3 DEF LimiterInv, Balance
<1> QED BY <1>1, <1>2, <1>4 DEF LimiterInv

LEMMA BeginCountKeeps == ASSUME LimiterInv, BeginCount PROVE LimiterInv'
<1> USE LimiterAssumption
<1>1. LimiterTypeOK' BY DEF BeginCount, LimiterInv, LimiterTypeOK
<1>2. NotShared' BY DEF BeginCount, LimiterInv, NotShared
<1>3. Balance' BY DEF BeginCount, LimiterInv, LimiterTypeOK, Balance, Level
<1> QED BY <1>1, <1>2, <1>3 DEF LimiterInv

LEMMA LimiterRestartKeeps == ASSUME LimiterInv, LimiterRestart PROVE LimiterInv'
<1> USE LimiterAssumption
<1>1. LimiterTypeOK' BY DEF LimiterRestart, LimiterInv, LimiterTypeOK
<1>2. NotShared' BY DEF LimiterRestart, LimiterInv, NotShared
<1>3. Balance' BY DEF LimiterRestart, LimiterInv, LimiterTypeOK, Balance, Level
<1> QED BY <1>1, <1>2, <1>3 DEF LimiterInv

LEMMA UnchangedKeepsLimiter == ASSUME LimiterInv, UNCHANGED limiterVars PROVE LimiterInv'
BY DEF limiterVars, history, LimiterInv, LimiterTypeOK, NotShared, Balance, Level

\* What each step of the interface does to the limiter.
LEMMA LimiterStep == ASSUME LimiterInv, [Next]_vars PROVE LimiterInv'
<1>1. ASSUME NEW r \in Requests, ArriveREST(r) PROVE LimiterInv'
  BY <1>1, GetLimiterKeeps, UnchangedKeepsLimiter DEF ArriveREST
<1>2. ASSUME NEW r \in Requests, LetThrough(r) PROVE LimiterInv'
  BY <1>2, AdmitKeeps DEF LetThrough
<1>3. ASSUME NEW r \in Requests, SlowDown(r) PROVE LimiterInv'
  BY <1>3, RefuseKeeps DEF SlowDown
<1>4. ASSUME NEW r \in Requests, ArriveGRPC(r) \/ Authenticate(r) \/ Handle(r) PROVE LimiterInv'
  BY <1>4, UnchangedKeepsLimiter
  DEF ArriveGRPC, Authenticate, Handle, Answer, Health, System, Stub, LeftOut, GetCluster, GetStatus,
      ListNodes, ListClusters, Create, HandleCreateCluster, HandleDelete, ReadCluster, SaveCluster,
      ReadDevice, SaveDevice, RecordReading
<1>5. CASE IssueToken \/ UNCHANGED vars BY <1>5, UnchangedKeepsLimiter DEF IssueToken, vars
<1>6. CASE Tick BY <1>6, SecondKeeps DEF Tick
<1>7. CASE Restart BY <1>7, LimiterRestartKeeps DEF Restart
<1>8. CASE Housekeeping BY <1>8, CleanupKeeps, BeginCountKeeps DEF Housekeeping
<1> QED BY <1>1, <1>2, <1>3, <1>4, <1>5, <1>6, <1>7, <1>8 DEF Next

(* In any period a client is let through within its budget, for any        *)
(* numbers of clients, requests and seconds (ratelimit.go).                *)
THEOREM ClientsWithinBudget == Spec => []WithinBudget
<1>1. Init => LimiterInv BY LimiterInitially DEF Init
<1>2. LimiterInv /\ [Next]_vars => LimiterInv' BY LimiterStep
<1>3. LimiterInv => WithinBudget
  <2> SUFFICES ASSUME LimiterInv, NEW c \in Clients
               PROVE  admitted[c] <= Burst + seconds + overtaken[c]
    BY DEF WithinBudget
  <2>1. Level(c) \in Int /\ Level(c) >= 0
    BY LimiterAssumption DEF LimiterInv, LimiterTypeOK, Level
  <2>2. admitted[c] \in Int /\ overtaken[c] \in Int /\ seconds \in Int /\ Burst \in Int
    BY LimiterAssumption DEF LimiterInv, LimiterTypeOK
  <2>3. admitted[c] + Level(c) <= Burst + seconds + overtaken[c]
    BY DEF LimiterInv, Balance
  <2> QED BY <2>1, <2>2, <2>3
<1> QED BY <1>1, <1>2, <1>3, PTL DEF Spec

-----------------------------------------------------------------------------
(* Who changes a row.                                                      *)

\* What the proof asks of the types: TypeOK without the limiter.
Typed ==
  /\ at \in [Requests -> {"idle", "allow", "auth", "handle", "write", "reading"}]
  /\ req \in [Requests -> Request]
  /\ cluster \in [Clusters -> ClusterRow]
  /\ device \in [kind : {"missing", "inactive", "input", "output"}, value : {0, 1}]
  /\ issued \subseteq Token
  /\ boot \in Nat /\ now \in Nat

\* A token that is good now was good when the request came.
StillFresh == \A r \in Requests : now < req[r].token.exp => req[r].fresh

\* What has passed its check was entitled to pass.
PassedIsEntitled ==
  \A r \in Requests :
    at[r] \in {"handle", "write", "reading"} /\ Checked(req[r].op) => Entitled(req[r])

EntitledInv == Typed /\ StillFresh /\ PassedIsEntitled

LEMMA NoRowTyped == NoRow \in ClusterRow
BY APIAssumption DEF APIAssumption, NoRow, ClusterRow, RowStates, Statuses

LEMMA NoRequestTyped == NoRequest \in Request
<1>1. (CHOOSE k \in Clusters : TRUE) \in Clusters
  BY APIAssumption DEF APIAssumption
<1>2. NoRow.name \in Names
  BY NoRowTyped DEF ClusterRow
<1>3. NoToken \in Token
  BY DEF NoToken, Token, Roles
<1>4. "Health" \in Ops
  BY DEF Ops, RestOps, Open
<1> QED
  BY <1>1, <1>2, <1>3, <1>4, NoRowTyped DEF NoRequest, Request, Statuses

\* A role that hasPermission lets by is as high as the role that is asked for.
LEMMA PermissionIsRank ==
  ASSUME NEW role \in Roles, NEW op, HasPermission(role, Required(op))
  PROVE  Rank(role) >= Rank(Required(op))
<1>1. Required(op) \in Roles
  BY DEF Required, Roles
<1>2. CASE role = "admin"
  BY <1>1, <1>2 DEF Rank, Roles
<1>3. CASE role = "operator" /\ Required(op) \in {"operator", "viewer"}
  BY <1>3 DEF Rank
<1>4. CASE role = "viewer" /\ Required(op) = "viewer"
  BY <1>4 DEF Rank
<1> QED
  BY <1>2, <1>3, <1>4 DEF HasPermission

LEMMA EntitledInitially == ASSUME Init PROVE EntitledInv
<1>1. Typed
  BY NoRowTyped, NoRequestTyped DEF Init, Typed
<1>2. StillFresh
  BY DEF Init, StillFresh, NoRequest, NoToken
<1>3. PassedIsEntitled
  BY DEF Init, PassedIsEntitled
<1> QED
  BY <1>1, <1>2, <1>3 DEF EntitledInv

\* A request that ends leaves what is asked of the others.
LEMMA FinishKeeps ==
  ASSUME EntitledInv, NEW r \in Requests, Finish(r), cluster' \in [Clusters -> ClusterRow],
         UNCHANGED <<device, issued, boot, now>>
  PROVE  EntitledInv'
<1>1. Typed'
  BY NoRequestTyped DEF EntitledInv, Typed, Finish, Goto
<1>2. StillFresh'
  <2> SUFFICES ASSUME NEW q \in Requests, now < req'[q].token.exp PROVE req'[q].fresh
    BY DEF StillFresh
  <2>1. CASE q = r
    BY <2>1 DEF EntitledInv, Typed, Finish, NoRequest, NoToken
  <2>2. CASE q # r
    BY <2>2 DEF EntitledInv, Typed, Finish, StillFresh
  <2> QED
    BY <2>1, <2>2
<1>3. PassedIsEntitled'
  <2> SUFFICES ASSUME NEW q \in Requests, at'[q] \in {"handle", "write", "reading"},
                      Checked(req'[q].op)
               PROVE  Entitled(req[q])'
    BY DEF PassedIsEntitled, Checked
  <2>1. q # r /\ req'[q] = req[q] /\ at'[q] = at[q]
    BY DEF EntitledInv, Typed, Finish, Goto
  <2> QED
    BY <2>1 DEF EntitledInv, PassedIsEntitled, Entitled
<1> QED
  BY <1>1, <1>2, <1>3 DEF EntitledInv

\* So does a request that goes on, with what it carries but for a value or a
\* row, and is still past its check, or is not yet.
LEMMA MoveKeeps ==
  ASSUME EntitledInv, NEW r \in Requests, Typed', UNCHANGED <<boot, now>>,
         \A q \in Requests \ {r} : at'[q] = at[q] /\ req'[q] = req[q],
         req'[r].op = req[r].op, req'[r].token = req[r].token, req'[r].fresh = req[r].fresh,
         at[r] \in {"handle", "write", "reading"} \/ at'[r] \notin {"handle", "write", "reading"}
  PROVE  EntitledInv'
<1>1. StillFresh'
  BY DEF EntitledInv, StillFresh
<1>2. PassedIsEntitled'
  <2> SUFFICES ASSUME NEW q \in Requests, at'[q] \in {"handle", "write", "reading"},
                      Checked(req'[q].op)
               PROVE  Entitled(req[q])'
    BY DEF PassedIsEntitled, Checked
  <2>1. at[q] \in {"handle", "write", "reading"} /\ Checked(req[q].op)
    BY DEF Checked
  <2>2. Entitled(req[q])
    BY <2>1 DEF EntitledInv, PassedIsEntitled
  <2>3. req'[q].op = req[q].op /\ req'[q].token = req[q].token /\ req'[q].fresh = req[q].fresh
    OBVIOUS
  <2> QED
    BY <2>2, <2>3 DEF Entitled
<1> QED
  BY <1>1, <1>2 DEF EntitledInv

\* A request that comes: its token is as fresh as it says, and it has passed
\* no check.
LEMMA ArrivalKeeps ==
  ASSUME EntitledInv, NEW r \in Requests, NEW q \in Sendable, req' = [req EXCEPT ![r] = q],
         Goto(r, "auth") \/ Goto(r, "allow"), UNCHANGED <<apiVars, issued, boot, now>>
  PROVE  EntitledInv'
<1>1. q \in Request /\ (now < q.token.exp => q.fresh)
  <2>1. q.token \in Token
    BY DEF EntitledInv, Typed, Sendable, NoToken, Token, Roles
  <2> QED
    BY <2>1, NoRowTyped DEF Sendable, Request
<1>2. Typed'
  BY <1>1 DEF EntitledInv, Typed, Goto, apiVars
<1>3. \A p \in Requests : req'[p] = IF p = r THEN q ELSE req[p]
  BY DEF EntitledInv, Typed
<1>4. StillFresh'
  BY <1>1, <1>3 DEF EntitledInv, StillFresh
<1>5. PassedIsEntitled'
  <2> SUFFICES ASSUME NEW p \in Requests, at'[p] \in {"handle", "write", "reading"},
                      Checked(req'[p].op)
               PROVE  Entitled(req[p])'
    BY DEF PassedIsEntitled, Checked
  <2>1. p # r /\ at'[p] = at[p] /\ req'[p] = req[p]
    BY <1>3 DEF EntitledInv, Typed, Goto
  <2> QED
    BY <2>1 DEF EntitledInv, PassedIsEntitled, Entitled
<1> QED
  BY <1>2, <1>4, <1>5 DEF EntitledInv

LEMMA AuthenticateKeeps ==
  ASSUME EntitledInv, NEW r \in Requests, Authenticate(r) PROVE EntitledInv'
<1>1. CASE Verdict(req[r]) # 0
  BY <1>1, FinishKeeps DEF Authenticate, apiVars, EntitledInv, Typed
<1>2. CASE Verdict(req[r]) = 0
  <2>1. Goto(r, "handle") /\ UNCHANGED <<req, apiVars, issued, boot, now>>
    BY <1>2 DEF Authenticate
  <2>2. Typed'
    BY <2>1 DEF EntitledInv, Typed, Goto, apiVars
  <2>3. StillFresh'
    BY <2>1 DEF EntitledInv, StillFresh
  <2>4. Checked(req[r].op) => Entitled(req[r])
    <3> SUFFICES ASSUME Checked(req[r].op) PROVE Entitled(req[r])
      OBVIOUS
    <3>1. Valid(req[r].token) /\ HasPermission(req[r].token.role, Required(req[r].op))
      BY <1>2 DEF Verdict
    <3>2. req[r] \in Request /\ req[r].token \in Token /\ req[r].token.role \in Roles
      BY DEF EntitledInv, Typed, Request, Token
    <3>3. Rank(req[r].token.role) >= Rank(Required(req[r].op))
      BY <3>1, <3>2, PermissionIsRank
    <3>4. req[r].token.boot = boot /\ req[r].fresh
      BY <3>1 DEF Valid, EntitledInv, StillFresh
    <3> QED
      BY <3>3, <3>4 DEF Entitled
  <2>5. PassedIsEntitled'
    <3> SUFFICES ASSUME NEW q \in Requests, at'[q] \in {"handle", "write", "reading"},
                        Checked(req[q].op)
                 PROVE  Entitled(req[q])
      BY <2>1 DEF PassedIsEntitled, Checked, Entitled
    <3>1. CASE q = r
      BY <3>1, <2>4
    <3>2. CASE q # r
      <4>1. at'[q] = at[q]
        BY <2>1, <3>2 DEF EntitledInv, Typed, Goto
      <4> QED
        BY <4>1 DEF EntitledInv, PassedIsEntitled
    <3> QED
      BY <3>1, <3>2
  <2> QED
    BY <2>2, <2>3, <2>5 DEF EntitledInv
<1> QED
  BY <1>1, <1>2

\* The row a save writes is a row.
LEMMA UpdatedTyped ==
  ASSUME EntitledInv, NEW r \in Requests PROVE Updated(req[r]) \in ClusterRow
<1>1. req[r].row \in ClusterRow /\ req[r].name \in Names /\ req[r].status \in Statuses
  BY DEF EntitledInv, Typed, Request
<1> QED
  BY <1>1 DEF Updated, ClusterRow

LEMMA HandleKeeps == ASSUME EntitledInv, NEW r \in Requests, Handle(r) PROVE EntitledInv'
<1>1. ASSUME NEW ops, Answer(r, ops) PROVE EntitledInv'
  BY <1>1, FinishKeeps DEF Answer, apiVars, EntitledInv, Typed
<1>2. CASE HandleCreateCluster(r)
  <2>1. req[r].name \in Names
    BY DEF EntitledInv, Typed, Request
  <2>2. cluster' \in [Clusters -> ClusterRow]
    BY <1>2, <2>1 DEF HandleCreateCluster, EntitledInv, Typed, ClusterRow, RowStates, Statuses
  <2> QED
    BY <1>2, <2>2, FinishKeeps DEF HandleCreateCluster
<1>3. CASE HandleDelete(r)
  <2>1. cluster' \in [Clusters -> ClusterRow]
    BY <1>3 DEF HandleDelete, EntitledInv, Typed, ClusterRow, RowStates
  <2> QED
    BY <1>3, <2>1, FinishKeeps DEF HandleDelete
<1>4. CASE ReadCluster(r)
  <2>1. CASE Live(req[r].id)
    <3> DEFINE q == [req[r] EXCEPT !.row = cluster[req[r].id]]
    <3>1. /\ req' = [req EXCEPT ![r] = q] /\ at' = [at EXCEPT ![r] = "write"]
          /\ UNCHANGED <<apiVars, issued, boot, now>> /\ at[r] = "handle"
      BY <1>4, <2>1 DEF ReadCluster, Goto, Handling
    <3>2. req[r] \in Request /\ cluster[req[r].id] \in ClusterRow
      BY DEF EntitledInv, Typed, Request
    <3>3. q \in Request /\ q.op = req[r].op /\ q.token = req[r].token /\ q.fresh = req[r].fresh
      BY <3>2 DEF Request
    <3>4. Typed'
      BY <3>1, <3>3 DEF EntitledInv, Typed, apiVars
    <3>5. /\ req'[r] = q
          /\ \A p \in Requests \ {r} : at'[p] = at[p] /\ req'[p] = req[p]
      BY <3>1 DEF EntitledInv, Typed
    <3> HIDE DEF q
    <3> QED
      BY <3>1, <3>3, <3>4, <3>5, MoveKeeps
  <2>2. CASE ~Live(req[r].id)
    BY <1>4, <2>2, FinishKeeps DEF ReadCluster, apiVars, EntitledInv, Typed
  <2> QED
    BY <2>1, <2>2
<1>5. CASE SaveCluster(r)
  <2>1. cluster' \in [Clusters -> ClusterRow]
    BY <1>5, UpdatedTyped DEF SaveCluster, EntitledInv, Typed
  <2> QED
    BY <1>5, <2>1, FinishKeeps DEF SaveCluster
<1>6. CASE ReadDevice(r)
  <2>1. ASSUME Finish(r) PROVE EntitledInv'
    BY <1>6, <2>1, FinishKeeps DEF ReadDevice, apiVars, EntitledInv, Typed
  <2>2. ASSUME NEW where \in {"reading", "write"}, Goto(r, where), device.value \in {0, 1},
               NEW q \in {req[r], [req[r] EXCEPT !.value = device.value]},
               req' = [req EXCEPT ![r] = q]
        PROVE  EntitledInv'
    <3>1. req[r] \in Request
      BY DEF EntitledInv, Typed
    <3>2. q \in Request /\ q.op = req[r].op /\ q.token = req[r].token /\ q.fresh = req[r].fresh
      BY <2>2, <3>1 DEF Request
    <3>3. at[r] = "handle" /\ UNCHANGED <<apiVars, issued, boot, now>>
      BY <1>6 DEF ReadDevice, Handling
    <3>4. Typed'
      BY <2>2, <3>2, <3>3 DEF EntitledInv, Typed, apiVars, Goto
    <3>5. /\ req'[r] = q
          /\ \A p \in Requests \ {r} : at'[p] = at[p] /\ req'[p] = req[p]
      BY <2>2 DEF EntitledInv, Typed, Goto
    <3> QED
      BY <3>2, <3>3, <3>4, <3>5, MoveKeeps
  <2>3. device.value \in {0, 1}
    BY DEF EntitledInv, Typed
  <2>4. CASE ~Finish(r)
    <3>1. PICK where \in {"reading", "write"} : Goto(r, where)
      BY <1>6, <2>4 DEF ReadDevice
    <3>2. PICK q \in {req[r], [req[r] EXCEPT !.value = device.value]} : req' = [req EXCEPT ![r] = q]
      BY <1>6, <2>4 DEF ReadDevice
    <3> QED
      BY <2>2, <2>3, <3>1, <3>2
  <2> QED
    BY <2>1, <2>4
<1>7. CASE SaveDevice(r)
  <2>1. Typed'
    <3>1. req[r].value \in {0, 1}
      BY DEF EntitledInv, Typed, Request
    <3> QED
      BY <1>7, <3>1 DEF SaveDevice, EntitledInv, Typed, Goto
  <2>2. \A p \in Requests \ {r} : at'[p] = at[p] /\ req'[p] = req[p]
    BY <1>7 DEF SaveDevice, EntitledInv, Typed, Goto
  <2> QED
    BY <1>7, <2>1, <2>2, MoveKeeps DEF SaveDevice, Handling
<1>8. CASE RecordReading(r)
  BY <1>8, FinishKeeps DEF RecordReading, EntitledInv, Typed
<1> QED
  BY <1>1, <1>2, <1>3, <1>4, <1>5, <1>6, <1>7, <1>8
  DEF Handle, Health, System, Stub, LeftOut, GetCluster, GetStatus, ListNodes, ListClusters, Create

LEMMA EntitledStep == ASSUME EntitledInv, [Next]_vars PROVE EntitledInv'
<1>1. ASSUME NEW r \in Requests, ArriveREST(r) \/ ArriveGRPC(r) PROVE EntitledInv'
  BY <1>1, ArrivalKeeps DEF ArriveREST, ArriveGRPC, apiVars
<1>2. ASSUME NEW r \in Requests, LetThrough(r) PROVE EntitledInv'
  <2>1. Typed'
    BY <1>2 DEF LetThrough, Goto, apiVars, EntitledInv, Typed
  <2>2. at'[r] = "auth" /\ \A p \in Requests \ {r} : at'[p] = at[p]
    BY <1>2 DEF LetThrough, Goto, EntitledInv, Typed
  <2> QED
    BY <1>2, <2>1, <2>2, MoveKeeps DEF LetThrough
<1>3. ASSUME NEW r \in Requests, SlowDown(r) PROVE EntitledInv'
  BY <1>3, FinishKeeps DEF SlowDown, apiVars, EntitledInv, Typed
<1>4. ASSUME NEW r \in Requests, Authenticate(r) \/ Handle(r) PROVE EntitledInv'
  BY <1>4, AuthenticateKeeps, HandleKeeps
<1>5. ASSUME IssueToken \/ Housekeeping \/ UNCHANGED vars PROVE EntitledInv'
  <2>1. UNCHANGED <<at, req, apiVars, boot, now>>
    BY <1>5 DEF IssueToken, Housekeeping, vars
  <2>2. issued' \subseteq Token
    <3>1. CASE IssueToken
      <4>1. PICK role \in Roles, life \in TokenLives :
              issued' = issued \cup {[boot |-> boot, role |-> role, exp |-> now + life]}
        BY <3>1 DEF IssueToken
      <4>2. life \in Nat /\ now \in Nat /\ boot \in Nat
        BY APIAssumption DEF APIAssumption, EntitledInv, Typed
      <4> QED
        BY <4>1, <4>2 DEF Token, EntitledInv, Typed
    <3> QED
      BY <1>5, <3>1 DEF Housekeeping, vars, EntitledInv, Typed
  <2>3. Typed'
    BY <2>1, <2>2 DEF EntitledInv, Typed, apiVars
  <2> QED
    BY <2>1, <2>3 DEF EntitledInv, StillFresh, PassedIsEntitled, Entitled, Checked
<1>6. CASE Tick
  <2>1. now' = now + 1 /\ UNCHANGED <<at, req, apiVars, issued, boot>>
    BY <1>6 DEF Tick
  <2>2. Typed'
    BY <2>1 DEF EntitledInv, Typed, apiVars
  <2>3. \A r \in Requests : req[r].token.exp \in Nat
    BY DEF EntitledInv, Typed, Request, Token
  <2>4. StillFresh'
    BY <2>1, <2>3 DEF EntitledInv, Typed, StillFresh
  <2> QED
    BY <2>1, <2>2, <2>4 DEF EntitledInv, PassedIsEntitled, Entitled, Checked
<1>7. CASE Restart
  <2>1. /\ at' = [r \in Requests |-> "idle"] /\ req' = [r \in Requests |-> NoRequest]
        /\ boot' = boot + 1 /\ UNCHANGED <<apiVars, issued, now>>
    BY <1>7 DEF Restart
  <2>2. Typed'
    BY <2>1, NoRequestTyped DEF EntitledInv, Typed, apiVars
  <2>3. StillFresh'
    BY <2>1 DEF EntitledInv, Typed, StillFresh, NoRequest, NoToken
  <2>4. PassedIsEntitled'
    BY <2>1 DEF PassedIsEntitled
  <2> QED
    BY <2>2, <2>3, <2>4 DEF EntitledInv
<1> QED
  BY <1>1, <1>2, <1>3, <1>4, <1>5, <1>6, <1>7 DEF Next

\* The operations that change a row that is there, and what they asked for.
LEMMA ChangeIsMade ==
  ASSUME EntitledInv, [Next]_vars PROVE
  /\ \A k \in Clusters : cluster'[k] # cluster[k] /\ cluster[k].state # "free" =>
       \E r \in Requests : /\ req[r].op \in {"Update", "Delete"} /\ req[r].id = k
                           /\ at[r] \in {"handle", "write"} /\ at'[r] = "idle"
  /\ device' # device =>
       \E r \in Requests : req[r].op = "WriteGPIO" /\ at[r] = "write" /\ at'[r] = "reading"
<1> DEFINE Row == \A k \in Clusters : cluster'[k] # cluster[k] /\ cluster[k].state # "free" =>
             \E r \in Requests : /\ req[r].op \in {"Update", "Delete"} /\ req[r].id = k
                                 /\ at[r] \in {"handle", "write"} /\ at'[r] = "idle"
           Device == device' # device =>
             \E r \in Requests : req[r].op = "WriteGPIO" /\ at[r] = "write" /\ at'[r] = "reading"
<1>0. /\ at \in [Requests -> {"idle", "allow", "auth", "handle", "write", "reading"}]
      /\ cluster \in [Clusters -> ClusterRow]
  BY DEF EntitledInv, Typed
<1>1. ASSUME UNCHANGED <<cluster, device>> PROVE Row /\ Device
  BY <1>1
<1>2. ASSUME NEW r \in Requests, HandleCreateCluster(r) PROVE Row /\ Device
  BY <1>0, <1>2 DEF HandleCreateCluster
<1>3. ASSUME NEW r \in Requests, HandleDelete(r) \/ SaveCluster(r) PROVE Row /\ Device
  <2>1. /\ \A k \in Clusters : k # req[r].id => cluster'[k] = cluster[k]
        /\ req[r].op \in {"Update", "Delete"} /\ at[r] \in {"handle", "write"}
        /\ device' = device
    BY <1>0, <1>3 DEF HandleDelete, SaveCluster, Handling
  <2>2. at'[r] = "idle"
    BY <1>0, <1>3 DEF HandleDelete, SaveCluster, Finish, Goto
  <2> QED
    BY <2>1, <2>2
<1>4. ASSUME NEW r \in Requests, SaveDevice(r) PROVE Row /\ Device
  <2>1. req[r].op = "WriteGPIO" /\ at[r] = "write" /\ at'[r] = "reading" /\ cluster' = cluster
    BY <1>0, <1>4 DEF SaveDevice, Handling, Goto
  <2> QED
    BY <2>1
<1>5. ASSUME NEW r \in Requests, Handle(r) PROVE Row /\ Device
  <2>1. ASSUME NEW ops, Answer(r, ops) PROVE Row /\ Device
    BY <2>1, <1>1 DEF Answer, apiVars
  <2>2. ASSUME ReadCluster(r) \/ ReadDevice(r) \/ RecordReading(r) PROVE Row /\ Device
    BY <2>2, <1>1 DEF ReadCluster, ReadDevice, RecordReading, apiVars
  <2> HIDE DEF Row, Device
  <2> QED
    BY <1>2, <1>3, <1>4, <1>5, <2>1, <2>2
    DEF Handle, Health, System, Stub, LeftOut, GetCluster, GetStatus, ListNodes, ListClusters, Create
<1>6. ASSUME \/ \E r \in Requests : \/ ArriveREST(r) \/ ArriveGRPC(r) \/ LetThrough(r)
                                    \/ SlowDown(r) \/ Authenticate(r)
             \/ IssueToken \/ Tick \/ Restart \/ Housekeeping \/ UNCHANGED vars
      PROVE  Row /\ Device
  <2>1. UNCHANGED <<cluster, device>>
    BY <1>6 DEF ArriveREST, ArriveGRPC, LetThrough, SlowDown, Authenticate, IssueToken, Tick,
                Restart, Housekeeping, apiVars, vars
  <2> QED
    BY <1>1, <2>1
<1> HIDE DEF Row, Device
<1>7. Row /\ Device
  BY <1>5, <1>6 DEF Next
<1> QED
  BY <1>7 DEF Row, Device

(* Rows are changed only by requests that were entitled to it, for any     *)
(* numbers of clients, requests, clusters, tokens, restarts and seconds    *)
(* (middleware/auth.go, grpc/server/server.go).                            *)
THEOREM ChangesAreEntitled == Spec => ChangesEntitled
<1>1. Init => EntitledInv
  BY EntitledInitially
<1>2. EntitledInv /\ [Next]_vars => EntitledInv'
  BY EntitledStep
<1> DEFINE Change ==
      \A k \in Clusters :
        /\ (cluster'[k] # cluster[k] /\ cluster[k].state # "free" /\ AuthEnabled) =>
             \E r \in Requests : req[r].op \in {"Update", "Delete"} /\ at'[r] # at[r]
                                 /\ req[r].id = k /\ Entitled(req[r])
        /\ (device' # device) =>
             \E r \in Requests : req[r].op = "WriteGPIO" /\ at'[r] # at[r] /\ Entitled(req[r])
<1>3. EntitledInv /\ [Next]_vars => Change
  <2> SUFFICES ASSUME EntitledInv, [Next]_vars, NEW k \in Clusters
               PROVE  Change!(k)
    OBVIOUS
  <2>1. ASSUME cluster'[k] # cluster[k], cluster[k].state # "free", AuthEnabled
        PROVE  \E r \in Requests : req[r].op \in {"Update", "Delete"} /\ at'[r] # at[r]
                                   /\ req[r].id = k /\ Entitled(req[r])
    <3>1. PICK r \in Requests : /\ req[r].op \in {"Update", "Delete"} /\ req[r].id = k
                                /\ at[r] \in {"handle", "write"} /\ at'[r] = "idle"
      BY <2>1, ChangeIsMade
    <3>2. Checked(req[r].op)
      BY <2>1, <3>1 DEF Checked, RestOps, Open
    <3> QED
      BY <3>1, <3>2 DEF EntitledInv, PassedIsEntitled
  <2>2. ASSUME device' # device
        PROVE  \E r \in Requests : req[r].op = "WriteGPIO" /\ at'[r] # at[r] /\ Entitled(req[r])
    <3>1. PICK r \in Requests : req[r].op = "WriteGPIO" /\ at[r] = "write" /\ at'[r] = "reading"
      BY <2>2, ChangeIsMade
    <3> QED
      BY <3>1 DEF EntitledInv, PassedIsEntitled, Checked
  <2> QED
    BY <2>1, <2>2
<1>4. EntitledInv /\ [Next]_vars => [Change]_vars
  BY <1>3
<1> QED
  BY <1>1, <1>2, <1>4, PTL DEF Spec, ChangesEntitled

=============================================================================
