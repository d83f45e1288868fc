----------------------------- MODULE AgentClient -----------------------------
(***************************************************************************)
(* internal/grpc/client: the agent's connection to the controller, as it   *)
(* is shared by the agent's main goroutine (Owner: Start, the RPCs of its  *)
(* loop, Stop), by the heartbeat goroutine that Start leaves behind (Beat) *)
(* and by any other callers of the client's methods.                       *)
(*                                                                         *)
(* Every RPC runs ensureConnected and then uses the stub.  IsConnected and *)
(* the flag reconnecting are read under mu, but nothing is held from one   *)
(* look to the next, and the stub is used with no lock at all: each of     *)
(* these is a step.  Connect holds mu while it dials.                      *)
(*                                                                         *)
(* A gRPC connection repairs itself when the server comes back; Connect    *)
(* only ever looks at the flag connected, which Disconnect alone clears.   *)
(***************************************************************************)
EXTENDS Integers, FiniteSets

CONSTANTS
  Owner,        \* the goroutine that starts and stops the client
  Beat,         \* the heartbeat goroutine
  Others,       \* other goroutines that make calls
  Impatient,    \* goroutines whose calls carry a deadline; Beat's always do
  MaxRetries,   \* Config.MaxRetries
  OwnerCancels  \* whether the owner cancels its context once Stop returned

Threads == {Owner, Beat} \cup Others

ASSUME ClientAssumption ==
  /\ Owner # Beat
  /\ Beat \in Impatient
  /\ Impatient \subseteq Threads
  /\ MaxRetries \in Nat \ {0}
  /\ OwnerCancels \in BOOLEAN

VARIABLES
  serverUp,      \* the controller answers
  conn,          \* c.conn (and c.client): "nil", "ready" or "broken"
  connected,     \* c.connected
  openConns,     \* history: connections dialled and not closed
  reconnecting,  \* c.reconnecting
  attempt,       \* connection attempts made by the reconnecting goroutine
  pc,            \* where each goroutine is
  life,          \* the client: "new", "starting", "started", "stopping", "stopped"
  ctxDone,       \* the owner's context is cancelled
  crashed        \* a call was made on the nil stub

connVars == <<conn, connected, openConns>>
vars == <<serverUp, connVars, reconnecting, attempt, pc, life, ctxDone, crashed>>

\* Beat is "spawned" until it first reaches its select, and "idle" in it.
Places == {"none", "spawned", "idle", "check", "retry", "connect", "dialling", "backoff",
           "give up", "got it", "wait", "use", "ended"}

TypeOK ==
  /\ serverUp \in BOOLEAN
  /\ conn \in {"nil", "ready", "broken"}
  /\ connected \in BOOLEAN
  /\ openConns \in Nat
  /\ reconnecting \in BOOLEAN
  /\ attempt \in 0..MaxRetries
  /\ pc \in [Threads -> Places]
  /\ life \in {"new", "starting", "started", "stopping", "stopped"}
  /\ ctxDone \in BOOLEAN
  /\ crashed \in BOOLEAN

Init ==
  /\ serverUp = TRUE
  /\ conn = "nil"
  /\ connected = FALSE
  /\ openConns = 0
  /\ reconnecting = FALSE
  /\ attempt = 0
  /\ pc = [t \in Threads |-> IF t = Beat THEN "none" ELSE "idle"]
  /\ life = "new"
  /\ ctxDone = FALSE
  /\ crashed = FALSE

Goto(t, place) == pc' = [pc EXCEPT ![t] = place]

\* mu is only held across a step by a dialling goroutine.
MutexFree == \A t \in Threads : pc[t] # "dialling"

\* The context of a call is done.
Expired(t) == ctxDone \/ t \in Impatient

-----------------------------------------------------------------------------
(* ensureConnected and connectWithRetry.                                   *)

CheckConnected(t) ==
  /\ pc[t] = "check"
  /\ MutexFree
  /\ Goto(t, IF connected /\ conn = "ready" THEN "use" ELSE "retry")
  /\ UNCHANGED <<serverUp, connVars, reconnecting, attempt, life, ctxDone, crashed>>

\* Mutant: connectWithRetry without its look at reconnecting.
EnterRetry_Always(t) ==
  /\ pc[t] = "retry"
  /\ MutexFree
  /\ Goto(t, "connect") /\ reconnecting' = TRUE /\ attempt' = 0
  /\ UNCHANGED <<serverUp, connVars, life, ctxDone, crashed>>

\* One goroutine reconnects; the others wait for it in WaitForConnection.
EnterRetry(t) ==
  /\ pc[t] = "retry"
  /\ MutexFree
  /\ IF reconnecting
       THEN Goto(t, "wait") /\ UNCHANGED <<reconnecting, attempt>>
       ELSE Goto(t, "connect") /\ reconnecting' = TRUE /\ attempt' = 0
  /\ UNCHANGED <<serverUp, connVars, life, ctxDone, crashed>>

\* Mutant: Connect without its look at connected.
Connect_Again(t) ==
  /\ pc[t] = "connect"
  /\ MutexFree
  /\ Goto(t, "dialling")
  /\ UNCHANGED <<serverUp, connVars, reconnecting, attempt, life, ctxDone, crashed>>

Connect(t) ==
  /\ pc[t] = "connect"
  /\ MutexFree
  /\ Goto(t, IF connected THEN "got it" ELSE "dialling")
  /\ UNCHANGED <<serverUp, connVars, reconnecting, attempt, life, ctxDone, crashed>>

DialSucceeds(t) ==
  /\ pc[t] = "dialling"
  /\ serverUp /\ ~ctxDone
  /\ conn' = "ready"
  /\ connected' = TRUE
  /\ openConns' = openConns + 1
  /\ Goto(t, "got it")
  /\ UNCHANGED <<serverUp, reconnecting, attempt, life, ctxDone, crashed>>

\* ConnectionTimeout, or the caller's context, ends the dial.
DialFails(t) ==
  /\ pc[t] = "dialling"
  /\ ~serverUp \/ Expired(t)
  /\ attempt' = attempt + 1
  /\ Goto(t, "backoff")
  /\ UNCHANGED <<serverUp, connVars, reconnecting, life, ctxDone, crashed>>

\* The delay passes, also after the last attempt, or the context ends it.
Backoff(t) ==
  /\ pc[t] = "backoff"
  /\ \/ Expired(t) /\ Goto(t, "give up")
     \/ Goto(t, IF attempt < MaxRetries THEN "connect" ELSE "give up")
  /\ UNCHANGED <<serverUp, connVars, reconnecting, attempt, life, ctxDone, crashed>>

\* What the caller of ensureConnected does next: Start starts the heartbeat
\* goroutine or fails, an RPC uses the stub or fails.
Return(t, ok) ==
  IF t = Owner /\ life = "starting"
    THEN /\ life' = IF ok THEN "started" ELSE "new"
         /\ pc' = [pc EXCEPT ![Owner] = "idle", ![Beat] = IF ok THEN "spawned" ELSE @]
    ELSE Goto(t, IF ok THEN "use" ELSE "idle") /\ UNCHANGED life

\* Mutant: connectWithRetry resets the flag only when it succeeded.
LeaveRetry_KeepsFlag(t) ==
  /\ pc[t] \in {"got it", "give up"}
  /\ MutexFree
  /\ reconnecting' = (pc[t] = "give up")
  /\ Return(t, pc[t] = "got it")
  /\ UNCHANGED <<serverUp, connVars, attempt, ctxDone, crashed>>

\* The deferred function of connectWithRetry.
LeaveRetry(t) ==
  /\ pc[t] \in {"got it", "give up"}
  /\ MutexFree
  /\ reconnecting' = FALSE
  /\ Return(t, pc[t] = "got it")
  /\ UNCHANGED <<serverUp, connVars, attempt, ctxDone, crashed>>

\* WaitForConnection looks ten times a second.
WaitForConnection(t) ==
  /\ pc[t] = "wait"
  /\ \/ MutexFree /\ connected /\ conn = "ready" /\ Return(t, TRUE)
     \/ Expired(t) /\ Return(t, FALSE)
  /\ UNCHANGED <<serverUp, connVars, reconnecting, attempt, ctxDone, crashed>>

\* The RPC itself: c.client is read with no lock, and the call returns
\* within RequestTimeout with a reply or an error.
UseStub(t) ==
  /\ pc[t] = "use"
  /\ crashed' = (conn = "nil")
  /\ Goto(t, "idle")
  /\ UNCHANGED <<serverUp, connVars, reconnecting, attempt, life, ctxDone>>

-----------------------------------------------------------------------------
(* The lifecycle.                                                          *)

Start ==
  /\ life = "new" /\ pc[Owner] = "idle"
  /\ life' = "starting"
  /\ Goto(Owner, "retry")
  /\ UNCHANGED <<serverUp, connVars, reconnecting, attempt, ctxDone, crashed>>

\* RegisterNode, UpdateNodeStatus, HealthCheck, ...
BeginCall(t) ==
  /\ t # Beat
  /\ pc[t] = "idle"
  /\ life = "started"
  /\ Goto(t, "check")
  /\ UNCHANGED <<serverUp, connVars, reconnecting, attempt, life, ctxDone, crashed>>

BeatParks ==
  /\ pc[Beat] = "spawned"
  /\ Goto(Beat, "idle")
  /\ UNCHANGED <<serverUp, connVars, reconnecting, attempt, life, ctxDone, crashed>>

\* The ticker of heartbeatLoop.
BeatTicks ==
  /\ pc[Beat] = "idle"
  /\ Goto(Beat, "check")
  /\ UNCHANGED <<serverUp, connVars, reconnecting, attempt, life, ctxDone, crashed>>

\* Mutant: heartbeatLoop without its ctx.Done case.
BeatCancelled_NoCase == FALSE /\ UNCHANGED vars

BeatCancelled ==
  /\ pc[Beat] = "idle"
  /\ ctxDone
  /\ Goto(Beat, "ended")
  /\ UNCHANGED <<serverUp, connVars, reconnecting, attempt, life, ctxDone, crashed>>

\* Stop cancels a context no goroutine listens to ...
BeginStop ==
  /\ life = "started" /\ pc[Owner] = "idle"
  /\ life' = "stopping"
  /\ UNCHANGED <<serverUp, connVars, reconnecting, attempt, pc, ctxDone, crashed>>

\* ... and calls Disconnect, whose stop signal to the heartbeat goroutine is
\* only taken when that goroutine is in its select.
Disconnect ==
  /\ life = "stopping"
  /\ MutexFree
  /\ life' = "stopped"
  /\ connected' = FALSE
  /\ conn' = "nil"
  /\ openConns' = IF conn = "nil" THEN openConns ELSE openConns - 1
  /\ IF connected /\ pc[Beat] = "idle" THEN Goto(Beat, "ended") ELSE UNCHANGED pc
  /\ UNCHANGED <<serverUp, reconnecting, attempt, ctxDone, crashed>>

CancelContext ==
  /\ OwnerCancels
  /\ life = "stopped"
  /\ ~ctxDone
  /\ ctxDone' = TRUE
  /\ UNCHANGED <<serverUp, connVars, reconnecting, attempt, pc, life, crashed>>

-----------------------------------------------------------------------------
(* The server, and what gRPC does to the connection on its own.            *)

ServerToggles ==
  /\ serverUp' = ~serverUp
  /\ UNCHANGED <<connVars, reconnecting, attempt, pc, life, ctxDone, crashed>>

ConnectionBreaks ==
  /\ conn = "ready" /\ ~serverUp
  /\ conn' = "broken"
  /\ UNCHANGED <<serverUp, connected, openConns, reconnecting, attempt, pc, life, ctxDone, crashed>>

ConnectionRecovers ==
  /\ conn = "broken" /\ serverUp
  /\ conn' = "ready"
  /\ UNCHANGED <<serverUp, connected, openConns, reconnecting, attempt, pc, life, ctxDone, crashed>>

-----------------------------------------------------------------------------
Advance(t) ==
  \/ CheckConnected(t) \/ EnterRetry(t) \/ Connect(t) \/ DialSucceeds(t) \/ DialFails(t)
  \/ Backoff(t) \/ LeaveRetry(t) \/ WaitForConnection(t) \/ UseStub(t)

Next ==
  /\ ~crashed
  /\ \/ \E t \in Threads : Advance(t) \/ BeginCall(t)
     \/ Start \/ BeatParks \/ BeatTicks \/ BeatCancelled \/ BeginStop \/ Disconnect \/ CancelContext
     \/ ServerToggles \/ ConnectionBreaks \/ ConnectionRecovers

Spec == Init /\ [][Next]_vars

\* Goroutines are scheduled, dials and delays end, and a waiter that looks
\* ten times a second meets a connection that is ready again and again.
FairSpec ==
  /\ Spec
  /\ \A t \in Threads : SF_vars(~crashed /\ Advance(t))
  /\ WF_vars(~crashed /\ BeatParks)
  /\ WF_vars(~crashed /\ ConnectionRecovers)
  /\ SF_vars(~crashed /\ Disconnect)
  /\ WF_vars(~crashed /\ CancelContext)
  /\ SF_vars(~crashed /\ BeatCancelled)

-----------------------------------------------------------------------------
(* No connection is dialled over another and none is dropped without being *)
(* closed, whoever reconnects while the client is stopped.                 *)
ConnectionAccounting ==
  /\ openConns = IF connected THEN 1 ELSE 0
  /\ connected <=> conn # "nil"

Reconnectors ==
  {t \in Threads : pc[t] \in {"connect", "dialling", "backoff", "give up", "got it"}}

(* At any moment at most one goroutine dials and backs off, and the flag   *)
(* says so: those who find it set wait for someone who really tries.       *)
OneReconnector ==
  /\ reconnecting <=> Reconnectors # {}
  /\ \A s, t \in Reconnectors : s = t

(* When the controller stays up, Start and every call of a client that is  *)
(* not stopped return, also for callers that wait for another's attempts.  *)
CallsReturn ==
  <>[]serverUp =>
    \A t \in Threads : pc[t] \in {"check", "retry"} ~> pc[t] = "idle" \/ life = "stopped" \/ crashed

(* "Cancel context to stop all goroutines": the heartbeat goroutine ends   *)
(* after Stop (which, in the code, is true when the owner then cancels).   *)
BeatEndsAfterStop == life = "stopped" ~> pc[Beat] \in {"none", "ended"} \/ crashed

=============================================================================
