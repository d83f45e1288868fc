-------------------------- MODULE AgentClient_proofs --------------------------
(***************************************************************************)
(* Proofs about the agent's client, for any number of callers, any retry   *)
(* limit and any choice of the calls that carry a deadline.                *)
(***************************************************************************)
EXTENDS AgentClient, TLAPS

-----------------------------------------------------------------------------
(* Types.                                                                  *)

(* What a caller does after ensureConnected keeps the types.               *)
LEMMA ReturnTyped ==
  ASSUME TypeOK, NEW t \in Threads, NEW ok \in BOOLEAN, Return(t, ok)
  PROVE  /\ pc' \in [Threads -> Places]
         /\ life' \in {"new", "starting", "started", "stopping", "stopped"}
  <1>1. CASE t = Owner /\ life = "starting"
    <2>1. pc' = [pc EXCEPT ![Owner] = "idle", ![Beat] = IF ok THEN "spawned" ELSE @]
      BY <1>1 DEF Return
    <2>2. Owner \in Threads /\ Beat \in Threads
      BY DEF Threads
    <2>3. QED
      BY <1>1, <2>1, <2>2 DEF TypeOK, Places, Return
  <1>2. CASE ~(t = Owner /\ life = "starting")
    BY <1>2 DEF TypeOK, Places, Return, Goto
  <1>3. QED
    BY <1>1, <1>2

(* The names of the goroutines and places the steps rely on.               *)
LEMMA Names == Owner \in Threads /\ Beat \in Threads /\ MaxRetries \in Nat \ {0}
  BY ClientAssumption DEF Threads

(* A dialling or backing-off goroutine has attempts left, so that the next *)
(* one is within the limit.                                                *)
AttemptsLeft == \A t \in Threads : pc[t] \in {"connect", "dialling"} => attempt < MaxRetries

(* The reconnecting goroutine, if any, is the only one, and one that dials *)
(* found the client disconnected.                                          *)
DialsDisconnected == \A t \in Threads : pc[t] = "dialling" => ~connected

(* Start starts the heartbeat goroutine when it is not there yet.          *)
BeatStartsOnce == life \in {"new", "starting"} => pc[Beat] = "none"

Inv == TypeOK /\ BeatStartsOnce /\ AttemptsLeft /\ DialsDisconnected /\ OneReconnector /\ ConnectionAccounting

LEMMA InvInit == Init => Inv
  <1> SUFFICES ASSUME Init PROVE Inv
    OBVIOUS
  <1> USE Names
  <1>1. \A t \in Threads : pc[t] \in {"none", "idle"}
    BY DEF Init
  <1>2. TypeOK
    <2>1. pc \in [Threads -> Places]
      BY DEF Init, Places
    <2>2. openConns \in Nat /\ attempt \in 0..MaxRetries
      BY DEF Init
    <2>3. QED
      BY <2>1, <2>2 DEF Init, TypeOK
  <1>3. BeatStartsOnce /\ AttemptsLeft /\ DialsDisconnected /\ OneReconnector /\ ConnectionAccounting
    <2>1. Reconnectors = {}
      BY <1>1 DEF Reconnectors
    <2>2. pc[Beat] = "none"
      BY DEF Init
    <2>3. QED
      BY <1>1, <2>1, <2>2 DEF Init, AttemptsLeft, DialsDisconnected, OneReconnector,
         ConnectionAccounting, BeatStartsOnce
  <1>4. QED
    BY <1>2, <1>3 DEF Inv

(* After ensureConnected a goroutine reconnects no longer, and nobody else *)
(* starts to.                                                              *)
LEMMA ReturnMoves ==
  ASSUME TypeOK, BeatStartsOnce, NEW t \in Threads, NEW ok \in BOOLEAN, Return(t, ok)
  PROVE  /\ pc'[t] \in {"idle", "use"}
         /\ \A s \in Threads \ {t} :
              pc'[s] = pc[s] \/ (pc[s] = "none" /\ pc'[s] = "spawned")
         /\ \/ life' = "started"
            \/ \A s \in Threads \ {t} : pc'[s] = pc[s] /\ (life' = life \/ life = "starting")
  <1> USE Names
  <1>1. CASE t = Owner /\ life = "starting"
    <2>1. pc' = [pc EXCEPT ![Owner] = "idle", ![Beat] = IF ok THEN "spawned" ELSE @]
      BY <1>1 DEF Return
    <2>2. pc[Beat] = "none" /\ Owner # Beat
      BY <1>1, ClientAssumption DEF BeatStartsOnce
    <2>3. QED
      BY <1>1, <2>1, <2>2 DEF TypeOK, Return
  <1>2. CASE ~(t = Owner /\ life = "starting")
    BY <1>2 DEF TypeOK, Return, Goto
  <1>3. QED
    BY <1>1, <1>2

(* Steps of a goroutine on its way through ensureConnected keep the        *)
(* invariant.                                                              *)
LEMMA InvAdvance ==
  ASSUME Inv, NEW t \in Threads
  PROVE  Advance(t) => Inv'
  <1> USE Names DEF Inv
  <1> DEFINE Parts == BeatStartsOnce /\ AttemptsLeft /\ DialsDisconnected /\ OneReconnector /\ ConnectionAccounting
  <1>1. CASE CheckConnected(t)
    BY <1>1 DEF CheckConnected, Goto, connVars, TypeOK, Places, AttemptsLeft, DialsDisconnected,
       OneReconnector, Reconnectors, ConnectionAccounting, BeatStartsOnce
  <1>2. CASE EnterRetry(t)
    <2>1. CASE reconnecting
      BY <1>2, <2>1 DEF EnterRetry, Goto, connVars, TypeOK, Places, AttemptsLeft,
         DialsDisconnected, OneReconnector, Reconnectors, ConnectionAccounting, BeatStartsOnce
    <2>2. CASE ~reconnecting
      <3>1. Goto(t, "connect") /\ reconnecting' = TRUE /\ attempt' = 0
        BY <1>2, <2>2 DEF EnterRetry
      <3>2. UNCHANGED <<serverUp, conn, connected, openConns, life, ctxDone, crashed>>
        BY <1>2 DEF EnterRetry, connVars
      <3>3. pc' \in [Threads -> Places] /\ pc'[t] = "connect"
            /\ \A s \in Threads \ {t} : pc'[s] = pc[s]
        BY <3>1 DEF Goto, TypeOK, Places
      <3>4. TypeOK'
        BY <3>1, <3>2, <3>3 DEF TypeOK
      <3>5. Reconnectors = {} /\ Reconnectors' = {t}
        BY <2>2, <3>3 DEF OneReconnector, Reconnectors
      <3>6. (AttemptsLeft /\ DialsDisconnected)'
        <4>1. attempt' < MaxRetries
          BY <3>1
        <4>2. \A s \in Threads : pc'[s] # "dialling"
          BY <3>3, <3>5 DEF Reconnectors
        <4>3. QED
          BY <4>1, <4>2 DEF AttemptsLeft, DialsDisconnected
      <3>7. (OneReconnector /\ ConnectionAccounting)'
        BY <3>1, <3>2, <3>5 DEF OneReconnector, ConnectionAccounting
      <3>8. BeatStartsOnce'
        BY <1>2, <3>2, <3>3 DEF BeatStartsOnce, EnterRetry
      <3>9. QED
        BY <3>4, <3>6, <3>7, <3>8
    <2>3. QED
      BY <2>1, <2>2
  <1>3. CASE Connect(t)
    BY <1>3 DEF Connect, Goto, connVars, TypeOK, Places, AttemptsLeft, DialsDisconnected,
       OneReconnector, Reconnectors, ConnectionAccounting, BeatStartsOnce
  <1>4. CASE DialSucceeds(t)
    <2>1. /\ pc[t] = "dialling" /\ conn' = "ready" /\ connected' = TRUE
          /\ openConns' = openConns + 1 /\ Goto(t, "got it")
          /\ UNCHANGED <<serverUp, reconnecting, attempt, life, ctxDone, crashed>>
      BY <1>4 DEF DialSucceeds
    <2>2. openConns' = 1 /\ ConnectionAccounting'
      <3>1. ~connected
        BY <2>1 DEF DialsDisconnected
      <3>2. openConns = 0
        BY <3>1 DEF ConnectionAccounting
      <3>3. openConns' = openConns + 1
        BY <1>4 DEF DialSucceeds
      <3>4. openConns' = 1
        BY <3>2, <3>3
      <3>5. QED
        BY <2>1, <3>4 DEF ConnectionAccounting
    <2>3. pc' \in [Threads -> Places] /\ pc'[t] = "got it"
          /\ \A s \in Threads \ {t} : pc'[s] = pc[s]
      BY <2>1 DEF Goto, TypeOK, Places
    <2>4. TypeOK'
      <3>1. openConns' \in Nat
        BY <2>2
      <3>2. QED
        BY <2>1, <2>3, <3>1 DEF TypeOK
    <2>5. Reconnectors' = Reconnectors
      BY <2>1, <2>3 DEF Reconnectors
    <2>6. \A s \in Threads \ {t} : pc[s] \notin {"connect", "dialling"}
      BY <2>1 DEF OneReconnector, Reconnectors
    <2>7. (AttemptsLeft /\ DialsDisconnected)'
      <3>1. \A s \in Threads : pc'[s] \notin {"connect", "dialling"}
        BY <2>3, <2>6
      <3>2. QED
        BY <3>1 DEF AttemptsLeft, DialsDisconnected
    <2>8. (OneReconnector /\ BeatStartsOnce)'
      BY <2>1, <2>3, <2>5 DEF OneReconnector, BeatStartsOnce
    <2>9. QED
      BY <2>2, <2>4, <2>7, <2>8
  <1>5. CASE DialFails(t)
    <2>1. TypeOK'
      <3>1. attempt \in 0..MaxRetries /\ attempt < MaxRetries /\ attempt' = attempt + 1
        BY <1>5 DEF DialFails, TypeOK, AttemptsLeft
      <3>2. attempt' \in 0..MaxRetries
        BY <3>1
      <3>3. QED
        BY <1>5, <3>2 DEF DialFails, Goto, connVars, TypeOK, Places
    <2>2. \A s \in Threads \ {t} : pc'[s] = pc[s] /\ pc[s] \notin {"connect", "dialling"}
      BY <1>5 DEF DialFails, Goto, TypeOK, OneReconnector, Reconnectors
    <2>3. AttemptsLeft'
      BY <1>5, <2>2 DEF DialFails, Goto, connVars, TypeOK, Places, AttemptsLeft
    <2>4. Reconnectors' = Reconnectors
      BY <1>5, <2>2 DEF DialFails, Goto, TypeOK, Reconnectors
    <2>5. (BeatStartsOnce /\ DialsDisconnected /\ OneReconnector /\ ConnectionAccounting)'
      BY <1>5, <2>2, <2>4 DEF DialFails, Goto, connVars, TypeOK, DialsDisconnected, OneReconnector,
         ConnectionAccounting, BeatStartsOnce
    <2>6. QED
      BY <2>1, <2>3, <2>5
  <1>6. CASE Backoff(t)
    <2>1. TypeOK'
      BY <1>6 DEF Backoff, Goto, connVars, TypeOK, Places, AttemptsLeft
    <2>2. \A s \in Threads \ {t} : pc'[s] = pc[s] /\ pc[s] \notin {"connect", "dialling"}
      BY <1>6 DEF Backoff, Goto, TypeOK, OneReconnector, Reconnectors
    <2>3. AttemptsLeft'
      BY <1>6, <2>2 DEF Backoff, Goto, connVars, TypeOK, Places, AttemptsLeft
    <2>4. Reconnectors' = Reconnectors
      BY <1>6, <2>2 DEF Backoff, Goto, TypeOK, Reconnectors
    <2>5. (BeatStartsOnce /\ DialsDisconnected /\ OneReconnector /\ ConnectionAccounting)'
      BY <1>6, <2>2, <2>4 DEF Backoff, Goto, connVars, TypeOK, DialsDisconnected, OneReconnector,
         ConnectionAccounting, BeatStartsOnce
    <2>6. QED
      BY <2>1, <2>3, <2>5
  <1>7. CASE LeaveRetry(t)
    <2>1. TypeOK'
      BY <1>7, ReturnTyped DEF LeaveRetry, TypeOK, connVars
    <2>2. (pc[t] = "got it") \in BOOLEAN /\ Return(t, pc[t] = "got it")
      BY <1>7 DEF LeaveRetry
    <2> DEFINE ok == pc[t] = "got it"
    <2> HIDE DEF ok
    <2>3. ok \in BOOLEAN /\ Return(t, ok)
      BY <2>2 DEF ok
    <2>4. /\ pc'[t] \in {"idle", "use"}
          /\ \A s \in Threads \ {t} :
               pc'[s] = pc[s] \/ (pc[s] = "none" /\ pc'[s] = "spawned")
      BY <2>3, ReturnMoves
    <2>5. BeatStartsOnce'
      <3>1. life' = "started" \/ (t # Beat => pc'[Beat] = pc[Beat] /\ (life' = life \/ life = "starting"))
        BY <2>3, ReturnMoves
      <3>2. t = Beat => life \notin {"new", "starting"}
        BY <1>7 DEF LeaveRetry, BeatStartsOnce
      <3>3. t = Beat => life' = life
        BY <2>3, ClientAssumption DEF Return, Goto
      <3>4. QED
        BY <3>1, <3>2, <3>3 DEF BeatStartsOnce
    <2>6. Reconnectors' = {}
      <3>1. pc[t] \in {"got it", "give up"}
        BY <1>7 DEF LeaveRetry
      <3>2. \A s \in Threads : s \in Reconnectors => s = t
        BY <3>1 DEF OneReconnector, Reconnectors
      <3>3. QED
        BY <2>4, <3>2 DEF Reconnectors
    <2>7. Parts'
      BY <1>7, <2>4, <2>5, <2>6 DEF LeaveRetry, connVars, AttemptsLeft, DialsDisconnected,
         OneReconnector, Reconnectors, ConnectionAccounting
    <2>8. QED
      BY <2>1, <2>7
  <1>8. CASE WaitForConnection(t)
    <2>1. PICK ok \in BOOLEAN : Return(t, ok)
      BY <1>8 DEF WaitForConnection
    <2>2. TypeOK'
      BY <1>8, <2>1, ReturnTyped DEF WaitForConnection, TypeOK, connVars
    <2>3. /\ pc'[t] \in {"idle", "use"}
          /\ \A s \in Threads \ {t} :
               pc'[s] = pc[s] \/ (pc[s] = "none" /\ pc'[s] = "spawned")
      BY <2>1, ReturnMoves
    <2>4. BeatStartsOnce'
      <3>1. life' = "started" \/ (t # Beat => pc'[Beat] = pc[Beat] /\ (life' = life \/ life = "starting"))
        BY <2>1, ReturnMoves
      <3>2. t = Beat => life \notin {"new", "starting"}
        BY <1>8 DEF WaitForConnection, BeatStartsOnce
      <3>3. t = Beat => life' = life
        BY <2>1, ClientAssumption DEF Return, Goto
      <3>4. QED
        BY <3>1, <3>2, <3>3 DEF BeatStartsOnce
    <2>5. Reconnectors' = Reconnectors
      <3>1. pc[t] = "wait"
        BY <1>8 DEF WaitForConnection
      <3>2. QED
        BY <2>3, <3>1 DEF Reconnectors
    <2>6. Parts'
      BY <1>8, <2>3, <2>4, <2>5 DEF WaitForConnection, connVars, AttemptsLeft,
         DialsDisconnected, OneReconnector, Reconnectors, ConnectionAccounting
    <2>7. QED
      BY <2>2, <2>6
  <1>9. CASE UseStub(t)
    BY <1>9 DEF UseStub, Goto, connVars, TypeOK, Places, AttemptsLeft, DialsDisconnected,
       OneReconnector, Reconnectors, ConnectionAccounting, BeatStartsOnce
  <1>10. QED
    BY <1>1, <1>2, <1>3, <1>4, <1>5, <1>6, <1>7, <1>8, <1>9 DEF Advance

(* Steps of the owner, of the heartbeat goroutine and of the connection    *)
(* keep the invariant.                                                     *)
LifecycleStep ==
  \/ \E t \in Threads : BeginCall(t)
  \/ Start \/ BeatParks \/ BeatTicks \/ BeatCancelled \/ BeginStop
  \/ Disconnect \/ CancelContext
  \/ ServerToggles \/ ConnectionBreaks \/ ConnectionRecovers

LEMMA InvLifecycle ==
  ASSUME Inv
  PROVE  LifecycleStep => Inv'
  <1> USE Names DEF Inv
  <1>1. CASE \E t \in Threads : BeginCall(t)
    <2>1. PICK t \in Threads : BeginCall(t)
      BY <1>1
    <2>2. /\ t # Beat /\ pc[t] = "idle" /\ Goto(t, "check")
          /\ UNCHANGED <<serverUp, conn, connected, openConns, reconnecting, attempt, life,
                         ctxDone, crashed>>
      BY <2>1 DEF BeginCall, connVars
    <2>3. pc' \in [Threads -> Places] /\ pc'[t] = "check"
          /\ \A s \in Threads \ {t} : pc'[s] = pc[s]
      BY <2>2 DEF Goto, TypeOK, Places
    <2>4. TypeOK'
      BY <2>2, <2>3 DEF TypeOK
    <2>5. Reconnectors' = Reconnectors
      BY <2>2, <2>3 DEF Reconnectors
    <2>6. (AttemptsLeft /\ DialsDisconnected)'
      BY <2>2, <2>3 DEF AttemptsLeft, DialsDisconnected
    <2>7. (OneReconnector /\ ConnectionAccounting /\ BeatStartsOnce)'
      BY <2>2, <2>3, <2>5 DEF OneReconnector, ConnectionAccounting, BeatStartsOnce
    <2>8. QED
      BY <2>4, <2>6, <2>7
  <1>2. CASE Start
    <2>1. /\ life = "new" /\ life' = "starting" /\ pc[Owner] = "idle" /\ Goto(Owner, "retry")
          /\ UNCHANGED <<serverUp, conn, connected, openConns, reconnecting, attempt,
                         ctxDone, crashed>>
      BY <1>2 DEF Start, connVars
    <2>2. pc' \in [Threads -> Places] /\ pc'[Owner] = "retry"
          /\ \A s \in Threads \ {Owner} : pc'[s] = pc[s]
      BY <2>1 DEF Goto, TypeOK, Places
    <2>3. TypeOK'
      BY <2>1, <2>2 DEF TypeOK
    <2>4. Reconnectors' = Reconnectors
      BY <2>1, <2>2 DEF Reconnectors
    <2>5. (AttemptsLeft /\ DialsDisconnected)'
      BY <2>1, <2>2 DEF AttemptsLeft, DialsDisconnected
    <2>6. (OneReconnector /\ ConnectionAccounting)'
      BY <2>1, <2>4 DEF OneReconnector, ConnectionAccounting
    <2>7. BeatStartsOnce'
      BY <2>1, <2>2, ClientAssumption DEF BeatStartsOnce
    <2>8. QED
      BY <2>3, <2>5, <2>6, <2>7
  <1>3. CASE BeatParks \/ BeatTicks \/ BeatCancelled
    <2>1. PICK place \in {"idle", "check", "ended"} : Goto(Beat, place)
      BY <1>3 DEF BeatParks, BeatTicks, BeatCancelled
    <2>2. /\ pc[Beat] \in {"spawned", "idle"}
          /\ UNCHANGED <<serverUp, connVars, reconnecting, attempt, life, crashed, ctxDone>>
      BY <1>3 DEF BeatParks, BeatTicks, BeatCancelled
    <2>3. /\ pc' \in [Threads -> Places]
          /\ pc'[Beat] = place
          /\ \A s \in Threads \ {Beat} : pc'[s] = pc[s]
      BY <2>1 DEF Goto, TypeOK, Places
    <2>4. TypeOK' /\ ConnectionAccounting'
      BY <2>2, <2>3 DEF TypeOK, connVars, ConnectionAccounting
    <2>5. Reconnectors' = Reconnectors
      BY <2>2, <2>3 DEF Reconnectors
    <2>6. (AttemptsLeft /\ DialsDisconnected /\ OneReconnector)'
      BY <2>2, <2>3, <2>5 DEF connVars, AttemptsLeft, DialsDisconnected, OneReconnector
    <2>7. BeatStartsOnce'
      BY <2>2 DEF BeatStartsOnce
    <2>8. QED
      BY <2>4, <2>6, <2>7
  <1>4. ASSUME UNCHANGED <<pc, connected, openConns, reconnecting, attempt>>
        PROVE  (AttemptsLeft /\ DialsDisconnected /\ OneReconnector)'
    BY <1>4 DEF AttemptsLeft, DialsDisconnected, OneReconnector, Reconnectors
  <1>5. CASE BeginStop \/ CancelContext \/ ServerToggles
    <2>1. /\ life' = life \/ life' = "stopping"
          /\ ctxDone' \in BOOLEAN /\ serverUp' \in BOOLEAN
          /\ UNCHANGED <<conn, connected, openConns, reconnecting, attempt, pc, crashed>>
      BY <1>5 DEF BeginStop, CancelContext, ServerToggles, connVars, TypeOK
    <2>2. TypeOK'
      BY <2>1 DEF TypeOK
    <2>3. (ConnectionAccounting /\ BeatStartsOnce)'
      BY <2>1 DEF ConnectionAccounting, BeatStartsOnce
    <2>4. QED
      BY <1>4, <2>1, <2>2, <2>3
  <1>6. CASE ConnectionBreaks \/ ConnectionRecovers
    <2>1. /\ conn' \in {"ready", "broken"} /\ conn # "nil"
          /\ UNCHANGED <<serverUp, connected, openConns, reconnecting, attempt, pc, life,
                         ctxDone, crashed>>
      BY <1>6 DEF ConnectionBreaks, ConnectionRecovers
    <2>2. TypeOK'
      BY <2>1 DEF TypeOK
    <2>3. (ConnectionAccounting /\ BeatStartsOnce)'
      BY <2>1 DEF ConnectionAccounting, BeatStartsOnce
    <2>4. QED
      BY <1>4, <2>1, <2>2, <2>3
  <1>7. CASE Disconnect
    <2>1. openConns' = 0 /\ ConnectionAccounting'
      BY <1>7 DEF Disconnect, TypeOK, ConnectionAccounting
    <2>2. \A t \in Threads : pc'[t] = pc[t] \/ (pc[t] = "idle" /\ pc'[t] = "ended")
      BY <1>7 DEF Disconnect, Goto, TypeOK
    <2>3. TypeOK'
      <3>1. pc' \in [Threads -> Places]
        BY <1>7 DEF Disconnect, Goto, TypeOK, Places
      <3>2. /\ life' = "stopped" /\ connected' = FALSE /\ conn' = "nil"
            /\ UNCHANGED <<serverUp, reconnecting, attempt, ctxDone, crashed>>
        BY <1>7 DEF Disconnect
      <3>3. openConns' \in Nat
        BY <2>1
      <3>4. QED
        BY <3>1, <3>2, <3>3 DEF TypeOK
    <2>4. Reconnectors' = Reconnectors
      BY <2>2 DEF Reconnectors
    <2>5. (AttemptsLeft /\ DialsDisconnected)'
      BY <1>7, <2>1, <2>2 DEF Disconnect, AttemptsLeft, DialsDisconnected
    <2>6. (OneReconnector /\ BeatStartsOnce)'
      BY <1>7, <2>4 DEF Disconnect, OneReconnector, BeatStartsOnce
    <2>7. QED
      BY <2>1, <2>3, <2>5, <2>6
  <1>8. QED
    BY <1>1, <1>2, <1>3, <1>5, <1>6, <1>7 DEF LifecycleStep

LEMMA InvNext == Inv /\ [Next]_vars => Inv'
  <1> SUFFICES ASSUME Inv, [Next]_vars PROVE Inv'
    OBVIOUS
  <1>1. CASE UNCHANGED vars
    BY <1>1 DEF vars, connVars, Inv, TypeOK, AttemptsLeft, DialsDisconnected, OneReconnector,
       Reconnectors, ConnectionAccounting, BeatStartsOnce
  <1>2. CASE Next
    BY <1>2, InvAdvance, InvLifecycle DEF Next, LifecycleStep
  <1>3. QED
    BY <1>1, <1>2

(* The client's flags and counters keep their types, and no more attempts  *)
(* are made than MaxRetries.                                               *)
THEOREM TypeCorrect == Spec => []TypeOK
  <1>1. Inv => TypeOK
    BY DEF Inv
  <1>2. QED
    BY <1>1, InvInit, InvNext, PTL DEF Spec

(* However many goroutines reconnect, call and stop, connected says        *)
(* whether exactly one connection is open, and none is ever leaked.        *)
THEOREM ConnectionsAccounted == Spec => []ConnectionAccounting
  <1>1. Inv => ConnectionAccounting
    BY DEF Inv
  <1>2. QED
    BY <1>1, InvInit, InvNext, PTL DEF Spec

(* At most one goroutine reconnects, and reconnecting is set exactly while *)
(* one does: nobody waits in WaitForConnection for no one.                 *)
THEOREM ReconnectorIsAlone == Spec => []OneReconnector
  <1>1. Inv => OneReconnector
    BY DEF Inv
  <1>2. QED
    BY <1>1, InvInit, InvNext, PTL DEF Spec

=============================================================================
