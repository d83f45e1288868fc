-------------------------- MODULE PeriphGPIO_proofs --------------------------
(***************************************************************************)
(* Proofs about PeriphGPIO, for any threads, pins and bounds: an active    *)
(* PWM entry has a goroutine, and the driver with its lock, its objects    *)
(* and its goroutines implements PinDriver, the pins as a caller of the    *)
(* interface sees them.                                                    *)
(***************************************************************************)
EXTENDS PeriphGPIO, TLAPS

\* One thread at a time is in Lock, and its call stays within the bounds.
LockInv ==
  /\ \A t \in Threads : pc[t] = "lock" =>
       /\ request[t].op = "SetPWM" => routines < MaxRoutines
       /\ request[t].pwm => entries < MaxEntries
  /\ \A t, u \in Threads : pc[t] = "lock" /\ pc[u] = "lock" => t = u

\* No two pins share an object, and what will be created is nobody's yet.
ObjectInv ==
  /\ \A p \in Pins : entry[p] <= entries
  /\ \A o \in active : o <= entries
  /\ \A p, q \in Pins : entry[p] = entry[q] /\ entry[p] # 0 => p = q
  /\ \A g \in Routines : g > routines => routine[g].stage = "none"

PeriphInv == TypeOK /\ LockInv /\ ObjectInv /\ ActiveEntryIsDriven

\* What the proofs need of the constants.
LEMMA ConstantFacts ==
  /\ SomePin \in Pins
  /\ NoRequest \in Request
  /\ \A r \in Request : r.pin \in Pins /\ r.d \in Directions /\ r.pwm \in BOOLEAN
  /\ Objects = {o \in Nat : 1 <= o /\ o <= MaxEntries}
  /\ Routines = {g \in Nat : 1 <= g /\ g <= MaxRoutines}
  /\ MaxEntries \in Nat /\ MaxRoutines \in Nat
<1>1. SomePin \in Pins
  BY PeriphAssumption DEF PeriphAssumption, SomePin
<1>2. NoRequest \in Request
  BY <1>1 DEF NoRequest, Request, Directions
<1>3. \A r \in Request : r.pin \in Pins /\ r.d \in Directions /\ r.pwm \in BOOLEAN
  BY <1>1 DEF Request, Directions
<1>4. /\ Objects = {o \in Nat : 1 <= o /\ o <= MaxEntries}
      /\ Routines = {g \in Nat : 1 <= g /\ g <= MaxRoutines}
  BY PeriphAssumption DEF PeriphAssumption, Objects, Routines
<1> QED
  BY <1>1, <1>2, <1>3, <1>4, PeriphAssumption DEF PeriphAssumption

LEMMA PeriphInitially == Init => PeriphInv
<1> SUFFICES ASSUME Init PROVE PeriphInv
  OBVIOUS
<1> USE ConstantFacts
<1>1. TypeOK
  <2>1. /\ initialized \in BOOLEAN /\ loopCtx \in {"nil", "live", "cancelled"}
        /\ dir \in [Pins -> Directions \cup {"unconfigured"}]
        /\ mode \in [Pins -> Directions] /\ level \in [Pins -> BOOLEAN]
    BY DEF Init, Directions
  <2>2. /\ entry \in [Pins -> Objects \cup {0}] /\ entries \in 0..MaxEntries /\ active \subseteq Objects
        /\ routine \in [Routines -> [stage : {"none", "starting", "running", "returned"},
                                     pin : Pins, obj : Objects \cup {0}]]
        /\ routines \in 0..MaxRoutines
    BY DEF Init
  <2>3. /\ pc \in [Threads -> {"idle", "lock", "reading"}]
        /\ request \in [Threads -> Request] /\ todo \in [Threads -> SUBSET Pins]
    BY DEF Init
  <2> QED
    BY <2>1, <2>2, <2>3 DEF TypeOK
<1>2. LockInv /\ ObjectInv /\ ActiveEntryIsDriven
  BY DEF Init, LockInv, ObjectInv, ActiveEntryIsDriven
<1> QED
  BY <1>1, <1>2 DEF PeriphInv

-----------------------------------------------------------------------------
(* The steps, one at a time.                                               *)

\* The electrical state and the driver's map of directions are in no other
\* conjunct than the typing.
LEMMA PinsOnly ==
  ASSUME PeriphInv, UNCHANGED <<pwmVars, threadVars>>,
         initialized' \in BOOLEAN,
         dir' \in [Pins -> Directions \cup {"unconfigured"}],
         mode' \in [Pins -> Directions],
         level' \in [Pins -> BOOLEAN],
         loopCtx' \in {"nil", "live", "cancelled"}
  PROVE  PeriphInv'
BY DEF PeriphInv, TypeOK, LockInv, ObjectInv, ActiveEntryIsDriven, LiveRoutines, pwmVars, threadVars

\* A thread gives the lock back.
LEMMA LockedFacts ==
  ASSUME PeriphInv, NEW t \in Threads, NEW op, Locked(t, op)
  PROVE  /\ request[t] \in Request /\ request[t].op = op
         /\ pc' \in [Threads -> {"idle", "lock", "reading"}]
         /\ request' \in [Threads -> Request]
         /\ todo' = todo
         /\ \A u \in Threads : pc'[u] # "lock"
         /\ request[t].op = "SetPWM" => routines < MaxRoutines
         /\ request[t].pwm => entries < MaxEntries
<1>1. request[t] \in Request /\ request[t].op = op /\ todo' = todo
  BY DEF PeriphInv, TypeOK, Locked
<1>2. /\ pc' \in [Threads -> {"idle", "lock", "reading"}]
      /\ request' \in [Threads -> Request]
  BY ConstantFacts DEF PeriphInv, TypeOK, Locked
<1>3. \A u \in Threads : pc'[u] # "lock"
  BY DEF PeriphInv, TypeOK, LockInv, Locked
<1>4. /\ request[t].op = "SetPWM" => routines < MaxRoutines
      /\ request[t].pwm => entries < MaxEntries
  BY DEF PeriphInv, LockInv, Locked
<1> QED
  BY <1>1, <1>2, <1>3, <1>4

\* A call that leaves the objects and the goroutines alone.
LEMMA LockedPinsOnly ==
  ASSUME PeriphInv, NEW t \in Threads, NEW op, Locked(t, op), UNCHANGED pwmVars,
         initialized' \in BOOLEAN,
         dir' \in [Pins -> Directions \cup {"unconfigured"}],
         mode' \in [Pins -> Directions],
         level' \in [Pins -> BOOLEAN],
         loopCtx' \in {"nil", "live", "cancelled"}
  PROVE  PeriphInv'
<1>1. TypeOK'
  BY LockedFacts DEF PeriphInv, TypeOK, pwmVars
<1>2. LockInv'
  BY LockedFacts DEF LockInv
<1>3. ObjectInv' /\ ActiveEntryIsDriven'
  BY DEF PeriphInv, ObjectInv, ActiveEntryIsDriven, LiveRoutines, pwmVars
<1> QED
  BY <1>1, <1>2, <1>3 DEF PeriphInv

LEMMA CloseKeeps == ASSUME PeriphInv, NEW t \in Threads, Close(t) PROVE PeriphInv'
<1> USE ConstantFacts
<1>1. CASE ~initialized
  BY <1>1, LockedPinsOnly DEF Close, PeriphInv, TypeOK, pinVars
<1>2. CASE initialized
  <2>1. Locked(t, "Close") /\ UNCHANGED <<entries, active, routine, routines>>
    BY <1>2 DEF Close
  <2>2. entry' = [p \in Pins |-> 0]
    BY <1>2 DEF Close
  <2>3. TypeOK'
    <3>1. /\ initialized' \in BOOLEAN /\ loopCtx' \in {"nil", "live", "cancelled"}
          /\ dir' \in [Pins -> Directions \cup {"unconfigured"}]
      BY <1>2 DEF Close, PeriphInv, TypeOK
    <3>2. mode' \in [Pins -> Directions]
      <4>1. mode' = [p \in Pins |-> IF Reset(p) THEN "output" ELSE mode[p]]
        BY <1>2 DEF Close
      <4> QED
        BY <4>1 DEF PeriphInv, TypeOK, Directions
    <3>3. level' \in [Pins -> BOOLEAN]
      <4>1. level' = [p \in Pins |-> level[p] /\ ~Reset(p)]
        BY <1>2 DEF Close
      <4> QED
        BY <4>1
    <3> QED
      BY <2>1, <2>2, <3>1, <3>2, <3>3, LockedFacts DEF PeriphInv, TypeOK
  <2>4. LockInv'
    BY <2>1, LockedFacts DEF LockInv
  <2>5. ObjectInv'
    BY <2>1, <2>2 DEF PeriphInv, TypeOK, ObjectInv
  <2>6. ActiveEntryIsDriven'
    BY <2>1, <2>2 DEF PeriphInv, TypeOK, ActiveEntryIsDriven
  <2> QED
    BY <2>3, <2>4, <2>5, <2>6 DEF PeriphInv
<1> QED
  BY <1>1, <1>2

LEMMA ConfigurePinKeeps == ASSUME PeriphInv, NEW t \in Threads, ConfigurePin(t) PROVE PeriphInv'
<1> USE ConstantFacts
<1> DEFINE r == request[t]
           newEntry == r.pwm /\ r.pin \in ValidPWMPins
<1>1. CASE ~initialized
  BY <1>1, LockedPinsOnly DEF ConfigurePin, PeriphInv, TypeOK, pinVars
<1>2. CASE initialized
  <2>1. /\ Locked(t, "ConfigurePin")
        /\ entries' = IF newEntry THEN entries + 1 ELSE entries
        /\ entry' = IF newEntry THEN [entry EXCEPT ![r.pin] = entries + 1] ELSE entry
        /\ UNCHANGED <<initialized, active, routine, routines, loopCtx>>
    BY <1>2 DEF ConfigurePin
  <2>2. /\ r.pin \in Pins /\ r.d \in Directions /\ r.pwm \in BOOLEAN
        /\ newEntry => entries < MaxEntries
    BY <2>1, LockedFacts
  <2>3. /\ dir' \in [Pins -> Directions \cup {"unconfigured"}]
        /\ mode' \in [Pins -> Directions]
        /\ level' \in [Pins -> BOOLEAN]
    BY <1>2, <2>2 DEF ConfigurePin, PeriphInv, TypeOK
  <2>4. CASE ~newEntry
    BY <2>1, <2>3, <2>4, LockedPinsOnly DEF pwmVars, PeriphInv, TypeOK
  <2>5. CASE newEntry
    <3>1. entries \in Nat /\ entries + 1 \in Objects /\ entries' = entries + 1
      BY <2>1, <2>2, <2>5 DEF PeriphInv, TypeOK
    <3>2. \A p \in Pins : entry'[p] = IF p = r.pin THEN entries + 1 ELSE entry[p]
      BY <2>1, <2>2, <2>5 DEF PeriphInv, TypeOK
    <3>3. entry' \in [Pins -> Objects \cup {0}]
      BY <2>1, <2>2, <2>5, <3>1 DEF PeriphInv, TypeOK
    <3>4. TypeOK'
      BY <2>1, <2>3, <3>1, <3>3, LockedFacts DEF PeriphInv, TypeOK
    <3>5. LockInv'
      BY <2>1, LockedFacts DEF LockInv
    <3>6. ObjectInv'
      BY <2>1, <3>1, <3>2 DEF PeriphInv, TypeOK, ObjectInv
    <3>7. ActiveEntryIsDriven'
      <4> SUFFICES ASSUME NEW p \in Pins, entry'[p] \in active
                   PROVE  \E g \in LiveRoutines : /\ routine[g].pin = p
                                                  /\ routine[g].stage = "running" => routine[g].obj = entry'[p]
        BY <2>1 DEF ActiveEntryIsDriven, LiveRoutines
      <4>1. entries + 1 \notin active
        BY <3>1 DEF PeriphInv, TypeOK, ObjectInv
      <4>2. entry'[p] = entry[p]
        BY <3>2, <4>1
      <4> QED
        BY <4>2 DEF PeriphInv, ActiveEntryIsDriven
    <3> QED
      BY <3>4, <3>5, <3>6, <3>7 DEF PeriphInv
  <2> QED
    BY <2>4, <2>5
<1> QED
  BY <1>1, <1>2

LEMMA SetPWMKeeps == ASSUME PeriphInv, NEW t \in Threads, SetPWM(t) PROVE PeriphInv'
<1> USE ConstantFacts
<1> DEFINE p == request[t].pin
           started == initialized /\ entry[p] # 0 /\ entry[p] \notin active
           new == routines + 1
<1>1. Locked(t, "SetPWM") /\ UNCHANGED <<pinVars, entry, entries, loopCtx>>
  BY DEF SetPWM
<1>2. p \in Pins /\ new \in Routines /\ routines \in Nat
  BY <1>1, LockedFacts DEF PeriphInv, TypeOK
<1>3. CASE ~started
  BY <1>1, <1>3, LockedPinsOnly DEF SetPWM, PeriphInv, TypeOK, pinVars, pwmVars
<1>4. CASE started
  <2>1. /\ routines' = new
        /\ routine' = [routine EXCEPT ![new].stage = "starting", ![new].pin = p]
        /\ active' = active \cup {entry[p]}
    BY <1>4 DEF SetPWM
  <2>2. /\ routine' \in [Routines -> [stage : {"none", "starting", "running", "returned"},
                                      pin : Pins, obj : Objects \cup {0}]]
        /\ routine'[new].stage = "starting" /\ routine'[new].pin = p
        /\ \A g \in Routines : g # new => routine'[g] = routine[g]
    BY <1>2, <2>1 DEF PeriphInv, TypeOK
  <2>3. routine[new].stage = "none"
    BY <1>2 DEF PeriphInv, ObjectInv
  <2>4. entry[p] \in Objects
    BY <1>2, <1>4 DEF PeriphInv, TypeOK
  <2>5. TypeOK'
    <3>1. active' \subseteq Objects /\ routines' \in 0..MaxRoutines
      BY <1>2, <2>1, <2>4 DEF PeriphInv, TypeOK
    <3> QED
      BY <1>1, <2>2, <3>1, LockedFacts DEF PeriphInv, TypeOK, pinVars
  <2>6. LockInv'
    BY <1>1, LockedFacts DEF LockInv
  <2>7. ObjectInv'
    <3>1. \A o \in active' : o <= entries
      BY <1>2, <2>1 DEF PeriphInv, ObjectInv
    <3>2. \A g \in Routines : g > routines' => routine'[g].stage = "none"
      BY <1>2, <2>1, <2>2 DEF PeriphInv, ObjectInv
    <3> QED
      BY <1>1, <3>1, <3>2 DEF PeriphInv, ObjectInv
  <2>8. ActiveEntryIsDriven'
    <3> SUFFICES ASSUME NEW q \in Pins, entry[q] \in active'
                 PROVE  \E g \in Routines :
                          /\ routine'[g].stage \in {"starting", "running"}
                          /\ routine'[g].pin = q
                          /\ routine'[g].stage = "running" => routine'[g].obj = entry[q]
      BY <1>1 DEF ActiveEntryIsDriven, LiveRoutines
    <3>1. CASE q = p
      BY <1>2, <2>2, <3>1
    <3>2. CASE q # p
      <4>1. entry[q] # entry[p]
        BY <1>2, <1>4, <3>2 DEF PeriphInv, ObjectInv
      <4>2. entry[q] \in active
        BY <2>1, <4>1
      <4>3. PICK g \in LiveRoutines : /\ routine[g].pin = q
                                      /\ routine[g].stage = "running" => routine[g].obj = entry[q]
        BY <4>2 DEF PeriphInv, ActiveEntryIsDriven
      <4>4. g \in Routines /\ g # new /\ routine'[g] = routine[g]
        BY <2>2, <2>3, <4>3 DEF LiveRoutines
      <4> QED
        BY <4>3, <4>4 DEF LiveRoutines
    <3> QED
      BY <3>1, <3>2
  <2> QED
    BY <2>5, <2>6, <2>7, <2>8 DEF PeriphInv
<1> QED
  BY <1>3, <1>4

LEMMA CallLockKeeps ==
  ASSUME PeriphInv, NEW t \in Threads, NEW r \in Request, CallLock(t, r)
  PROVE  PeriphInv'
<1>1. /\ UNCHANGED <<pinVars, pwmVars, loopCtx, todo>>
      /\ pc' = [pc EXCEPT ![t] = "lock"]
      /\ request' = [request EXCEPT ![t] = r]
      /\ \A u \in Threads : pc[u] # "lock"
      /\ r.op = "SetPWM" => routines < MaxRoutines
      /\ r.pwm => entries < MaxEntries
  BY DEF CallLock, ReadLockFree
<1>2. TypeOK'
  BY <1>1 DEF PeriphInv, TypeOK, pinVars, pwmVars
<1>3. LockInv'
  BY <1>1 DEF PeriphInv, TypeOK, LockInv, pwmVars
<1>4. ObjectInv' /\ ActiveEntryIsDriven'
  BY <1>1 DEF PeriphInv, ObjectInv, ActiveEntryIsDriven, LiveRoutines, pwmVars
<1> QED
  BY <1>2, <1>3, <1>4 DEF PeriphInv

\* Readers take and leave the lock, and touch nothing.
LEMMA ReadersKeep ==
  ASSUME PeriphInv, UNCHANGED <<pinVars, pwmVars, loopCtx, request>>,
         pc' \in [Threads -> {"idle", "lock", "reading"}],
         todo' \in [Threads -> SUBSET Pins],
         \A t \in Threads : pc'[t] = "lock" => pc[t] = "lock"
  PROVE  PeriphInv'
<1>1. TypeOK'
  BY DEF PeriphInv, TypeOK, pinVars, pwmVars
<1>2. LockInv'
  BY DEF PeriphInv, TypeOK, LockInv, pwmVars
<1>3. ObjectInv' /\ ActiveEntryIsDriven'
  BY DEF PeriphInv, ObjectInv, ActiveEntryIsDriven, LiveRoutines, pwmVars
<1> QED
  BY <1>1, <1>2, <1>3 DEF PeriphInv

LEMMA RoutineStartsKeeps ==
  ASSUME PeriphInv, NEW g \in Routines, RoutineStarts(g) PROVE PeriphInv'
<1> DEFINE o == entry[routine[g].pin]
<1>1. /\ UNCHANGED <<pinVars, entry, entries, active, routines, loopCtx, threadVars>>
      /\ routine[g].stage = "starting"
      /\ routine' = [routine EXCEPT ![g].stage = IF o = 0 THEN "returned" ELSE "running", ![g].obj = o]
  BY DEF RoutineStarts
<1>2. routine[g].pin \in Pins /\ o \in Objects \cup {0}
  BY DEF PeriphInv, TypeOK
<1>3. /\ routine' \in [Routines -> [stage : {"none", "starting", "running", "returned"},
                                    pin : Pins, obj : Objects \cup {0}]]
      /\ routine'[g].stage = IF o = 0 THEN "returned" ELSE "running"
      /\ routine'[g].pin = routine[g].pin /\ routine'[g].obj = o
      /\ \A h \in Routines : h # g => routine'[h] = routine[h]
  BY <1>1, <1>2 DEF PeriphInv, TypeOK
<1>4. TypeOK'
  BY <1>1, <1>3 DEF PeriphInv, TypeOK, pinVars, threadVars
<1>5. LockInv' /\ ObjectInv'
  BY <1>1, <1>3 DEF PeriphInv, LockInv, ObjectInv, threadVars
<1>6. ActiveEntryIsDriven'
  <2>0. entry' = entry /\ active' = active
    BY <1>1
  <2> SUFFICES ASSUME NEW p \in Pins, entry[p] \in active
               PROVE  \E h \in Routines :
                        /\ routine'[h].stage \in {"starting", "running"}
                        /\ routine'[h].pin = p
                        /\ routine'[h].stage = "running" => routine'[h].obj = entry[p]
    BY <2>0 DEF ActiveEntryIsDriven, LiveRoutines
  <2>1. PICK h \in LiveRoutines : /\ routine[h].pin = p
                                  /\ routine[h].stage = "running" => routine[h].obj = entry[p]
    BY DEF PeriphInv, ActiveEntryIsDriven
  <2>2. CASE h # g
    BY <1>3, <2>1, <2>2 DEF LiveRoutines
  <2>3. CASE h = g
    <3>1. o = entry[p] /\ o # 0
      BY <2>1, <2>3, ConstantFacts DEF PeriphInv, TypeOK
    <3> QED
      BY <1>3, <2>1, <2>3, <3>1
  <2> QED
    BY <2>2, <2>3
<1> QED
  BY <1>4, <1>5, <1>6 DEF PeriphInv

LEMMA RoutineReturnsKeeps ==
  ASSUME PeriphInv, NEW g \in Routines, RoutineReturns(g) PROVE PeriphInv'
<1>1. /\ UNCHANGED <<pinVars, entry, entries, active, routines, loopCtx, threadVars>>
      /\ routine[g].stage = "running" /\ routine[g].obj \notin active
      /\ routine' = [routine EXCEPT ![g].stage = "returned"]
  BY DEF RoutineReturns
<1>2. /\ routine' \in [Routines -> [stage : {"none", "starting", "running", "returned"},
                                    pin : Pins, obj : Objects \cup {0}]]
      /\ routine'[g].stage = "returned"
      /\ \A h \in Routines : h # g => routine'[h] = routine[h]
  BY <1>1 DEF PeriphInv, TypeOK
<1>3. TypeOK'
  BY <1>1, <1>2 DEF PeriphInv, TypeOK, pinVars, threadVars
<1>4. LockInv' /\ ObjectInv'
  BY <1>1, <1>2 DEF PeriphInv, LockInv, ObjectInv, threadVars
<1>5. ActiveEntryIsDriven'
  <2> SUFFICES ASSUME NEW p \in Pins, entry[p] \in active
               PROVE  \E h \in Routines :
                        /\ routine'[h].stage \in {"starting", "running"}
                        /\ routine'[h].pin = p
                        /\ routine'[h].stage = "running" => routine'[h].obj = entry[p]
    BY <1>1 DEF ActiveEntryIsDriven, LiveRoutines
  <2>1. PICK h \in LiveRoutines : /\ routine[h].pin = p
                                  /\ routine[h].stage = "running" => routine[h].obj = entry[p]
    BY DEF PeriphInv, ActiveEntryIsDriven
  <2>2. h # g
    BY <1>1, <2>1
  <2> QED
    BY <1>2, <2>1, <2>2 DEF LiveRoutines
<1> QED
  BY <1>3, <1>4, <1>5 DEF PeriphInv

LEMMA PeriphStep == PeriphInv /\ [Next]_vars => PeriphInv'
<1> SUFFICES ASSUME PeriphInv, [Next]_vars PROVE PeriphInv'
  OBVIOUS
<1> USE ConstantFacts
<1>1. ASSUME NEW t \in Threads, Serve(t) PROVE PeriphInv'
  <2>1. CASE Initialize(t)
    BY <2>1, LockedPinsOnly DEF Initialize, PeriphInv, TypeOK
  <2>2. CASE EnableInterrupt(t) \/ DisableInterrupt(t)
    <3>1. PICK op : Locked(t, op) /\ UNCHANGED <<pwmVars, loopCtx>>
      BY <2>2 DEF EnableInterrupt, DisableInterrupt
    <3>2. request[t].pin \in Pins
      BY <3>1, LockedFacts
    <3>3. /\ UNCHANGED <<initialized, dir>>
          /\ mode' \in [Pins -> Directions] /\ level' \in [Pins -> BOOLEAN]
      BY <2>2, <3>2
      DEF EnableInterrupt, DisableInterrupt, SwitchToInput, PeriphInv, TypeOK, pinVars, Directions
    <3> QED
      BY <3>1, <3>3, LockedPinsOnly DEF PeriphInv, TypeOK
  <2>3. CASE StartEventLoop(t)
    BY <2>3, LockedPinsOnly DEF StartEventLoop, PeriphInv, TypeOK, pinVars
  <2>4. CASE StopEventLoop(t)
    BY <2>4, LockedPinsOnly DEF StopEventLoop, PeriphInv, TypeOK, pinVars
  <2>5. CASE ReadOne(t)
    BY <2>5, ReadersKeep DEF ReadOne, PeriphInv, TypeOK
  <2>6. CASE FinishReading(t)
    BY <2>6, ReadersKeep DEF FinishReading, PeriphInv, TypeOK
  <2> QED
    BY <1>1, <2>1, <2>2, <2>3, <2>4, <2>5, <2>6, CloseKeeps, ConfigurePinKeeps, SetPWMKeeps DEF Serve
<1>2. ASSUME NEW t \in Threads, Call(t) PROVE PeriphInv'
  <2>1. ASSUME NEW p \in Pins, NEW v \in BOOLEAN, WritePin(t, p, v) PROVE PeriphInv'
    BY <2>1, PinsOnly DEF WritePin, PeriphInv, TypeOK, Directions
  <2>2. ASSUME NEW wanted \in SUBSET Pins, StartReading(t, wanted) PROVE PeriphInv'
    BY <2>2, ReadersKeep DEF StartReading, PeriphInv, TypeOK
  <2> QED
    BY <1>2, <2>1, <2>2, CallLockKeeps DEF Call, GetPinState, ListConfiguredPins
<1>3. ASSUME NEW g \in Routines, RoutineToggles(g) PROVE PeriphInv'
  BY <1>3, PinsOnly DEF RoutineToggles, PeriphInv, TypeOK, Directions
<1>4. ASSUME NEW p \in Pins, InputEdge(p) PROVE PeriphInv'
  BY <1>4, PinsOnly DEF InputEdge, PeriphInv, TypeOK
<1>5. CASE UNCHANGED vars
  BY <1>5, PinsOnly DEF vars, pinVars, PeriphInv, TypeOK
<1> QED
  BY <1>1, <1>2, <1>3, <1>4, <1>5, RoutineStartsKeeps, RoutineReturnsKeeps DEF Next

THEOREM PeriphInvariance == Spec => []PeriphInv
BY PeriphInitially, PeriphStep, PTL DEF Spec

(* An active PWM entry always has a goroutine that drives it, or is about  *)
(* to look it up: SetPWM may skip starting one (periph.go).                *)
THEOREM ActiveEntriesDriven == Spec => []ActiveEntryIsDriven
<1>1. PeriphInv => ActiveEntryIsDriven
  BY DEF PeriphInv
<1> QED
  BY <1>1, PeriphInvariance, PTL

-----------------------------------------------------------------------------
(* The refinement.  What PinDriver sees as pwm and pwmDriven:              *)

PwmSeen == [p \in Pins |-> IF entry[p] = 0 THEN "none"
                           ELSE IF entry[p] \in active THEN "active" ELSE "idle"]

DrivenSeen == {routine[g].pin : g \in LiveRoutines}

\* When nothing that is seen changes, PinDriver stutters.
LEMMA SeenVariables ==
  ASSUME UNCHANGED <<initialized, dir, mode, level>>, PwmSeen' = PwmSeen, DrivenSeen' = DrivenSeen
  PROVE  UNCHANGED Promise!drvVars
BY DEF Promise!drvVars, PwmSeen, DrivenSeen

LEMMA InitImplements == Init => Promise!DrvInit
<1> SUFFICES ASSUME Init PROVE Promise!DrvInit
  OBVIOUS
<1>1. PwmSeen = [p \in Pins |-> "none"]
  BY DEF Init, PwmSeen
<1>2. DrivenSeen = {}
  BY DEF Init, DrivenSeen, LiveRoutines
<1> QED
  BY <1>1, <1>2 DEF Init, Promise!DrvInit, PwmSeen, DrivenSeen

\* A step that touches neither objects nor goroutines is seen as it is.
LEMMA SeenStays == ASSUME UNCHANGED pwmVars PROVE PwmSeen' = PwmSeen /\ DrivenSeen' = DrivenSeen
BY DEF pwmVars, PwmSeen, DrivenSeen, LiveRoutines

LEMMA CloseImplements ==
  ASSUME PeriphInv, NEW t \in Threads, Close(t), initialized
  PROVE  Promise!DrvClose
<1> DEFINE reset == {p \in Pins : dir[p] = "output" \/ PwmSeen[p] = "active"} \ {}
<1>1. /\ mode' = [p \in Pins |-> IF Reset(p) THEN "output" ELSE mode[p]]
      /\ level' = [p \in Pins |-> level[p] /\ ~Reset(p)]
      /\ dir' = [p \in Pins |-> "unconfigured"]
      /\ entry' = [p \in Pins |-> 0]
      /\ initialized' = FALSE
      /\ UNCHANGED <<active, routine>>
  BY DEF Close
<1>2. \A p \in Pins : Reset(p) <=> p \in reset
  BY DEF Reset, PwmSeen
<1>3. mode' = [p \in Pins |-> IF p \in reset THEN "output" ELSE mode[p]]
  BY <1>1, <1>2
<1>4. level' = [p \in Pins |-> level[p] /\ p \notin reset]
  BY <1>1, <1>2
<1>5. PwmSeen' = [p \in Pins |-> "none"]
  BY <1>1 DEF PwmSeen
<1>6. DrivenSeen' = DrivenSeen
  BY <1>1 DEF DrivenSeen, LiveRoutines
<1> HIDE DEF reset
<1>7. \E skipped \in SUBSET {} :
        LET r == {p \in Pins : dir[p] = "output" \/ PwmSeen[p] = "active"} \ skipped
        IN  /\ mode' = [p \in Pins |-> IF p \in r THEN "output" ELSE mode[p]]
            /\ level' = [p \in Pins |-> level[p] /\ p \notin r]
  BY <1>3, <1>4 DEF reset
<1> QED
  BY <1>1, <1>5, <1>6, <1>7 DEF Promise!DrvClose, PwmSeen, DrivenSeen

LEMMA ConfigureImplements ==
  ASSUME PeriphInv, NEW t \in Threads, ConfigurePin(t), initialized,
         NEW r, r = request[t]
  PROVE  Promise!DrvConfigure(r.pin, r.d, r.pwm, r.pwm => r.pin \in ValidPWMPins)
<1> DEFINE newEntry == r.pwm /\ r.pin \in ValidPWMPins
<1>1. /\ Locked(t, "ConfigurePin")
      /\ dir' = [dir EXCEPT ![r.pin] = r.d]
      /\ mode' = [mode EXCEPT ![r.pin] = r.d]
      /\ \E outside \in BOOLEAN : level' = [level EXCEPT ![r.pin] = r.d = "input" /\ outside]
      /\ entries' = IF newEntry THEN entries + 1 ELSE entries
      /\ entry' = IF newEntry THEN [entry EXCEPT ![r.pin] = entries + 1] ELSE entry
      /\ UNCHANGED <<initialized, active, routine>>
  BY DEF ConfigurePin
<1>2. r.pin \in Pins
  BY <1>1, LockedFacts, ConstantFacts
<1>3. entries + 1 # 0 /\ entries + 1 \notin active
  BY ConstantFacts DEF PeriphInv, TypeOK, ObjectInv
<1>4. PwmSeen' = [PwmSeen EXCEPT ![r.pin] = IF newEntry THEN "idle" ELSE @]
  <2>1. CASE newEntry
    <3>1. \A p \in Pins : entry'[p] = IF p = r.pin THEN entries + 1 ELSE entry[p]
      BY <1>1, <2>1 DEF PeriphInv, TypeOK
    <3>2. PwmSeen' = [p \in Pins |-> IF p = r.pin THEN "idle" ELSE PwmSeen[p]]
      BY <1>1, <1>3, <3>1 DEF PwmSeen
    <3> QED
      BY <1>2, <2>1, <3>2 DEF PwmSeen
  <2>2. CASE ~newEntry
    BY <1>1, <2>2 DEF PwmSeen
  <2> QED
    BY <2>1, <2>2
<1>5. DrivenSeen' = DrivenSeen
  BY <1>1 DEF DrivenSeen, LiveRoutines
<1> QED
  BY <1>1, <1>4, <1>5 DEF Promise!DrvConfigure, PwmSeen, DrivenSeen, Promise!ValidPWMPins, ValidPWMPins

\* SetPWM starts one goroutine, and only for an idle entry.
LEMMA SetPWMImplements ==
  ASSUME PeriphInv, NEW t \in Threads, SetPWM(t), NEW p \in Pins, p = request[t].pin
  PROVE  Promise!DrvSetPWM(p) \/ UNCHANGED Promise!drvVars
<1> DEFINE started == initialized /\ entry[p] # 0 /\ entry[p] \notin active
           new == routines + 1
<1>1. Locked(t, "SetPWM") /\ UNCHANGED <<pinVars, entry, entries, loopCtx>>
  BY DEF SetPWM
<1>2. new \in Routines /\ routines \in Nat
  BY <1>1, LockedFacts, ConstantFacts DEF PeriphInv, TypeOK
<1>3. CASE ~started
  <2>1. UNCHANGED pwmVars
    BY <1>1, <1>3 DEF SetPWM, pwmVars
  <2> QED
    BY <1>1, <2>1, SeenStays, SeenVariables DEF pinVars
<1>4. CASE started
  <2>1. /\ routine' = [routine EXCEPT ![new].stage = "starting", ![new].pin = p]
        /\ active' = active \cup {entry[p]}
    BY <1>4 DEF SetPWM
  <2>2. /\ routine'[new].stage = "starting" /\ routine'[new].pin = p
        /\ \A g \in Routines : g # new => routine'[g] = routine[g]
    BY <1>2, <2>1 DEF PeriphInv, TypeOK
  <2>3. routine[new].stage = "none"
    BY <1>2, ConstantFacts DEF PeriphInv, ObjectInv
  <2>4. DrivenSeen' = DrivenSeen \cup {p}
    BY <1>2, <2>2, <2>3 DEF DrivenSeen, LiveRoutines
  <2>5. entry' = entry /\ \A q \in Pins : q # p => entry[q] # entry[p]
    BY <1>1, <1>2, <1>4 DEF PeriphInv, ObjectInv
  <2>6. PwmSeen' = [PwmSeen EXCEPT ![p] = "active"]
    BY <1>2, <1>4, <2>1, <2>5 DEF PwmSeen
  <2>7. PwmSeen[p] = "idle"
    BY <1>2, <1>4 DEF PwmSeen
  <2> QED
    BY <1>1, <1>4, <2>4, <2>6, <2>7
    DEF Promise!DrvSetPWM, Promise!DrvPWMReady, PwmSeen, DrivenSeen, pinVars
<1> QED
  BY <1>3, <1>4

\* A goroutine that returns may have been the last on its pin.
LEMMA LeavingImplements ==
  ASSUME PeriphInv, NEW g \in Routines, g \in LiveRoutines,
         UNCHANGED <<initialized, dir, mode, level, entry, active>>,
         routine'[g].stage = "returned",
         \A h \in Routines : h # g => routine'[h] = routine[h],
         NEW p \in Pins, p = routine[g].pin
  PROVE  Promise!DrvPWMReturns(p) \/ UNCHANGED Promise!drvVars
<1>1. PwmSeen' = PwmSeen
  BY DEF PwmSeen
<1>2. LiveRoutines' = LiveRoutines \ {g}
  BY DEF LiveRoutines
<1>3. DrivenSeen' = {routine[h].pin : h \in LiveRoutines \ {g}}
  BY <1>2 DEF DrivenSeen, LiveRoutines
<1>4. CASE \E h \in LiveRoutines \ {g} : routine[h].pin = routine[g].pin
  <2>1. DrivenSeen' = DrivenSeen
    BY <1>3, <1>4 DEF DrivenSeen
  <2> QED
    BY <1>1, <2>1, SeenVariables
<1>5. CASE ~\E h \in LiveRoutines \ {g} : routine[h].pin = routine[g].pin
  <2>1. DrivenSeen' = DrivenSeen \ {p}
    BY <1>3, <1>5 DEF DrivenSeen
  <2>2. p \in DrivenSeen
    BY DEF DrivenSeen
  <2> QED
    BY <1>1, <2>1, <2>2 DEF Promise!DrvPWMReturns, PwmSeen, DrivenSeen
<1> QED
  BY <1>4, <1>5

LEMMA ServeImplements ==
  ASSUME PeriphInv, NEW t \in Threads, Serve(t)
  PROVE  Promise!DrvCall \/ UNCHANGED Promise!drvVars
<1> USE ConstantFacts
<1>1. CASE Initialize(t)
  <2>1. PwmSeen' = PwmSeen /\ DrivenSeen' = DrivenSeen
    BY <1>1, SeenStays DEF Initialize
  <2>2. /\ initialized' = TRUE /\ UNCHANGED <<dir, mode, level>>
    BY <1>1 DEF Initialize
  <2>3. CASE initialized
    BY <2>1, <2>2, <2>3, SeenVariables DEF PeriphInv, TypeOK
  <2>4. CASE ~initialized
    BY <2>1, <2>2, <2>4 DEF Promise!DrvCall, Promise!DrvInitialize, PwmSeen, DrivenSeen
  <2> QED
    BY <2>3, <2>4
<1>2. CASE Close(t)
  <2>1. CASE initialized
    BY <1>2, <2>1, CloseImplements DEF Promise!DrvCall
  <2>2. CASE ~initialized
    BY <1>2, <2>2, SeenStays, SeenVariables DEF Close, pinVars
  <2> QED
    BY <2>1, <2>2
<1>3. CASE ConfigurePin(t)
  <2>1. CASE initialized
    <3>1. Locked(t, "ConfigurePin")
      BY <1>3 DEF ConfigurePin
    <3>2. PICK r \in Request : r = request[t]
      BY <3>1, LockedFacts
    <3>3. Promise!DrvConfigure(r.pin, r.d, r.pwm, r.pwm => r.pin \in ValidPWMPins)
      BY <1>3, <2>1, <3>2, ConfigureImplements
    <3>4. (r.pwm => r.pin \in ValidPWMPins) \in BOOLEAN
      OBVIOUS
    <3> QED
      BY <3>3, <3>4 DEF Promise!DrvCall, Promise!Directions, Directions
  <2>2. CASE ~initialized
    BY <1>3, <2>2, SeenStays, SeenVariables DEF ConfigurePin, pinVars
  <2> QED
    BY <2>1, <2>2
<1>4. CASE SetPWM(t)
  <2>1. PICK p \in Pins : p = request[t].pin
    BY <1>4, LockedFacts DEF SetPWM
  <2> QED
    BY <1>4, <2>1, SetPWMImplements DEF Promise!DrvCall
<1>5. CASE EnableInterrupt(t)
  <2>1. request[t].pin \in Pins /\ PwmSeen' = PwmSeen /\ DrivenSeen' = DrivenSeen
    BY <1>5, LockedFacts, SeenStays DEF EnableInterrupt
  <2>2. CASE initialized /\ dir[request[t].pin] = "input"
    BY <1>5, <2>1, <2>2
    DEF EnableInterrupt, SwitchToInput, Promise!DrvCall, Promise!DrvEnableInterrupt,
        Promise!DrvInterruptible, Promise!DrvSwitchToInput, PwmSeen, DrivenSeen
  <2>3. CASE ~(initialized /\ dir[request[t].pin] = "input")
    BY <1>5, <2>1, <2>3, SeenVariables DEF EnableInterrupt, pinVars
  <2> QED
    BY <2>2, <2>3
<1>6. CASE DisableInterrupt(t)
  <2>1. request[t].pin \in Pins /\ PwmSeen' = PwmSeen /\ DrivenSeen' = DrivenSeen
    BY <1>6, LockedFacts, SeenStays DEF DisableInterrupt
  <2>2. CASE dir[request[t].pin] # "unconfigured"
    BY <1>6, <2>1, <2>2
    DEF DisableInterrupt, SwitchToInput, Promise!DrvCall, Promise!DrvDisableInterrupt,
        Promise!Configured, Promise!DrvSwitchToInput, PwmSeen, DrivenSeen
  <2>3. CASE dir[request[t].pin] = "unconfigured"
    BY <1>6, <2>1, <2>3, SeenVariables DEF DisableInterrupt, pinVars
  <2> QED
    BY <2>2, <2>3
<1>7. CASE StartEventLoop(t) \/ StopEventLoop(t) \/ ReadOne(t) \/ FinishReading(t)
  <2>1. UNCHANGED <<pinVars, pwmVars>>
    BY <1>7 DEF StartEventLoop, StopEventLoop, ReadOne, FinishReading
  <2> QED
    BY <2>1, SeenStays, SeenVariables DEF pinVars
<1> QED
  BY <1>1, <1>2, <1>3, <1>4, <1>5, <1>6, <1>7 DEF Serve

LEMMA CallImplements ==
  ASSUME PeriphInv, NEW t \in Threads, Call(t)
  PROVE  Promise!DrvCall \/ UNCHANGED Promise!drvVars
<1>1. ASSUME NEW p \in Pins, NEW v \in BOOLEAN, WritePin(t, p, v) PROVE Promise!DrvCall
  <2>1. PwmSeen' = PwmSeen /\ DrivenSeen' = DrivenSeen
    BY <1>1, SeenStays DEF WritePin
  <2>2. Promise!DrvWrite(p, v)
    BY <1>1, <2>1 DEF WritePin, Promise!DrvWrite, Promise!DrvWritable, PwmSeen, DrivenSeen
  <2> QED
    BY <2>2 DEF Promise!DrvCall
<1>2. ASSUME UNCHANGED <<pinVars, pwmVars>> PROVE UNCHANGED Promise!drvVars
  BY <1>2, SeenStays, SeenVariables DEF pinVars
<1> QED
  BY <1>1, <1>2 DEF Call, CallLock, GetPinState, ListConfiguredPins, StartReading

LEMMA RoutineImplements ==
  ASSUME PeriphInv, NEW g \in Routines,
         RoutineStarts(g) \/ RoutineToggles(g) \/ RoutineReturns(g)
  PROVE  Promise!DrvBackground \/ UNCHANGED Promise!drvVars
<1>1. PICK p \in Pins : p = routine[g].pin
  BY DEF PeriphInv, TypeOK
<1>2. CASE RoutineStarts(g)
  <2>1. /\ routine[g].stage = "starting" /\ UNCHANGED <<pinVars, entry, active>>
        /\ routine' = [routine EXCEPT ![g].stage = IF entry[p] = 0 THEN "returned" ELSE "running",
                                      ![g].obj = entry[p]]
    BY <1>1, <1>2 DEF RoutineStarts
  <2>2. /\ routine'[g].stage = IF entry[p] = 0 THEN "returned" ELSE "running"
        /\ routine'[g].pin = p
        /\ \A h \in Routines : h # g => routine'[h] = routine[h]
    BY <1>1, <2>1 DEF PeriphInv, TypeOK
  <2>3. CASE entry[p] = 0
    BY <1>1, <2>1, <2>2, <2>3, LeavingImplements DEF LiveRoutines, pinVars, Promise!DrvBackground
  <2>4. CASE entry[p] # 0
    <3>1. \A h \in Routines :
             /\ routine'[h].pin = routine[h].pin
             /\ routine'[h].stage \in {"starting", "running"} <=> routine[h].stage \in {"starting", "running"}
      BY <1>1, <2>1, <2>2, <2>4
    <3>2. DrivenSeen' = DrivenSeen
      BY <3>1 DEF DrivenSeen, LiveRoutines
    <3>3. PwmSeen' = PwmSeen
      BY <2>1 DEF PwmSeen
    <3> QED
      BY <2>1, <3>2, <3>3, SeenVariables DEF pinVars
  <2> QED
    BY <2>3, <2>4
<1>3. CASE RoutineToggles(g)
  <2>1. PwmSeen' = PwmSeen /\ DrivenSeen' = DrivenSeen
    BY <1>3, SeenStays DEF RoutineToggles
  <2>2. p \in DrivenSeen
    BY <1>1, <1>3 DEF RoutineToggles, DrivenSeen, LiveRoutines
  <2>3. Promise!DrvToggle(p)
    BY <1>1, <1>3, <2>1, <2>2 DEF RoutineToggles, Promise!DrvToggle, PwmSeen, DrivenSeen
  <2> QED
    BY <1>1, <2>3 DEF Promise!DrvBackground
<1>4. CASE RoutineReturns(g)
  <2>1. /\ routine[g].stage = "running" /\ UNCHANGED <<pinVars, entry, active>>
        /\ routine'[g].stage = "returned"
        /\ \A h \in Routines : h # g => routine'[h] = routine[h]
    BY <1>4 DEF RoutineReturns, PeriphInv, TypeOK
  <2> QED
    BY <1>1, <2>1, LeavingImplements DEF LiveRoutines, pinVars, Promise!DrvBackground
<1> QED
  BY <1>2, <1>3, <1>4

LEMMA EdgeImplements ==
  ASSUME NEW p \in Pins, InputEdge(p) PROVE Promise!DrvBackground
<1>1. PwmSeen' = PwmSeen /\ DrivenSeen' = DrivenSeen
  BY SeenStays DEF InputEdge
<1>2. Promise!InputEdge(p)
  BY <1>1 DEF InputEdge, Promise!InputEdge, PwmSeen, DrivenSeen
<1> QED
  BY <1>2 DEF Promise!DrvBackground

(* The driver with its lock, its PWM objects and goroutines implements the *)
(* driver as its callers see it: every one of its steps is one of          *)
(* PinDriver's, or changes nothing that a caller sees (periph.go).         *)
THEOREM PeriphImplements == Spec => ImplementsPinDriver
<1>1. PeriphInv /\ [Next]_vars => [Promise!DrvNext]_(Promise!drvVars)
  <2> SUFFICES ASSUME PeriphInv, [Next]_vars
               PROVE  Promise!DrvNext \/ UNCHANGED Promise!drvVars
    OBVIOUS
  <2>1. CASE UNCHANGED vars
    BY <2>1, SeenStays, SeenVariables DEF vars, pinVars
  <2> QED
    BY <2>1, ServeImplements, CallImplements, RoutineImplements, EdgeImplements
    DEF Next, Promise!DrvNext
<1> QED
  BY <1>1, InitImplements, PeriphInvariance, PTL DEF Spec, ImplementsPinDriver, Promise!DrvSpec

=============================================================================
