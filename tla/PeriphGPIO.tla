----------------------------- MODULE PeriphGPIO -----------------------------
(***************************************************************************)
(* pkg/gpio/periph.go: the periph.io driver with its read-write lock, its  *)
(* PWM entries and the goroutines that toggle PWM pins.                    *)
(*                                                                         *)
(* The lock is Go's sync.RWMutex: a waiting writer keeps new readers out,  *)
(* and a reader that takes the read lock a second time is a new reader.    *)
(* A call that changes the driver waits for the lock and then runs as one  *)
(* step (a second writer waits outside, as if it had not called yet).      *)
(* ReadPin and WritePin take the read lock once and touch one line, so     *)
(* they are one step.  GetPinState and ListConfiguredPins take it again    *)
(* for every pin while they hold it, so each of those is a step.           *)
(*                                                                         *)
(* A PWM entry is an object: ConfigurePin replaces the entry of a pin by a *)
(* new object while a goroutine may still run on the old one.  Goroutines  *)
(* that watch edges never touch the pins and are left out.                 *)
(***************************************************************************)
EXTENDS Integers, FiniteSets

CONSTANTS
  Threads,     \* goroutines calling the driver
  Pins,        \* BCM pin numbers
  MaxEntries,  \* bound on the PWM objects ever created
  MaxRoutines  \* bound on the PWM goroutines ever started

ASSUME PeriphAssumption ==
  /\ Pins \subseteq Int
  /\ Pins # {}
  /\ MaxEntries \in Nat
  /\ MaxRoutines \in Nat

VARIABLES
  initialized,  \* PeriphGPIO.initialized
  dir,          \* pins[p].config.Direction, "unconfigured" when p is not a key
  mode,         \* electrical mode of the pin
  level,        \* level on the pin, TRUE for high
  entry,        \* pwmPins[p]: the object's number, 0 when p is not a key
  entries,      \* how many PWM objects were created
  active,       \* the objects whose active flag is set
  routine,      \* PWM goroutine g: its stage, its pin and its object
  routines,     \* how many PWM goroutines were started
  loopCtx,      \* eventLoopCtx: "nil", "live" or "cancelled"
  pc,           \* each thread: "idle", "lock" (waiting in Lock), "reading"
  request,      \* the call a thread in "lock" is making
  todo          \* pins a thread in "reading" has still to read

pinVars == <<initialized, dir, mode, level>>
pwmVars == <<entry, entries, active, routine, routines>>
threadVars == <<pc, request, todo>>
vars == <<pinVars, pwmVars, loopCtx, threadVars>>

Directions == {"input", "output"}
ValidPWMPins == {12, 13, 18, 19}

Objects == 1..MaxEntries
Routines == 1..MaxRoutines

SomePin == CHOOSE p \in Pins : TRUE

Request ==
  [op : {"Initialize", "Close", "StartEventLoop", "StopEventLoop"},
   pin : {SomePin}, d : {"input"}, pwm : {FALSE}]
  \cup [op : {"SetPWM", "EnableInterrupt", "DisableInterrupt"},
        pin : Pins, d : {"input"}, pwm : {FALSE}]
  \cup [op : {"ConfigurePin"}, pin : Pins, d : Directions, pwm : BOOLEAN]

NoRequest == [op |-> "Close", pin |-> SomePin, d |-> "input", pwm |-> FALSE]

TypeOK ==
  /\ initialized \in BOOLEAN
  /\ dir \in [Pins -> Directions \cup {"unconfigured"}]
  /\ mode \in [Pins -> Directions]
  /\ level \in [Pins -> BOOLEAN]
  /\ entry \in [Pins -> Objects \cup {0}]
  /\ entries \in 0..MaxEntries
  /\ active \subseteq Objects
  /\ routine \in [Routines -> [stage : {"none", "starting", "running", "returned"},
                               pin : Pins, obj : Objects \cup {0}]]
  /\ routines \in 0..MaxRoutines
  /\ loopCtx \in {"nil", "live", "cancelled"}
  /\ pc \in [Threads -> {"idle", "lock", "reading"}]
  /\ request \in [Threads -> Request]
  /\ todo \in [Threads -> SUBSET Pins]

Init ==
  /\ initialized = FALSE
  /\ dir = [p \in Pins |-> "unconfigured"]
  /\ mode = [p \in Pins |-> "input"]
  /\ level = [p \in Pins |-> FALSE]
  /\ entry = [p \in Pins |-> 0]
  /\ entries = 0
  /\ active = {}
  /\ routine = [g \in Routines |-> [stage |-> "none", pin |-> SomePin, obj |-> 0]]
  /\ routines = 0
  /\ loopCtx = "nil"
  /\ pc = [t \in Threads |-> "idle"]
  /\ request = [t \in Threads |-> NoRequest]
  /\ todo = [t \in Threads |-> {}]

-----------------------------------------------------------------------------
(* The lock.                                                               *)
ReadLockFree == \A t \in Threads : pc[t] # "lock"
WriteLockFree == \A t \in Threads : pc[t] # "reading"

(* A thread calls Lock (within the bounds on objects and goroutines).      *)
CallLock(t, r) ==
  /\ pc[t] = "idle"
  /\ ReadLockFree
  /\ r.op = "SetPWM" => routines < MaxRoutines
  /\ r.pwm => entries < MaxEntries
  /\ pc' = [pc EXCEPT ![t] = "lock"]
  /\ request' = [request EXCEPT ![t] = r]
  /\ UNCHANGED <<pinVars, pwmVars, loopCtx, todo>>

(* It has the lock, and will release it at the end of the step.            *)
Locked(t, op) ==
  /\ pc[t] = "lock"
  /\ WriteLockFree
  /\ request[t].op = op
  /\ pc' = [pc EXCEPT ![t] = "idle"]
  /\ request' = [request EXCEPT ![t] = NoRequest]
  /\ UNCHANGED todo

Initialize(t) ==
  /\ Locked(t, "Initialize")
  /\ initialized' = TRUE
  /\ UNCHANGED <<dir, mode, level, pwmVars, loopCtx>>

Reset(p) == dir[p] = "output" \/ (entry[p] # 0 /\ entry[p] \in active)

Close(t) ==
  /\ Locked(t, "Close")
  /\ \/ ~initialized /\ UNCHANGED <<pinVars, pwmVars, loopCtx>>
     \/ /\ initialized
        /\ loopCtx' = IF loopCtx = "live" THEN "cancelled" ELSE loopCtx
        /\ mode' = [p \in Pins |-> IF Reset(p) THEN "output" ELSE mode[p]]
        /\ level' = [p \in Pins |-> level[p] /\ ~Reset(p)]
        /\ dir' = [p \in Pins |-> "unconfigured"]
        /\ entry' = [p \in Pins |-> 0]
        /\ initialized' = FALSE
        /\ UNCHANGED <<entries, active, routine, routines>>

(* A wrong ConfigurePin whose new PWM objects are already active.          *)
ConfigurePin_Active(t) ==
  LET r == request[t]
      newEntry == initialized /\ r.pwm /\ r.pin \in ValidPWMPins
  IN
  /\ Locked(t, "ConfigurePin")
  /\ IF initialized
       THEN /\ dir' = [dir EXCEPT ![r.pin] = r.d]
            /\ mode' = [mode EXCEPT ![r.pin] = r.d]
            /\ level' = [level EXCEPT ![r.pin] = FALSE]
       ELSE UNCHANGED <<dir, mode, level>>
  /\ IF newEntry
       THEN /\ entries' = entries + 1
            /\ entry' = [entry EXCEPT ![r.pin] = entries + 1]
            /\ active' = active \cup {entries + 1}
       ELSE UNCHANGED <<entries, entry, active>>
  /\ UNCHANGED <<initialized, routine, routines, loopCtx>>

(* ConfigurePin stores the pin and then, with a PWM frequency, puts a new  *)
(* inactive object in pwmPins (configurePWM), or fails on a pin without    *)
(* PWM; either way the pin stays stored.                                   *)
ConfigurePin(t) ==
  LET r == request[t]
      newEntry == r.pwm /\ r.pin \in ValidPWMPins
  IN
  /\ Locked(t, "ConfigurePin")
  /\ \/ ~initialized /\ UNCHANGED <<pinVars, pwmVars>>
     \/ /\ initialized
        /\ dir' = [dir EXCEPT ![r.pin] = r.d]
        /\ mode' = [mode EXCEPT ![r.pin] = r.d]
        /\ \E outside \in BOOLEAN :
             level' = [level EXCEPT ![r.pin] = r.d = "input" /\ outside]
        /\ entries' = IF newEntry THEN entries + 1 ELSE entries
        /\ entry' = IF newEntry THEN [entry EXCEPT ![r.pin] = entries + 1] ELSE entry
        /\ UNCHANGED <<initialized, active, routine, routines>>
  /\ UNCHANGED loopCtx

(* SetPWM starts a goroutine when the object's active flag is not set, and *)
(* sets it.  The goroutine will look its object up by pin number.          *)
SetPWM(t) ==
  LET p == request[t].pin IN
  /\ Locked(t, "SetPWM")
  /\ IF initialized /\ entry[p] # 0 /\ entry[p] \notin active
       THEN /\ routines' = routines + 1
            /\ routine' = [routine EXCEPT ![routines + 1].stage = "starting",
                                          ![routines + 1].pin = p]
            /\ active' = active \cup {entry[p]}
       ELSE UNCHANGED <<routines, routine, active>>
  /\ UNCHANGED <<pinVars, entry, entries, loopCtx>>

(* EnableInterrupt and DisableInterrupt call In on the line.               *)
SwitchToInput(p) ==
  /\ mode' = [mode EXCEPT ![p] = "input"]
  /\ \E outside \in BOOLEAN : level' = [level EXCEPT ![p] = outside]
  /\ UNCHANGED <<initialized, dir>>

EnableInterrupt(t) ==
  LET p == request[t].pin IN
  /\ Locked(t, "EnableInterrupt")
  /\ IF initialized /\ dir[p] = "input" THEN SwitchToInput(p) ELSE UNCHANGED pinVars
  /\ UNCHANGED <<pwmVars, loopCtx>>

DisableInterrupt(t) ==
  LET p == request[t].pin IN
  /\ Locked(t, "DisableInterrupt")
  /\ IF dir[p] # "unconfigured" THEN SwitchToInput(p) ELSE UNCHANGED pinVars
  /\ UNCHANGED <<pwmVars, loopCtx>>

StartEventLoop(t) ==
  /\ Locked(t, "StartEventLoop")
  /\ loopCtx' = IF loopCtx = "nil" THEN "live" ELSE loopCtx
  /\ UNCHANGED <<pinVars, pwmVars>>

StopEventLoop(t) ==
  /\ Locked(t, "StopEventLoop")
  /\ loopCtx' = "nil"
  /\ UNCHANGED <<pinVars, pwmVars>>

-----------------------------------------------------------------------------
(* A wrong WritePin that drives any pin that is stored.                    *)
WritePin_AnyStored(t, p, v) ==
  /\ pc[t] = "idle"
  /\ ReadLockFree
  /\ initialized /\ dir[p] # "unconfigured"
  /\ mode' = [mode EXCEPT ![p] = "output"]
  /\ level' = [level EXCEPT ![p] = v]
  /\ UNCHANGED <<initialized, dir, pwmVars, loopCtx, threadVars>>

(* WritePin, under one read lock.                                          *)
WritePin(t, p, v) ==
  /\ pc[t] = "idle"
  /\ ReadLockFree
  /\ initialized /\ dir[p] = "output"
  /\ mode' = [mode EXCEPT ![p] = "output"]
  /\ level' = [level EXCEPT ![p] = v]
  /\ UNCHANGED <<initialized, dir, pwmVars, loopCtx, threadVars>>

(* GetPinState and ListConfiguredPins take the read lock and then, still   *)
(* holding it, take it again for each pin they read.                       *)
StartReading(t, wanted) ==
  /\ pc[t] = "idle"
  /\ ReadLockFree
  /\ pc' = [pc EXCEPT ![t] = "reading"]
  /\ todo' = [todo EXCEPT ![t] = wanted]
  /\ UNCHANGED <<pinVars, pwmVars, loopCtx, request>>

GetPinState(t, p) == dir[p] # "unconfigured" /\ StartReading(t, {p})

ListConfiguredPins(t) == StartReading(t, {p \in Pins : dir[p] # "unconfigured"})

ReadOne(t) ==
  /\ pc[t] = "reading"
  /\ ReadLockFree
  /\ \E p \in todo[t] : todo' = [todo EXCEPT ![t] = @ \ {p}]
  /\ UNCHANGED <<pinVars, pwmVars, loopCtx, pc, request>>

FinishReading(t) ==
  /\ pc[t] = "reading"
  /\ todo[t] = {}
  /\ pc' = [pc EXCEPT ![t] = "idle"]
  /\ UNCHANGED <<pinVars, pwmVars, loopCtx, request, todo>>

-----------------------------------------------------------------------------
(* runSoftwarePWM looks its object up under the read lock, ...             *)
RoutineStarts(g) ==
  LET o == entry[routine[g].pin] IN
  /\ routine[g].stage = "starting"
  /\ ReadLockFree
  /\ routine' = [routine EXCEPT ![g].stage = IF o = 0 THEN "returned" ELSE "running",
                                ![g].obj = o]
  /\ UNCHANGED <<pinVars, entry, entries, active, routines, loopCtx, threadVars>>

(* ... drives the line high and low while the object is active ...         *)
RoutineToggles(g) ==
  LET p == routine[g].pin IN
  /\ routine[g].stage = "running"
  /\ routine[g].obj \in active
  /\ mode' = [mode EXCEPT ![p] = "output"]
  /\ \E v \in BOOLEAN : level' = [level EXCEPT ![p] = v]
  /\ UNCHANGED <<initialized, dir, pwmVars, loopCtx, threadVars>>

(* ... and returns when it is not.                                         *)
RoutineReturns(g) ==
  /\ routine[g].stage = "running"
  /\ routine[g].obj \notin active
  /\ routine' = [routine EXCEPT ![g].stage = "returned"]
  /\ UNCHANGED <<pinVars, entry, entries, active, routines, loopCtx, threadVars>>

InputEdge(p) ==
  /\ mode[p] = "input"
  /\ level' = [level EXCEPT ![p] = ~@]
  /\ UNCHANGED <<initialized, dir, mode, pwmVars, loopCtx, threadVars>>

-----------------------------------------------------------------------------
Serve(t) ==
  \/ Initialize(t) \/ Close(t) \/ ConfigurePin(t) \/ SetPWM(t)
  \/ EnableInterrupt(t) \/ DisableInterrupt(t)
  \/ StartEventLoop(t) \/ StopEventLoop(t)
  \/ ReadOne(t) \/ FinishReading(t)

Call(t) ==
  \/ \E r \in Request : CallLock(t, r)
  \/ \E p \in Pins, v \in BOOLEAN : WritePin(t, p, v)
  \/ \E p \in Pins : GetPinState(t, p)
  \/ ListConfiguredPins(t)

Next ==
  \/ \E t \in Threads : Call(t) \/ Serve(t)
  \/ \E g \in Routines : RoutineStarts(g) \/ RoutineToggles(g) \/ RoutineReturns(g)
  \/ \E p \in Pins : InputEdge(p)

Spec == Init /\ [][Next]_vars

\* A thread inside a call goes on when it can.
FairSpec == Spec /\ \A t \in Threads : WF_vars(Serve(t))

-----------------------------------------------------------------------------
LiveRoutines == {g \in Routines : routine[g].stage \in {"starting", "running"}}

(* The driver keeps the promises of PinDriver at every instant, whatever   *)
(* the goroutines do: PWM objects and goroutines are seen there as one     *)
(* "pwm" state per pin and the set of pins somebody toggles.               *)
Promise == INSTANCE PinDriver WITH
  FaultyPins <- {},
  pwm <- [p \in Pins |-> IF entry[p] = 0 THEN "none"
                         ELSE IF entry[p] \in active THEN "active" ELSE "idle"],
  pwmDriven <- {routine[g].pin : g \in LiveRoutines}

ImplementsPinDriver == Promise!DrvSpec

(* SetPWM skips starting a goroutine when the active flag is set.  That is *)
(* right: an active entry always has a goroutine that drives it or is      *)
(* about to look it up.                                                    *)
ActiveEntryIsDriven ==
  \A p \in Pins : entry[p] \in active =>
    \E g \in LiveRoutines :
      /\ routine[g].pin = p
      /\ routine[g].stage = "running" => routine[g].obj = entry[p]

=============================================================================
