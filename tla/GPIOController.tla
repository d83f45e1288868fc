--------------------------- MODULE GPIOController ---------------------------
(***************************************************************************)
(* pkg/gpio/controller.go: the gate every GPIO operation of the agent      *)
(* passes (operation slots, allowed operations, protected pins) and the    *)
(* controller's own record of the pins it configured, activePins.          *)
(*                                                                         *)
(* An operation is not atomic.  It takes a slot under opMutex, checks the  *)
(* request, for a write reads activePins under the read lock, then calls   *)
(* the driver (an action of PinDriver), and only then, under the write     *)
(* lock, records what it did.  Other callers, Close and Initialize run     *)
(* between any two of these steps.                                         *)
(***************************************************************************)
EXTENDS PinDriver, FiniteSets

CONSTANTS
  Callers,            \* goroutines serving requests
  Level,              \* SecurityConfig.Level
  AllowCriticalPins,  \* SecurityConfig.AllowCriticalPins
  AllowedOperations,  \* SecurityConfig.AllowedOperations; {} allows all
  MaxConcurrentOps,   \* SecurityConfig.MaxConcurrentOps
  ConfAllowed,        \* Config.AllowedPins as configured
  ConfRestricted,     \* Config.RestrictedPins as configured
  PWMRequests         \* whether ConfigurePin requests may carry a PWM frequency

ASSUME ControllerAssumption ==
  /\ Level \in {"permissive", "strict", "paranoid"}
  /\ AllowCriticalPins \in BOOLEAN
  /\ AllowedOperations \subseteq {"read", "write", "configure", "pwm", "interrupt"}
  /\ MaxConcurrentOps \in Nat
  /\ ConfAllowed \subseteq Int
  /\ ConfRestricted \subseteq Int
  /\ PWMRequests \subseteq BOOLEAN

VARIABLES
  activeOps,    \* Controller.activeOps
  sleepers,     \* release goroutines of checkOperationLimits still asleep
  activeDir,    \* activePins[p].Direction, "untracked" when p is not a key
  activeValue,  \* activePins[p].Value
  pc,           \* where each caller is
  call          \* the request each caller is serving

ctlVars == <<activeOps, sleepers, activeDir, activeValue, pc, call>>
vars == <<drvVars, ctlVars>>

CriticalSystemPins == {0, 1, 14, 15}

\* initializeSecureDefaults, applied once by NewController.
RestrictedPins ==
  ConfRestricted \cup CriticalSystemPins
    \cup (IF Level = "paranoid" THEN (2..13) \cup {16, 17} \cup (22..27) ELSE {})

AllowedPins == IF Level = "paranoid" THEN 18..21 ELSE ConfAllowed

-----------------------------------------------------------------------------
(* Requests.  "state" is GetPinState, "analog" ReadAnalog.  d is a ConfigurePin direction, v a  *)
(* WritePin value (or the value a read returned), pwm a PWM frequency in a *)
(* ConfigurePin request.                                                   *)
Kinds == {"configure", "read", "write", "state", "analog", "pwm", "enable", "disable"}

Request == [kind : Kinds, pin : Pins, d : Directions, v : BOOLEAN, pwm : BOOLEAN]

NoRequest == [kind |-> "state", pin |-> CHOOSE p \in Pins : TRUE,
              d |-> "input", v |-> FALSE, pwm |-> FALSE]

Requests ==
  {r \in [kind : Kinds, pin : Pins, d : Directions, v : BOOLEAN, pwm : PWMRequests \cup {FALSE}] :
     /\ r.kind # "configure" => r.d = "input" /\ ~r.pwm
     /\ r.kind # "write" => ~r.v}

\* The operation name each method passes to IsPinAllowed.
Operation(kind) ==
  CASE kind \in {"state", "analog"} -> "read"
    [] kind \in {"enable", "disable"} -> "interrupt"
    [] OTHER -> kind

\* isOperationAllowed.
OperationAllowed(op) == AllowedOperations = {} \/ op \in AllowedOperations

\* A wrong check: the allowed list alone.
PinPermitted_AllowedOnly(p) == p \in AllowedPins /\ p \in 0..27

\* IsPinAllowed, after the slot was taken.
PinPermitted(p) ==
  /\ p \in CriticalSystemPins => AllowCriticalPins
  /\ p \notin RestrictedPins
  /\ AllowedPins # {} => p \in AllowedPins
  /\ p \in 0..27

Permitted(r) == OperationAllowed(Operation(r.kind)) /\ PinPermitted(r.pin)

-----------------------------------------------------------------------------
TypeOK ==
  /\ DrvTypeOK
  /\ activeOps \in Nat
  /\ sleepers \in Nat
  /\ activeDir \in [Pins -> Directions \cup {"untracked"}]
  /\ activeValue \in [Pins -> BOOLEAN]
  /\ pc \in [Callers -> {"idle", "refused", "check", "driver", "record"}]
  /\ call \in [Callers -> Request]

Init ==
  /\ DrvInit
  /\ activeOps = 0
  /\ sleepers = 0
  /\ activeDir = [p \in Pins |-> "untracked"]
  /\ activeValue = [p \in Pins |-> FALSE]
  /\ pc = [c \in Callers |-> "idle"]
  /\ call = [c \in Callers |-> NoRequest]

InFlight == {c \in Callers : pc[c] \in {"check", "driver", "record"}}

Goto(c, where) == pc' = [pc EXCEPT ![c] = where]

\* The method returns; the request is forgotten.
Return(c) == Goto(c, "idle") /\ call' = [call EXCEPT ![c] = NoRequest]

(* checkOperationLimits: the operation is refused, with no side effect.    *)
RefuseOverLimit(c) ==
  /\ pc[c] \in {"idle", "refused"}
  /\ activeOps >= MaxConcurrentOps
  /\ Goto(c, "refused")
  /\ UNCHANGED <<drvVars, activeOps, sleepers, activeDir, activeValue, call>>

(* Wrong limits: one slot too many, and a slot nobody will release.        *)
TakeSlot_OneTooMany ==
  /\ activeOps <= MaxConcurrentOps
  /\ activeOps' = activeOps + 1
  /\ sleepers' = sleepers + 1

TakeSlot_NeverReleased ==
  /\ activeOps < MaxConcurrentOps
  /\ activeOps' = activeOps + 1
  /\ UNCHANGED sleepers

(* checkOperationLimits takes a slot and starts the goroutine that will    *)
(* release it after OperationTimeout, whatever becomes of the operation.   *)
TakeSlot ==
  /\ activeOps < MaxConcurrentOps
  /\ activeOps' = activeOps + 1
  /\ sleepers' = sleepers + 1

Deniable == {r \in Requests : ~Permitted(r) \/ r.pwm \/ r.kind = "pwm"}

(* The rest of IsPinAllowed and the range checks of the method.  A request *)
(* that is not permitted, or whose PWM parameters are out of range,        *)
(* returns an error and keeps its slot.                                    *)
Deny(c) ==
  /\ pc[c] \in {"idle", "refused"}
  /\ TakeSlot
  /\ Deniable # {}
  /\ Goto(c, "idle")
  /\ UNCHANGED <<drvVars, activeDir, activeValue, call>>

Admit(c) ==
  /\ pc[c] \in {"idle", "refused"}
  /\ TakeSlot
  /\ \E r \in Requests :
       /\ Permitted(r)
       /\ call' = [call EXCEPT ![c] = r]
       /\ Goto(c, IF r.kind = "write" THEN "check" ELSE "driver")
  /\ UNCHANGED <<drvVars, activeDir, activeValue>>

(* The release goroutine of some operation wakes up.                       *)
ReleaseSlot ==
  /\ sleepers > 0
  /\ sleepers' = sleepers - 1
  /\ activeOps' = IF activeOps > 0 THEN activeOps - 1 ELSE activeOps
  /\ UNCHANGED <<drvVars, activeDir, activeValue, pc, call>>

(* WritePin's look at activePins under the read lock.                      *)
CheckDirection(c) ==
  /\ pc[c] = "check"
  /\ IF activeDir[call[c].pin] = "input"
       THEN Return(c)
       ELSE Goto(c, "driver") /\ UNCHANGED call
  /\ UNCHANGED <<drvVars, activeOps, sleepers, activeDir, activeValue>>

-----------------------------------------------------------------------------
(* The driver call returns an error without having touched the pin; the    *)
(* Raspberry Pi has no analog inputs.                                      *)
DriverRefuses(c) ==
  LET r == call[c] IN
  /\ pc[c] = "driver"
  /\ \/ r.pin \in FaultyPins /\ r.kind \in {"configure", "write", "enable", "disable"}
     \/ r.kind = "configure" /\ ~initialized
     \/ r.kind = "analog"
     \/ r.kind = "read" /\ ~DrvReadable(r.pin)
     \/ r.kind = "state" /\ ~DrvReadable(r.pin)
     \/ r.kind = "write" /\ ~DrvWritable(r.pin)
     \/ r.kind = "pwm" /\ ~DrvPWMReady(r.pin)
     \/ r.kind = "enable" /\ ~DrvInterruptible(r.pin)
     \/ r.kind = "disable" /\ ~Configured(r.pin)
  /\ Return(c)
  /\ UNCHANGED <<drvVars, activeOps, sleepers, activeDir, activeValue>>

(* The driver call succeeds and the operation goes on to record it.        *)
DriverConfigures(c) ==
  LET r == call[c] IN
  /\ pc[c] = "driver" /\ r.kind = "configure"
  /\ \/ DrvConfigure(r.pin, r.d, r.pwm, TRUE) /\ Goto(c, "record") /\ UNCHANGED call
     \/ DrvConfigure(r.pin, r.d, r.pwm, FALSE) /\ Return(c)
  /\ UNCHANGED <<activeOps, sleepers, activeDir, activeValue>>

DriverWrites(c) ==
  LET r == call[c] IN
  /\ pc[c] = "driver" /\ r.kind = "write"
  /\ DrvWrite(r.pin, r.v)
  /\ Goto(c, "record")
  /\ UNCHANGED <<activeOps, sleepers, activeDir, activeValue, call>>

DriverReads(c) ==
  LET r == call[c] IN
  /\ pc[c] = "driver" /\ r.kind = "read"
  /\ DrvReadable(r.pin)
  /\ call' = [call EXCEPT ![c] = [r EXCEPT !.v = level[r.pin]]]
  /\ Goto(c, "record")
  /\ UNCHANGED <<drvVars, activeOps, sleepers, activeDir, activeValue>>

(* GetPinState, SetPWM and the interrupt methods end with the driver call. *)
DriverEnds(c) ==
  LET r == call[c] IN
  /\ pc[c] = "driver"
  /\ \/ r.kind = "state" /\ DrvReadable(r.pin) /\ UNCHANGED drvVars
     \/ r.kind = "pwm" /\ DrvSetPWM(r.pin)
     \/ r.kind = "enable" /\ DrvEnableInterrupt(r.pin)
     \/ r.kind = "disable" /\ DrvDisableInterrupt(r.pin)
  /\ Return(c)
  /\ UNCHANGED <<activeOps, sleepers, activeDir, activeValue>>

(* A wrong record: a configure that keeps the old value.                   *)
Record_KeepsValue(c) ==
  LET r == call[c] IN
  /\ pc[c] = "record"
  /\ \/ /\ r.kind = "configure"
        /\ activeDir' = [activeDir EXCEPT ![r.pin] = r.d]
        /\ UNCHANGED activeValue
     \/ /\ r.kind \in {"read", "write"}
        /\ activeValue' = [activeValue EXCEPT
                             ![r.pin] = IF activeDir[r.pin] = "untracked" THEN @ ELSE r.v]
        /\ UNCHANGED activeDir
  /\ Return(c)
  /\ UNCHANGED <<drvVars, activeOps, sleepers>>

(* ConfigurePin replaces the entry of activePins (its Value starts low);   *)
(* ReadPin and WritePin update the entry's Value when there is one.        *)
Record(c) ==
  LET r == call[c] IN
  /\ pc[c] = "record"
  /\ \/ /\ r.kind = "configure"
        /\ activeDir' = [activeDir EXCEPT ![r.pin] = r.d]
        /\ activeValue' = [activeValue EXCEPT ![r.pin] = FALSE]
     \/ /\ r.kind \in {"read", "write"}
        /\ activeValue' = [activeValue EXCEPT
                             ![r.pin] = IF activeDir[r.pin] = "untracked" THEN @ ELSE r.v]
        /\ UNCHANGED activeDir
  /\ Return(c)
  /\ UNCHANGED <<drvVars, activeOps, sleepers>>

\* What activePins holds.
ListConfiguredPins ==
  [p \in {q \in Pins : activeDir[q] # "untracked"} |-> [direction |-> activeDir[p], value |-> activeValue[p]]]

-----------------------------------------------------------------------------
(* Initialize and Close go straight to the driver; activePins is kept.     *)
Initialize == DrvInitialize /\ UNCHANGED ctlVars
Close == DrvClose /\ UNCHANGED ctlVars
Background == DrvBackground /\ UNCHANGED ctlVars

Step(c) ==
  \/ CheckDirection(c) \/ DriverRefuses(c) \/ DriverConfigures(c)
  \/ DriverWrites(c) \/ DriverReads(c) \/ DriverEnds(c) \/ Record(c)

Next ==
  \/ \E c \in Callers : RefuseOverLimit(c) \/ Deny(c) \/ Admit(c) \/ Step(c)
  \/ ReleaseSlot \/ Initialize \/ Close \/ Background

Spec == Init /\ [][Next]_vars

\* time.Sleep ends, so every release goroutine is eventually scheduled.
FairSpec == Spec /\ WF_vars(ReleaseSlot)

-----------------------------------------------------------------------------
(* Every slot in use has exactly one goroutine that will release it, and   *)
(* there are never more than MaxConcurrentOps of them: no admission or     *)
(* expiry in any order loses a slot or hands one out twice.                *)
SlotAccounting == activeOps = sleepers /\ activeOps <= MaxConcurrentOps

(* No operation, in any order with the others and with Close and           *)
(* Initialize, ever configures or drives a pin that is critical,           *)
(* restricted or outside the allowed list.                                 *)
Protected(p) ==
  \/ p \in CriticalSystemPins \cup RestrictedPins
  \/ AllowedPins # {} /\ p \notin AllowedPins
  \/ p \notin 0..27

ProtectedPinsUntouched ==
  \A p \in Pins : Protected(p) =>
    dir[p] = "unconfigured" /\ mode[p] = "input" /\ p \notin pwmDriven

(* A pin whose stored direction is input is never driven, although         *)
(* WritePin checks the direction long before it writes.                    *)
InputNotDriven == \A p \in Pins : dir[p] = "input" => mode[p] = "input"

(* After Close every pin the program drove is low, whatever writes were    *)
(* still on their way ("Reset all configured pins to safe states").        *)
ClosedOutputsLow ==
  ~initialized => \A p \in Pins \ FaultyPins : mode[p] = "output" => ~level[p]

(* A full table of slots does not stay full: some operation is let in      *)
(* again once OperationTimeout has passed.                                 *)
SlotsComeBack == activeOps = MaxConcurrentOps ~> activeOps < MaxConcurrentOps

=============================================================================
