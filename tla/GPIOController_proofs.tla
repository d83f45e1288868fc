------------------------ MODULE GPIOController_proofs ------------------------
(***************************************************************************)
(* Proofs about the GPIO gate, for every set of callers, every pin set,    *)
(* every security configuration and every number of operation slots.       *)
(***************************************************************************)
EXTENDS AgentGPIO, MCGPIOController, MCGPIOOperations, TLAPS

-----------------------------------------------------------------------------
(* The request every reset of call writes is well formed.                  *)
LEMMA NoRequestIsRequest == NoRequest \in Request
  <1>1. (CHOOSE p \in Pins : TRUE) \in Pins
    BY PinsAssumption
  <1>2. QED
    BY <1>1 DEF NoRequest, Request, Kinds, Directions

(* Every request a caller can send is well formed.                         *)
LEMMA RequestsAreRequests == Requests \subseteq Request
  <1>1. PWMRequests \cup {FALSE} \subseteq BOOLEAN
    BY ControllerAssumption
  <1>2. QED
    BY <1>1 DEF Requests, Request

(* Every driver call keeps the driver's state well formed.                 *)
LEMMA DriverKeepsTypes == DrvTypeOK /\ [DrvNext]_drvVars => DrvTypeOK'
  <1> SUFFICES ASSUME DrvTypeOK, [DrvNext]_drvVars PROVE DrvTypeOK'
    OBVIOUS
  <1> USE DEF DrvTypeOK
  <1>1. CASE DrvInitialize
    BY <1>1 DEF DrvInitialize
  <1>2. CASE DrvClose
    <2>1. initialized' = FALSE /\ dir' = [p \in Pins |-> "unconfigured"]
          /\ pwm' = [p \in Pins |-> "none"] /\ pwmDriven' = pwmDriven
      BY <1>2 DEF DrvClose
    <2>2. mode' \in [Pins -> Directions] /\ level' \in [Pins -> BOOLEAN]
      BY <1>2 DEF DrvClose, Directions
    <2>3. QED
      BY <2>1, <2>2
  <1>3. ASSUME NEW p \in Pins, NEW d \in Directions, NEW w \in BOOLEAN, NEW ok \in BOOLEAN,
               DrvConfigure(p, d, w, ok)
        PROVE DrvTypeOK'
    BY <1>3 DEF DrvConfigure, Directions
  <1>4. ASSUME NEW p \in Pins, NEW v \in BOOLEAN, DrvWrite(p, v)
        PROVE DrvTypeOK'
    BY <1>4 DEF DrvWrite, Directions
  <1>5. ASSUME NEW p \in Pins, DrvSetPWM(p)
        PROVE DrvTypeOK'
    BY <1>5 DEF DrvSetPWM
  <1>6. ASSUME NEW p \in Pins, DrvEnableInterrupt(p) \/ DrvDisableInterrupt(p)
        PROVE DrvTypeOK'
    BY <1>6 DEF DrvEnableInterrupt, DrvDisableInterrupt, DrvSwitchToInput, Directions
  <1>7. CASE DrvBackground
    BY <1>7 DEF DrvBackground, DrvToggle, DrvPWMReturns, InputEdge, Directions
  <1>8. CASE UNCHANGED drvVars
    BY <1>8 DEF drvVars
  <1>9. QED
    BY <1>1, <1>2, <1>3, <1>4, <1>5, <1>6, <1>7, <1>8 DEF DrvNext, DrvCall

(* Whatever the controller does to the driver is one of the driver's own   *)
(* calls, or nothing: GPIOController implements PinDriver.                 *)
LEMMA StepIsDriverStep ==
  ASSUME TypeOK, [Next]_vars PROVE [DrvNext]_drvVars
  <1>1. ASSUME NEW c \in Callers, Step(c) PROVE [DrvNext]_drvVars
    <2> DEFINE r == call[c]
    <2>1. r \in Request
      BY DEF TypeOK
    <2>2. r.pin \in Pins /\ r.d \in Directions /\ r.v \in BOOLEAN /\ r.pwm \in BOOLEAN
      BY <2>1 DEF Request
    <2> HIDE DEF r
    <2>3. CASE CheckDirection(c) \/ DriverRefuses(c) \/ DriverReads(c) \/ Record(c)
      BY <2>3 DEF CheckDirection, DriverRefuses, DriverReads, Record
    <2>4. CASE DriverConfigures(c)
      BY <2>4, <2>2 DEF DriverConfigures, DrvNext, DrvCall, r
    <2>5. CASE DriverWrites(c)
      BY <2>5, <2>2 DEF DriverWrites, DrvNext, DrvCall, r
    <2>6. CASE DriverEnds(c)
      BY <2>6, <2>2 DEF DriverEnds, DrvNext, DrvCall, r
    <2>7. QED
      BY <1>1, <2>3, <2>4, <2>5, <2>6 DEF Step
  <1>2. ASSUME NEW c \in Callers, RefuseOverLimit(c) \/ Deny(c) \/ Admit(c)
        PROVE [DrvNext]_drvVars
    BY <1>2 DEF RefuseOverLimit, Deny, Admit
  <1>3. CASE ReleaseSlot
    BY <1>3 DEF ReleaseSlot
  <1>4. CASE Initialize \/ Close \/ Background
    BY <1>4 DEF Initialize, Close, Background, DrvNext, DrvCall
  <1>5. CASE UNCHANGED vars
    BY <1>5 DEF vars
  <1>6. QED
    BY <1>1, <1>2, <1>3, <1>4, <1>5 DEF Next

-----------------------------------------------------------------------------
(* The controller's variables keep their types: the counters never leave   *)
(* Nat, and a caller's request is always one that was sent.                *)
THEOREM TypeCorrect == Spec => []TypeOK
  <1>1. Init => TypeOK
    <2> SUFFICES ASSUME Init PROVE TypeOK
      OBVIOUS
    <2>1. DrvTypeOK
      BY DEF Init, DrvInit, DrvTypeOK, Directions
    <2>2. activeOps \in Nat /\ sleepers \in Nat
          /\ activeDir \in [Pins -> Directions \cup {"untracked"}]
          /\ activeValue \in [Pins -> BOOLEAN]
      BY DEF Init
    <2>3. pc \in [Callers -> {"idle", "refused", "check", "driver", "record"}]
      BY DEF Init
    <2>4. call \in [Callers -> Request]
      BY NoRequestIsRequest DEF Init
    <2>5. QED
      BY <2>1, <2>2, <2>3, <2>4 DEF TypeOK
  <1>2. TypeOK /\ [Next]_vars => TypeOK'
    <2> SUFFICES ASSUME TypeOK, [Next]_vars PROVE TypeOK'
      OBVIOUS
    <2>1. DrvTypeOK'
      BY DriverKeepsTypes, StepIsDriverStep DEF TypeOK
    <2>2. ASSUME NEW c \in Callers, RefuseOverLimit(c) \/ Deny(c) PROVE TypeOK'
      BY <2>1, <2>2 DEF TypeOK, RefuseOverLimit, Deny, TakeSlot, Goto
    <2>3. ASSUME NEW c \in Callers, Admit(c) PROVE TypeOK'
      <3>1. PICK r \in Requests :
              /\ call' = [call EXCEPT ![c] = r]
              /\ Goto(c, IF r.kind = "write" THEN "check" ELSE "driver")
        BY <2>3 DEF Admit
      <3>2. r \in Request
        BY RequestsAreRequests
      <3>3. pc' \in [Callers -> {"idle", "refused", "check", "driver", "record"}]
        BY <3>1 DEF Goto, TypeOK
      <3>4. call' \in [Callers -> Request]
        BY <3>1, <3>2 DEF TypeOK
      <3>5. QED
        BY <2>1, <2>3, <3>3, <3>4 DEF TypeOK, Admit, TakeSlot
    <2>4. ASSUME NEW c \in Callers, Step(c) PROVE TypeOK'
      <3>1. ASSUME Return(c)
            PROVE /\ pc' \in [Callers -> {"idle", "refused", "check", "driver", "record"}]
                  /\ call' \in [Callers -> Request]
        BY <3>1, NoRequestIsRequest DEF Return, Goto, TypeOK
      <3>2. CASE CheckDirection(c)
        BY <3>1, <3>2, <2>1 DEF CheckDirection, TypeOK, Goto
      <3>3. CASE DriverRefuses(c)
        BY <3>1, <3>3, <2>1 DEF DriverRefuses, TypeOK
      <3>4. CASE DriverConfigures(c)
        BY <3>1, <3>4, <2>1 DEF DriverConfigures, TypeOK, Goto
      <3>5. CASE DriverWrites(c)
        BY <3>5, <2>1 DEF DriverWrites, TypeOK, Goto
      <3>6. CASE DriverReads(c)
        <4>1. call[c].pin \in Pins /\ level[call[c].pin] \in BOOLEAN
          BY DEF TypeOK, DrvTypeOK, Request
        <4>2. [call[c] EXCEPT !.v = level[call[c].pin]] \in Request
          BY <4>1 DEF TypeOK, Request
        <4>3. QED
          BY <3>6, <4>2, <2>1 DEF DriverReads, TypeOK, Goto
      <3>7. CASE DriverEnds(c)
        BY <3>1, <3>7, <2>1 DEF DriverEnds, TypeOK
      <3>8. CASE Record(c)
        <4>1. call[c].pin \in Pins /\ call[c].d \in Directions /\ call[c].v \in BOOLEAN
          BY DEF TypeOK, Request
        <4>2. activeDir' \in [Pins -> Directions \cup {"untracked"}]
              /\ activeValue' \in [Pins -> BOOLEAN]
          BY <3>8, <4>1 DEF Record, TypeOK
        <4>3. QED
          BY <3>1, <3>8, <2>1, <4>2 DEF Record, TypeOK
      <3>9. QED
        BY <2>4, <3>2, <3>3, <3>4, <3>5, <3>6, <3>7, <3>8 DEF Step
    <2>5. CASE ReleaseSlot
      BY <2>1, <2>5 DEF ReleaseSlot, TypeOK
    <2>6. CASE Initialize \/ Close \/ Background
      BY <2>1, <2>6 DEF Initialize, Close, Background, TypeOK, ctlVars
    <2>7. CASE UNCHANGED vars
      BY <2>1, <2>7 DEF vars, ctlVars, TypeOK
    <2>8. QED
      BY <2>2, <2>3, <2>4, <2>5, <2>6, <2>7 DEF Next
  <1>3. QED
    BY <1>1, <1>2, PTL DEF Spec

-----------------------------------------------------------------------------
(* Operation slots: activeOps counts exactly the goroutines that will      *)
(* release one, and never passes MaxConcurrentOps.  The guard of the       *)
(* release (activeOps > 0) is therefore never false.                       *)
THEOREM SlotsAccounted == Spec => []SlotAccounting
  <1>1. Init => SlotAccounting
    BY ControllerAssumption DEF Init, SlotAccounting
  <1>2. TypeOK /\ SlotAccounting /\ [Next]_vars => SlotAccounting'
    <2> SUFFICES ASSUME TypeOK, SlotAccounting, [Next]_vars PROVE SlotAccounting'
      OBVIOUS
    <2> USE ControllerAssumption DEF SlotAccounting, TypeOK
    <2>1. ASSUME NEW c \in Callers, RefuseOverLimit(c) \/ Deny(c) \/ Admit(c)
          PROVE SlotAccounting'
      BY <2>1 DEF RefuseOverLimit, Deny, Admit, TakeSlot
    <2>2. ASSUME NEW c \in Callers, Step(c) PROVE SlotAccounting'
      BY <2>2 DEF Step, CheckDirection, DriverRefuses, DriverConfigures,
                  DriverWrites, DriverReads, DriverEnds, Record
    <2>3. CASE ReleaseSlot
      BY <2>3 DEF ReleaseSlot
    <2>4. CASE Initialize \/ Close \/ Background \/ UNCHANGED vars
      BY <2>4 DEF Initialize, Close, Background, vars, ctlVars
    <2>5. QED
      BY <2>1, <2>2, <2>3, <2>4 DEF Next
  <1>3. QED
    BY <1>1, <1>2, TypeCorrect, PTL DEF Spec

-----------------------------------------------------------------------------
(* The gate and the driver agree on what is protected: a pin the gate lets *)
(* through is none of the protected ones, at every security level.         *)
LEMMA PermittedIsUnprotected ==
  ASSUME NEW p \in Pins, PinPermitted(p) PROVE ~Protected(p)
  BY DEF PinPermitted, Protected, RestrictedPins

(* What the protection of pins rests on: an operation past the gate is for *)
(* a permitted pin and of an allowed kind, and a protected pin has neither *)
(* a driver entry, nor a PWM entry, nor a goroutine.                       *)
AdmittedArePermitted == \A c \in InFlight : Permitted(call[c])

ProtectionInv ==
  /\ AdmittedArePermitted
  /\ \A p \in Pins : Protected(p) =>
       /\ dir[p] = "unconfigured" /\ pwm[p] = "none"
       /\ mode[p] = "input" /\ p \notin pwmDriven

(* An operation that moves on keeps its pin and its kind, and no step but  *)
(* Admit puts one in flight.                                               *)
LEMMA AdmittedStayPermitted ==
  ASSUME TypeOK, AdmittedArePermitted, [Next]_vars PROVE AdmittedArePermitted'
  <1> USE DEF AdmittedArePermitted, InFlight
  <1>1. ASSUME NEW c \in Callers, RefuseOverLimit(c) \/ Deny(c) PROVE AdmittedArePermitted'
    BY <1>1 DEF RefuseOverLimit, Deny, Goto, TypeOK
  <1>2. ASSUME NEW c \in Callers, Admit(c) PROVE AdmittedArePermitted'
    <2>1. PICK r \in Requests : Permitted(r) /\ call' = [call EXCEPT ![c] = r]
      BY <1>2 DEF Admit
    <2>2. \A d \in Callers \ {c} : pc'[d] = pc[d] /\ call'[d] = call[d]
      BY <1>2, <2>1 DEF Admit, Goto, TypeOK
    <2>3. call'[c] = r
      BY <2>1 DEF TypeOK
    <2>4. \A d \in InFlight' : Permitted(call'[d])
      BY <2>1, <2>2, <2>3
    <2>5. QED
      BY <2>4 DEF Permitted, PinPermitted, OperationAllowed
  <1>3. ASSUME NEW c \in Callers, Step(c) PROVE AdmittedArePermitted'
    <2>1. \A d \in Callers \ {c} : pc'[d] = pc[d] /\ call'[d] = call[d]
      BY <1>3 DEF Step, CheckDirection, DriverRefuses, DriverConfigures, DriverWrites,
                  DriverReads, DriverEnds, Record, Return, Goto, TypeOK
    <2>2. c \in InFlight
      BY <1>3 DEF Step, CheckDirection, DriverRefuses, DriverConfigures, DriverWrites,
                  DriverReads, DriverEnds, Record
    <2>3. pc'[c] = "idle" \/ call'[c] = call[c]
          \/ call'[c] = [call[c] EXCEPT !.v = level[call[c].pin]]
      BY <1>3 DEF Step, CheckDirection, DriverRefuses, DriverConfigures, DriverWrites,
                  DriverReads, DriverEnds, Record, Return, Goto, TypeOK
    <2>4. pc'[c] = "idle" \/ (call'[c].kind = call[c].kind /\ call'[c].pin = call[c].pin)
      BY <2>3 DEF TypeOK, Request
    <2>5. c \in InFlight' => Permitted(call'[c])
      BY <2>2, <2>4 DEF Permitted
    <2>6. \A d \in InFlight' : Permitted(call'[d])
      BY <2>1, <2>5
    <2>7. QED
      BY <2>6 DEF Permitted, PinPermitted, OperationAllowed
  <1>4. CASE ReleaseSlot \/ Initialize \/ Close \/ Background \/ UNCHANGED vars
    BY <1>4 DEF ReleaseSlot, Initialize, Close, Background, vars, ctlVars
  <1>5. QED
    BY <1>1, <1>2, <1>3, <1>4 DEF Next

(* A protected pin is left alone by every step: the driver calls name      *)
(* permitted pins only, Close resets only pins with an entry, and a PWM    *)
(* goroutine toggles only a pin it was started for.                        *)
LEMMA ProtectedPinStays ==
  ASSUME TypeOK, ProtectionInv, [Next]_vars, NEW p \in Pins, Protected(p)
  PROVE  /\ dir'[p] = "unconfigured" /\ pwm'[p] = "none"
         /\ mode'[p] = "input" /\ p \notin pwmDriven'
  <1> DEFINE Kept == /\ dir'[p] = "unconfigured" /\ pwm'[p] = "none"
                     /\ mode'[p] = "input" /\ p \notin pwmDriven'
  <1>0. dir[p] = "unconfigured" /\ pwm[p] = "none" /\ mode[p] = "input" /\ p \notin pwmDriven
    BY DEF ProtectionInv
  <1>1. CASE UNCHANGED drvVars
    BY <1>0, <1>1 DEF drvVars
  <1>2. ASSUME NEW c \in Callers, Step(c) PROVE Kept
    <2> DEFINE q == call[c].pin
    <2>1. c \in InFlight
      BY <1>2 DEF InFlight, Step, CheckDirection, DriverRefuses, DriverConfigures,
                  DriverWrites, DriverReads, DriverEnds, Record
    <2>2. q \in Pins /\ PinPermitted(q)
      BY <2>1 DEF ProtectionInv, AdmittedArePermitted, Permitted, TypeOK, Request, InFlight
    <2>3. q # p
      BY <2>2, PermittedIsUnprotected
    <2> HIDE DEF q
    <2>4. CASE CheckDirection(c) \/ DriverRefuses(c) \/ DriverReads(c) \/ Record(c)
      BY <1>1, <2>4 DEF CheckDirection, DriverRefuses, DriverReads, Record
    <2>5. CASE DriverConfigures(c)
      <3>1. PICK d \in Directions, w \in BOOLEAN, ok \in BOOLEAN : DrvConfigure(q, d, w, ok)
        BY <2>5 DEF DriverConfigures, TypeOK, Request, q
      <3>2. QED
        BY <1>0, <2>2, <2>3, <3>1 DEF DrvConfigure, TypeOK, DrvTypeOK
    <2>6. CASE DriverWrites(c)
      <3>1. PICK v : DrvWrite(q, v)
        BY <2>6 DEF DriverWrites, q
      <3>2. QED
        BY <1>0, <2>2, <2>3, <3>1 DEF DrvWrite, TypeOK, DrvTypeOK
    <2>7. CASE DriverEnds(c)
      <3>1. \/ UNCHANGED drvVars \/ DrvSetPWM(q)
            \/ DrvEnableInterrupt(q) \/ DrvDisableInterrupt(q)
        BY <2>7 DEF DriverEnds, q
      <3>2. CASE DrvSetPWM(q)
        BY <1>0, <2>2, <2>3, <3>2 DEF DrvSetPWM, TypeOK, DrvTypeOK
      <3>3. CASE DrvEnableInterrupt(q) \/ DrvDisableInterrupt(q)
        BY <1>0, <2>2, <2>3, <3>3
           DEF DrvEnableInterrupt, DrvDisableInterrupt, DrvSwitchToInput, TypeOK, DrvTypeOK
      <3>4. QED
        BY <1>1, <3>1, <3>2, <3>3
    <2>8. QED
      BY <1>2, <2>4, <2>5, <2>6, <2>7 DEF Step
  <1>3. ASSUME NEW c \in Callers, RefuseOverLimit(c) \/ Deny(c) \/ Admit(c) PROVE Kept
    BY <1>1, <1>3 DEF RefuseOverLimit, Deny, Admit
  <1>4. CASE ReleaseSlot \/ UNCHANGED vars
    BY <1>1, <1>4 DEF ReleaseSlot, vars
  <1>5. CASE Initialize
    BY <1>0, <1>5 DEF Initialize, DrvInitialize
  <1>6. CASE Close
    BY <1>0, <1>6 DEF Close, DrvClose, TypeOK, DrvTypeOK
  <1>7. CASE Background
    <2>1. PICK q \in Pins : DrvToggle(q) \/ DrvPWMReturns(q) \/ InputEdge(q)
      BY <1>7 DEF Background, DrvBackground
    <2>2. QED
      BY <1>0, <2>1 DEF DrvToggle, DrvPWMReturns, InputEdge, TypeOK, DrvTypeOK
  <1>8. QED
    BY <1>2, <1>3, <1>4, <1>5, <1>6, <1>7 DEF Next

(* Critical, restricted and unlisted pins are never configured, driven or  *)
(* given to a PWM goroutine, whatever the configuration.                   *)
THEOREM ProtectedPinsSafe == Spec => []ProtectedPinsUntouched
  <1>1. Init => ProtectionInv
    <2> SUFFICES ASSUME Init PROVE ProtectionInv
      OBVIOUS
    <2>1. AdmittedArePermitted
      BY DEF Init, AdmittedArePermitted, InFlight
    <2>2. QED
      BY <2>1 DEF Init, DrvInit, ProtectionInv
  <1>2. TypeOK /\ ProtectionInv /\ [Next]_vars => ProtectionInv'
    <2> SUFFICES ASSUME TypeOK, ProtectionInv, [Next]_vars PROVE ProtectionInv'
      OBVIOUS
    <2>1. AdmittedArePermitted'
      BY AdmittedStayPermitted DEF ProtectionInv
    <2>2. ASSUME NEW p \in Pins, Protected(p)
          PROVE /\ dir'[p] = "unconfigured" /\ pwm'[p] = "none"
                /\ mode'[p] = "input" /\ p \notin pwmDriven'
      BY <2>2, ProtectedPinStays
    <2>3. QED
      BY <2>1, <2>2 DEF ProtectionInv, Protected
  <1>3. ProtectionInv => ProtectedPinsUntouched
    BY DEF ProtectionInv, ProtectedPinsUntouched
  <1>4. QED
    BY <1>1, <1>2, <1>3, TypeCorrect, PTL DEF Spec

-----------------------------------------------------------------------------
(* The agent's configuration: the operation "pwm" is not in the allowed    *)
(* list, so SetPWM never starts a goroutine.                               *)
PWMForbidden == AllowedOperations # {} /\ "pwm" \notin AllowedOperations

(* Without PWM goroutines the pins follow the driver's own map: a stored   *)
(* input is not driven, a pin the driver has dropped was left low, and     *)
(* nothing is stored while the driver is closed.                           *)
PinsFollowDriver ==
  /\ pwmDriven = {}
  /\ \A p \in Pins : pwm[p] # "active"
  /\ ~initialized => \A p \in Pins : dir[p] = "unconfigured"
  /\ \A p \in Pins : dir[p] = "input" => mode[p] = "input"
  /\ \A p \in Pins \ FaultyPins :
       mode[p] = "output" /\ dir[p] # "output" => ~level[p]

(* Every driver call but SetPWM keeps the pins following the map.          *)
LEMMA DriverCallsKeepDiscipline ==
  ASSUME DrvTypeOK, PinsFollowDriver, [DrvNext]_drvVars,
         \A p \in Pins : ~DrvSetPWM(p)
  PROVE  PinsFollowDriver'
  <1> USE DEF DrvTypeOK, PinsFollowDriver
  <1>1. CASE DrvInitialize
    BY <1>1 DEF DrvInitialize
  <1>2. CASE DrvClose
    <2>1. PICK skipped \in SUBSET FaultyPins :
            LET reset == {p \in Pins : dir[p] = "output" \/ pwm[p] = "active"} \ skipped
            IN  /\ mode' = [p \in Pins |-> IF p \in reset THEN "output" ELSE mode[p]]
                /\ level' = [p \in Pins |-> level[p] /\ p \notin reset]
      BY <1>2 DEF DrvClose
    <2>2. dir' = [p \in Pins |-> "unconfigured"] /\ pwm' = [p \in Pins |-> "none"]
          /\ UNCHANGED pwmDriven
      BY <1>2 DEF DrvClose
    <2>3. ASSUME NEW p \in Pins \ FaultyPins, mode'[p] = "output" PROVE ~level'[p]
      BY <2>1, <2>3
    <2>4. QED
      BY <2>2, <2>3
  <1>3. ASSUME NEW q \in Pins, NEW d \in Directions, NEW w \in BOOLEAN, NEW ok \in BOOLEAN,
               DrvConfigure(q, d, w, ok)
        PROVE PinsFollowDriver'
    BY <1>3 DEF DrvConfigure, Directions
  <1>4. ASSUME NEW q \in Pins, NEW v \in BOOLEAN, DrvWrite(q, v)
        PROVE PinsFollowDriver'
    BY <1>4 DEF DrvWrite, DrvWritable
  <1>5. ASSUME NEW q \in Pins, DrvEnableInterrupt(q) \/ DrvDisableInterrupt(q)
        PROVE PinsFollowDriver'
    BY <1>5 DEF DrvEnableInterrupt, DrvDisableInterrupt, DrvSwitchToInput
  <1>6. CASE DrvBackground
    BY <1>6 DEF DrvBackground, DrvToggle, DrvPWMReturns, InputEdge
  <1>7. CASE UNCHANGED drvVars
    BY <1>7 DEF drvVars
  <1>8. QED
    BY <1>1, <1>2, <1>3, <1>4, <1>5, <1>6, <1>7 DEF DrvNext, DrvCall

(* Under the agent's configuration no step is a SetPWM of the driver that  *)
(* changes anything.                                                       *)
LEMMA ForbiddenPWMNeverStarts ==
  ASSUME PWMForbidden, TypeOK, AdmittedArePermitted, PinsFollowDriver, [Next]_vars
  PROVE  PinsFollowDriver'
  <1>1. DrvTypeOK /\ [DrvNext]_drvVars
    BY StepIsDriverStep DEF TypeOK
  <1>2. CASE UNCHANGED drvVars
    BY <1>2 DEF drvVars, PinsFollowDriver
  <1>3. CASE ~UNCHANGED drvVars
    <2>1. ASSUME NEW p \in Pins, DrvSetPWM(p) PROVE FALSE
      <3>1. p \in pwmDriven' \/ pwm[p] = "active"
        BY <2>1 DEF DrvSetPWM, DrvPWMReady, TypeOK, DrvTypeOK
      <3>2. p \in pwmDriven' /\ pwmDriven = {} /\ pwm[p] = "idle" /\ pwm'[p] = "active"
        BY <2>1, <3>1 DEF PinsFollowDriver, DrvSetPWM, DrvPWMReady, TypeOK, DrvTypeOK
      <3>3. ASSUME NEW c \in Callers, Step(c) PROVE FALSE
        <4>1. c \in InFlight => call[c].kind # "pwm"
          BY DEF AdmittedArePermitted, Permitted, OperationAllowed, Operation, PWMForbidden
        <4>2. ~DrvSetPWM(call[c].pin) \/ call[c].kind # "pwm" \/ pc[c] # "driver"
          BY <4>1 DEF InFlight
        <4>3. pwmDriven' = pwmDriven
          BY <3>3, <4>1 DEF InFlight, Step, CheckDirection, DriverRefuses, DriverConfigures,
             DriverWrites, DriverReads, DriverEnds, Record, DrvConfigure, DrvWrite,
             DrvEnableInterrupt, DrvDisableInterrupt, DrvSwitchToInput, drvVars
        <4>4. QED
          BY <3>2, <4>3
      <3>4. ASSUME Initialize \/ Close \/ Background PROVE FALSE
        BY <3>2, <3>4 DEF Initialize, Close, Background, DrvInitialize, DrvClose,
           DrvBackground, DrvToggle, DrvPWMReturns, InputEdge
      <3>5. QED
        BY <1>3, <3>3, <3>4 DEF Next, RefuseOverLimit, Deny, Admit, ReleaseSlot, vars
    <2>2. QED
      BY <1>1, <2>1, DriverCallsKeepDiscipline
  <1>4. QED
    BY <1>2, <1>3

LEMMA DisciplineInvariant ==
  ASSUME PWMForbidden PROVE Spec => [](AdmittedArePermitted /\ PinsFollowDriver)
  <1>1. Init => AdmittedArePermitted /\ PinsFollowDriver
    BY DEF Init, DrvInit, AdmittedArePermitted, InFlight, PinsFollowDriver
  <1>2. /\ TypeOK /\ AdmittedArePermitted /\ PinsFollowDriver /\ [Next]_vars
        => (AdmittedArePermitted /\ PinsFollowDriver)'
    BY AdmittedStayPermitted, ForbiddenPWMNeverStarts
  <1>3. QED
    BY <1>1, <1>2, TypeCorrect, PTL DEF Spec

(* With PWM forbidden, a pin stored as input is never driven: a write that *)
(* passed the controller's check before the pin was reconfigured is        *)
(* stopped by the driver.                                                  *)
THEOREM InputsNeverDriven ==
  ASSUME PWMForbidden PROVE Spec => []InputNotDriven
  <1>1. PinsFollowDriver => InputNotDriven
    BY DEF PinsFollowDriver, InputNotDriven
  <1>2. QED
    BY <1>1, DisciplineInvariant, PTL

(* With PWM forbidden, whenever the driver is closed every healthy pin the *)
(* program ever drove is low.                                              *)
THEOREM ClosedDriverIsSafe ==
  ASSUME PWMForbidden PROVE Spec => []ClosedOutputsLow
  <1>1. PinsFollowDriver => ClosedOutputsLow
    BY DEF PinsFollowDriver, ClosedOutputsLow
  <1>2. QED
    BY <1>1, DisciplineInvariant, PTL

-----------------------------------------------------------------------------
(* With every operation let in: what PinsFollowDriver says, of the pins    *)
(* that never had a PWM goroutine.                                         *)
UnpulsedInv ==
  /\ pwmDriven \subseteq pulsed
  /\ \A p \in Pins : pwm[p] = "active" => p \in pulsed
  /\ ~initialized => \A p \in Pins : dir[p] = "unconfigured"
  /\ \A p \in Pins \ pulsed : dir[p] = "input" => mode[p] = "input"
  /\ \A p \in Pins \ (pulsed \cup FaultyPins) :
       mode[p] = "output" /\ dir[p] # "output" => ~level[p]

(* Every driver call, SetPWM included, keeps it.                           *)
LEMMA DriverCallsKeepUnpulsed ==
  ASSUME DrvTypeOK, UnpulsedInv, [DrvNext]_drvVars, pulsed' = pulsed \cup pwmDriven'
  PROVE  UnpulsedInv'
  <1> USE DEF DrvTypeOK, UnpulsedInv
  <1>1. CASE DrvInitialize
    BY <1>1 DEF DrvInitialize
  <1>2. CASE DrvClose
    <2>1. PICK skipped \in SUBSET FaultyPins :
            LET reset == {p \in Pins : dir[p] = "output" \/ pwm[p] = "active"} \ skipped
            IN  /\ mode' = [p \in Pins |-> IF p \in reset THEN "output" ELSE mode[p]]
                /\ level' = [p \in Pins |-> level[p] /\ p \notin reset]
      BY <1>2 DEF DrvClose
    <2>2. dir' = [p \in Pins |-> "unconfigured"] /\ pwm' = [p \in Pins |-> "none"]
          /\ UNCHANGED pwmDriven
      BY <1>2 DEF DrvClose
    <2>3. ASSUME NEW p \in Pins \ (pulsed' \cup FaultyPins), mode'[p] = "output"
          PROVE  ~level'[p]
      BY <2>1, <2>3
    <2>4. QED
      BY <2>2, <2>3
  <1>3. ASSUME NEW q \in Pins, NEW d \in Directions, NEW w \in BOOLEAN, NEW ok \in BOOLEAN,
               DrvConfigure(q, d, w, ok)
        PROVE UnpulsedInv'
    BY <1>3 DEF DrvConfigure, Directions
  <1>4. ASSUME NEW q \in Pins, NEW v \in BOOLEAN, DrvWrite(q, v)
        PROVE UnpulsedInv'
    BY <1>4 DEF DrvWrite, DrvWritable
  <1>5. ASSUME NEW q \in Pins, DrvSetPWM(q)
        PROVE UnpulsedInv'
    <2>1. q \in pulsed'
      BY <1>5 DEF DrvSetPWM, DrvPWMReady
    <2>2. pwmDriven' \subseteq pulsed' /\ UNCHANGED <<initialized, dir, mode, level>>
          /\ pulsed \subseteq pulsed' /\ \A p \in Pins : p # q => pwm'[p] = pwm[p]
      BY <1>5 DEF DrvSetPWM
    <2>3. QED
      BY <2>1, <2>2
  <1>6. ASSUME NEW q \in Pins, DrvEnableInterrupt(q) \/ DrvDisableInterrupt(q)
        PROVE UnpulsedInv'
    BY <1>6 DEF DrvEnableInterrupt, DrvDisableInterrupt, DrvSwitchToInput
  <1>7. CASE DrvBackground
    BY <1>7 DEF DrvBackground, DrvToggle, DrvPWMReturns, InputEdge
  <1>8. CASE UNCHANGED drvVars
    BY <1>8 DEF drvVars
  <1>9. QED
    BY <1>1, <1>2, <1>3, <1>4, <1>5, <1>6, <1>7, <1>8 DEF DrvNext, DrvCall

(* A PWM goroutine, whatever it outlives, disturbs no pin but its own: for *)
(* every configuration, with PWM, interrupts and failing hardware.         *)
THEOREM PulsesStayOnTheirPins == PulsedSpec => []UnpulsedPinsSafe
  <1>1. PulsedInit => Init /\ UnpulsedInv
    BY DEF PulsedInit, Init, DrvInit, UnpulsedInv
  <1>2. [PulsedNext]_<<vars, pulsed>> => [Next]_vars
    BY DEF PulsedNext
  <1>3. TypeOK /\ UnpulsedInv /\ [PulsedNext]_<<vars, pulsed>> => UnpulsedInv'
    <2> SUFFICES ASSUME TypeOK, UnpulsedInv, [PulsedNext]_<<vars, pulsed>>
                 PROVE  UnpulsedInv'
      OBVIOUS
    <2>1. DrvTypeOK /\ [DrvNext]_drvVars
      BY <1>2, StepIsDriverStep DEF TypeOK
    <2>2. CASE PulsedNext
      BY <2>1, <2>2, DriverCallsKeepUnpulsed DEF PulsedNext
    <2>3. CASE UNCHANGED <<vars, pulsed>>
      BY <2>3 DEF vars, drvVars, UnpulsedInv
    <2>4. QED
      BY <2>2, <2>3
  <1>4. UnpulsedInv => UnpulsedPinsSafe
    BY DEF UnpulsedInv, UnpulsedPinsSafe
  <1>5. QED
    BY <1>1, <1>2, <1>3, <1>4, TypeCorrect, PTL DEF PulsedSpec, Spec

-----------------------------------------------------------------------------
(* The agent's default operations, or fewer: neither PWM nor interrupts.   *)
PlainOperations ==
  AllowedOperations # {} /\ AllowedOperations \subseteq {"read", "write", "configure"}

(* A stored output is driven: no interrupt call ever switched it back.     *)
OutputsDriven == \A p \in Pins : dir[p] = "output" => mode[p] = "output"

PlainInv == TypeOK /\ AdmittedArePermitted /\ PinsFollowDriver /\ OutputsDriven

(* What a step leaves of a pin that it does not configure or write: its    *)
(* entry, or none, and the level of an output.                             *)
Quiet(p) ==
  /\ dir'[p] \in {dir[p], "unconfigured"}
  /\ dir'[p] = "output" => level'[p] = level[p]

LEMMA PlainForbidsPWM == PlainOperations => PWMForbidden
  BY DEF PlainOperations, PWMForbidden

(* No call past the gate switches a pin by an interrupt method or PWM.     *)
LEMMA PlainCalls ==
  ASSUME PlainOperations, AdmittedArePermitted, TypeOK, NEW c \in InFlight
  PROVE  call[c].kind \in {"configure", "read", "write", "state", "analog"}
  <1>1. call[c].kind \in Kinds
    BY DEF InFlight, TypeOK, Request
  <1>2. Operation(call[c].kind) \in {"read", "write", "configure"}
    BY DEF PlainOperations, AdmittedArePermitted, Permitted, OperationAllowed
  <1>3. QED
    BY <1>1, <1>2 DEF Operation, Kinds

(* A caller whose operation goes on has one in flight.                     *)
LEMMA StepsAreInFlight ==
  ASSUME NEW c \in Callers, Step(c) PROVE c \in InFlight
  BY DEF InFlight, Step, CheckDirection, DriverRefuses, DriverConfigures,
         DriverWrites, DriverReads, DriverEnds, Record

(* What a plain step does to a pin: it is configured or written by a call  *)
(* that named it, or it is left quiet.                                     *)
LEMMA PlainStepOfPin ==
  ASSUME PlainOperations, PlainInv, [Next]_vars, NEW p \in Pins
  PROVE  \/ Quiet(p)
         \/ \E c \in Callers : call[c].pin = p /\ (DriverConfigures(c) \/ DriverWrites(c))
  <1> USE DEF PlainInv
  <1>0. dir \in [Pins -> Directions \cup {"unconfigured"}] /\ level \in [Pins -> BOOLEAN]
    BY DEF TypeOK, DrvTypeOK
  <1>1. ASSUME UNCHANGED drvVars PROVE Quiet(p)
    BY <1>1 DEF drvVars, Quiet
  <1>2. ASSUME NEW c \in Callers, Step(c)
        PROVE Quiet(p) \/ (call[c].pin = p /\ (DriverConfigures(c) \/ DriverWrites(c)))
    <2>1. call[c].kind \in {"configure", "read", "write", "state", "analog"}
      BY <1>2, PlainCalls, StepsAreInFlight
    <2>2. CASE CheckDirection(c) \/ DriverRefuses(c) \/ DriverReads(c) \/ Record(c)
      <3>1. UNCHANGED drvVars
        BY <2>2 DEF CheckDirection, DriverRefuses, DriverReads, Record
      <3>2. QED
        BY <1>1, <3>1
    <2>3. CASE DriverEnds(c)
      <3>1. UNCHANGED drvVars
        BY <2>1, <2>3 DEF DriverEnds
      <3>2. QED
        BY <1>1, <3>1
    <2>4. CASE DriverConfigures(c) /\ call[c].pin # p
      <3>1. dir'[p] = dir[p] /\ level'[p] = level[p]
        BY <1>0, <2>4 DEF DriverConfigures, DrvConfigure
      <3>2. QED
        BY <3>1 DEF Quiet
    <2>5. CASE DriverWrites(c) /\ call[c].pin # p
      <3>1. dir'[p] = dir[p] /\ level'[p] = level[p]
        BY <1>0, <2>5 DEF DriverWrites, DrvWrite
      <3>2. QED
        BY <3>1 DEF Quiet
    <2>6. QED
      BY <1>2, <2>2, <2>3, <2>4, <2>5 DEF Step
  <1>3. CASE Initialize
    <2>1. dir' = dir /\ level' = level
      BY <1>3 DEF Initialize, DrvInitialize
    <2>2. QED
      BY <2>1 DEF Quiet
  <1>4. CASE Close
    <2>1. dir'[p] = "unconfigured"
      BY <1>4 DEF Close, DrvClose
    <2>2. QED
      BY <2>1 DEF Quiet
  <1>5. CASE Background
    <2>1. PICK q \in Pins : InputEdge(q)
      BY <1>5 DEF Background, DrvBackground, PinsFollowDriver, DrvToggle, DrvPWMReturns
    <2>2. dir' = dir
      BY <2>1 DEF InputEdge
    <2>3. dir[p] = "output" => level'[p] = level[p]
      <3>1. dir[p] = "output" => p # q
        BY <2>1 DEF InputEdge, OutputsDriven
      <3>2. QED
        BY <1>0, <2>1, <3>1 DEF InputEdge
    <2>4. QED
      BY <2>2, <2>3 DEF Quiet
  <1>6. CASE ReleaseSlot \/ UNCHANGED vars \/ \E c \in Callers : RefuseOverLimit(c) \/ Deny(c) \/ Admit(c)
    <2>1. UNCHANGED drvVars
      BY <1>6 DEF ReleaseSlot, vars, RefuseOverLimit, Deny, Admit
    <2>2. QED
      BY <1>1, <2>1
  <1>7. QED
    BY <1>2, <1>3, <1>4, <1>5, <1>6 DEF Next

LEMMA OutputsStayDriven ==
  ASSUME PlainOperations, PlainInv, [Next]_vars PROVE OutputsDriven'
  <1> USE DEF PlainInv
  <1> SUFFICES ASSUME NEW p \in Pins, dir'[p] = "output" PROVE mode'[p] = "output"
    BY DEF OutputsDriven
  <1>0. dir \in [Pins -> Directions \cup {"unconfigured"}] /\ mode \in [Pins -> Directions]
    BY DEF TypeOK, DrvTypeOK
  <1>1. CASE dir'[p] = dir[p] /\ mode'[p] = mode[p]
    BY <1>1 DEF OutputsDriven
  <1>2. ASSUME NEW c \in Callers, Step(c) PROVE mode'[p] = "output"
    <2>1. call[c].kind \in {"configure", "read", "write", "state", "analog"}
      BY <1>2, PlainCalls, StepsAreInFlight
    <2>2. CASE UNCHANGED drvVars
      BY <1>1, <2>2 DEF drvVars
    <2>3. CASE DriverConfigures(c)
      BY <1>0, <1>1, <2>3 DEF DriverConfigures, DrvConfigure
    <2>4. CASE DriverWrites(c)
      BY <1>0, <1>1, <2>4 DEF DriverWrites, DrvWrite
    <2>5. QED
      BY <1>2, <2>1, <2>2, <2>3, <2>4
         DEF Step, CheckDirection, DriverRefuses, DriverReads, DriverEnds, Record
  <1>3. CASE UNCHANGED drvVars
    BY <1>1, <1>3 DEF drvVars
  <1>4. CASE Initialize
    BY <1>1, <1>4 DEF Initialize, DrvInitialize
  <1>5. CASE Close
    BY <1>5 DEF Close, DrvClose
  <1>6. CASE Background
    BY <1>0, <1>1, <1>6 DEF Background, DrvBackground, DrvToggle, DrvPWMReturns, InputEdge
  <1>7. QED
    BY <1>2, <1>3, <1>4, <1>5, <1>6 DEF Next, RefuseOverLimit, Deny, Admit, ReleaseSlot, vars

LEMMA PlainInvariant == ASSUME PlainOperations PROVE Spec => []PlainInv
  <1>1. PWMForbidden
    BY PlainForbidsPWM
  <1>2. Init => OutputsDriven
    BY DEF Init, DrvInit, OutputsDriven
  <1>3. TypeOK /\ AdmittedArePermitted /\ PinsFollowDriver /\ OutputsDriven /\ [Next]_vars
        => OutputsDriven'
    BY OutputsStayDriven DEF PlainInv
  <1>4. Spec => [](AdmittedArePermitted /\ PinsFollowDriver)
    BY <1>1, DisciplineInvariant
  <1>5. PlainInv <=> TypeOK /\ AdmittedArePermitted /\ PinsFollowDriver /\ OutputsDriven
    BY DEF PlainInv
  <1>6. QED
    BY <1>2, <1>3, <1>4, <1>5, TypeCorrect, PTL DEF Spec

-----------------------------------------------------------------------------
(* The callers that have the driver's answer for a pin and have still to   *)
(* record it.                                                              *)
Recording(p) == {c \in Callers : pc[c] = "record" /\ call[c].pin = p}

TrackedDirection(p) == activeDir[p] # "untracked" /\ Configured(p) => activeDir[p] = dir[p]

(* The entry of a pin says what the driver says and what is on the line;   *)
(* while a caller has still to record, what it will record does.           *)
EntryAgrees(p) ==
  /\ TrackedDirection(p)
  /\ activeDir[p] = "output" /\ Configured(p) => activeValue[p] = level[p]

ResultAgrees(c, p) ==
  IF call[c].kind = "configure"
  THEN Configured(p) => dir[p] = call[c].d /\ (call[c].d = "output" => ~level[p])
  ELSE TrackedDirection(p) /\ (dir[p] = "output" => level[p] = call[c].v)

OneAtATime(p) == \A c, d \in InFlight : call[c].pin = p /\ call[d].pin = p => c = d

Agrees(p) ==
  /\ Recording(p) = {} => EntryAgrees(p)
  /\ \A c \in Recording(p) : ResultAgrees(c, p)

RecordInv == \A p \in Pins \ contested : OneAtATime(p) /\ Agrees(p)

(* A step that neither touches the pin nor records a result for it keeps   *)
(* the entry and the results to come in agreement with it.                 *)
LEMMA QuietStepAgrees ==
  ASSUME NEW p \in Pins, Agrees(p), Quiet(p),
         activeDir'[p] = activeDir[p], activeValue'[p] = activeValue[p],
         Recording(p)' = Recording(p), \A c \in Recording(p) : call'[c] = call[c]
  PROVE  Agrees(p)'
  <1>1. EntryAgrees(p) => EntryAgrees(p)'
    BY DEF EntryAgrees, TrackedDirection, Configured, Quiet
  <1>2. ASSUME NEW c \in Recording(p) PROVE ResultAgrees(c, p)'
    <2>1. ResultAgrees(c, p) /\ call'[c] = call[c]
      BY DEF Agrees
    <2>2. QED
      BY <2>1 DEF ResultAgrees, TrackedDirection, Configured, Quiet
  <1>3. QED
    BY <1>1, <1>2 DEF Agrees

(* A caller with the only call for a pin takes the driver's answer.        *)
LEMMA AnswerAgrees ==
  ASSUME TypeOK, NEW c \in Callers, NEW p \in Pins, p = call[c].pin, OneAtATime(p), Agrees(p),
         DriverConfigures(c) \/ DriverWrites(c) \/ DriverReads(c), pc'[c] = "record"
  PROVE  Agrees(p)'
  <1>1. pc[c] = "driver" /\ c \in InFlight
    BY DEF DriverConfigures, DriverWrites, DriverReads, InFlight
  <1>2. Recording(p) = {}
    BY <1>1 DEF Recording, OneAtATime, InFlight
  <1>3. EntryAgrees(p)
    BY <1>2 DEF Agrees
  <1>4. call'[c].pin = p /\ call'[c].kind = call[c].kind
    BY DEF TypeOK, Request, DriverConfigures, DriverWrites, DriverReads, Return, Goto
  <1>5. \A d \in Callers \ {c} : pc'[d] = pc[d] /\ call'[d] = call[d]
    BY DEF TypeOK, DriverConfigures, DriverWrites, DriverReads, Return, Goto
  <1>6. Recording(p)' = {c}
    BY <1>2, <1>4, <1>5 DEF Recording
  <1>7. activeDir' = activeDir /\ activeValue' = activeValue
    BY DEF DriverConfigures, DriverWrites, DriverReads
  <1>8. ResultAgrees(c, p)'
    <2> USE DEF TypeOK, DrvTypeOK
    <2>1. CASE DriverConfigures(c)
      <3>1. call' = call /\ call[c].kind = "configure"
            /\ DrvConfigure(p, call[c].d, call[c].pwm, TRUE)
        BY <2>1 DEF DriverConfigures, Return, Goto
      <3>2. dir'[p] = call[c].d /\ (call[c].d = "output" => ~level'[p])
        BY <3>1 DEF DrvConfigure
      <3>3. QED
        BY <3>1, <3>2 DEF ResultAgrees
    <2>2. CASE DriverWrites(c)
      <3>1. call' = call /\ call[c].kind = "write" /\ DrvWrite(p, call[c].v)
        BY <2>2 DEF DriverWrites
      <3>2. dir'[p] = dir[p] /\ level'[p] = call[c].v
        BY <3>1 DEF DrvWrite
      <3>3. TrackedDirection(p)'
        BY <1>3, <1>7, <3>2 DEF EntryAgrees, TrackedDirection, Configured
      <3>4. QED
        BY <3>1, <3>2, <3>3 DEF ResultAgrees
    <2>3. CASE DriverReads(c)
      <3>1. call[c].kind = "read" /\ dir' = dir /\ level' = level
        BY <2>3 DEF DriverReads, drvVars
      <3>2. call'[c].v = level[p]
        BY <2>3 DEF DriverReads, Request
      <3>3. TrackedDirection(p)'
        BY <1>3, <1>7, <3>1 DEF EntryAgrees, TrackedDirection, Configured
      <3>4. QED
        BY <1>4, <3>1, <3>2, <3>3 DEF ResultAgrees
    <2>4. QED
      BY <2>1, <2>2, <2>3
  <1>9. QED
    BY <1>6, <1>8 DEF Agrees

(* And records it.                                                         *)
LEMMA RecordedAgrees ==
  ASSUME TypeOK, NEW c \in Callers, NEW p \in Pins, p = call[c].pin, OneAtATime(p), Agrees(p),
         Record(c)
  PROVE  Agrees(p)'
  <1>1. c \in Recording(p) /\ c \in InFlight
    BY DEF Record, Recording, InFlight
  <1>2. ResultAgrees(c, p)
    BY <1>1 DEF Agrees
  <1>3. pc'[c] = "idle" /\ \A d \in Callers \ {c} : pc'[d] = pc[d] /\ call'[d] = call[d]
    BY DEF Record, Return, Goto, TypeOK
  <1>4. Recording(p) = {c}
    BY <1>1 DEF Recording, OneAtATime, InFlight
  <1>5. Recording(p)' = {}
    BY <1>3, <1>4 DEF Recording
  <1>6. dir' = dir /\ level' = level
    BY DEF Record, drvVars
  <1>7. EntryAgrees(p)'
    <2> USE DEF TypeOK
    <2>1. CASE call[c].kind = "configure"
      <3>1. activeDir'[p] = call[c].d
        BY <2>1 DEF Record
      <3>2. activeValue'[p] = FALSE
        BY <2>1 DEF Record
      <3>3. Configured(p)' => dir'[p] = call[c].d /\ (call[c].d = "output" => ~level'[p])
        BY <1>2, <1>6, <2>1 DEF ResultAgrees, Configured
      <3>4. level'[p] \in BOOLEAN
        BY <1>6 DEF DrvTypeOK
      <3>5. QED
        BY <3>1, <3>2, <3>3, <3>4 DEF EntryAgrees, TrackedDirection
    <2>2. CASE call[c].kind \in {"read", "write"}
      <3>1. activeDir' = activeDir
        BY <2>2 DEF Record
      <3>2. activeDir[p] = "output" => activeValue'[p] = call[c].v
        BY <2>2 DEF Record
      <3>3. TrackedDirection(p) /\ (dir[p] = "output" => level[p] = call[c].v)
        BY <1>2, <2>2 DEF ResultAgrees
      <3>4. QED
        BY <1>6, <3>1, <3>2, <3>3 DEF EntryAgrees, TrackedDirection, Configured
    <2>3. QED
      BY <2>1, <2>2 DEF Record
  <1>8. QED
    BY <1>5, <1>7 DEF Agrees

(* Every other step leaves what is to be recorded for a pin, and its       *)
(* entry, as they are.                                                     *)
LEMMA OtherStepsLeaveEntry ==
  ASSUME TypeOK, [Next]_vars, NEW p \in Pins,
         \A c \in Callers : call[c].pin = p => ~Record(c) /\ (Step(c) => pc'[c] # "record")
  PROVE  /\ activeDir'[p] = activeDir[p] /\ activeValue'[p] = activeValue[p]
         /\ Recording(p)' = Recording(p) /\ \A c \in Recording(p) : call'[c] = call[c]
  <1> USE DEF TypeOK
  <1>1. CASE UNCHANGED <<activeDir, activeValue, pc, call>>
    BY <1>1 DEF Recording
  <1>2. ASSUME NEW c \in Callers, RefuseOverLimit(c) \/ Deny(c) \/ Admit(c)
        PROVE  /\ activeDir'[p] = activeDir[p] /\ activeValue'[p] = activeValue[p]
               /\ Recording(p)' = Recording(p) /\ \A d \in Recording(p) : call'[d] = call[d]
    <2>1. activeDir' = activeDir /\ activeValue' = activeValue
      BY <1>2 DEF RefuseOverLimit, Deny, Admit
    <2>2. pc[c] # "record" /\ pc'[c] # "record"
      BY <1>2 DEF RefuseOverLimit, Deny, Admit, Goto
    <2>3. \A d \in Callers \ {c} : pc'[d] = pc[d] /\ call'[d] = call[d]
      BY <1>2 DEF RefuseOverLimit, Deny, Admit, Goto
    <2>4. QED
      BY <2>1, <2>2, <2>3 DEF Recording
  <1>3. ASSUME NEW c \in Callers, Step(c)
        PROVE  /\ activeDir'[p] = activeDir[p] /\ activeValue'[p] = activeValue[p]
               /\ Recording(p)' = Recording(p) /\ \A d \in Recording(p) : call'[d] = call[d]
    <2>1. \A d \in Callers \ {c} : pc'[d] = pc[d] /\ call'[d] = call[d]
      BY <1>3 DEF Step, CheckDirection, DriverRefuses, DriverConfigures, DriverWrites,
                  DriverReads, DriverEnds, Record, Return, Goto
    <2>2. CASE ~Record(c)
      <3>1. activeDir' = activeDir /\ activeValue' = activeValue /\ pc[c] # "record"
        BY <1>3, <2>2 DEF Step, CheckDirection, DriverRefuses, DriverConfigures, DriverWrites,
                  DriverReads, DriverEnds
      <3>2. pc'[c] = "record" => call'[c].pin = call[c].pin
        BY <1>3, <2>2 DEF Step, CheckDirection, DriverRefuses, DriverConfigures, DriverWrites,
                  DriverReads, DriverEnds, Return, Goto, Request
      <3>3. ~(pc'[c] = "record" /\ call'[c].pin = p)
        BY <1>3, <3>2
      <3>4. QED
        BY <2>1, <3>1, <3>3 DEF Recording
    <2>3. CASE Record(c)
      <3>1. call[c].pin # p /\ call[c].pin \in Pins
        BY <2>3 DEF Request
      <3>2. activeDir'[p] = activeDir[p] /\ activeValue'[p] = activeValue[p]
        BY <2>3, <3>1 DEF Record
      <3>3. pc'[c] # "record"
        BY <2>3 DEF Record, Return, Goto
      <3>4. QED
        BY <2>1, <3>1, <3>2, <3>3 DEF Recording
    <2>4. QED
      BY <2>2, <2>3
  <1>4. CASE ReleaseSlot \/ Initialize \/ Close \/ Background \/ UNCHANGED vars
    BY <1>1, <1>4 DEF ReleaseSlot, Initialize, Close, Background, vars, ctlVars
  <1>5. QED
    BY <1>2, <1>3, <1>4 DEF Next

LEMMA RecordInvStep ==
  ASSUME PlainOperations, PlainInv, RecordInv, [MCNext]_<<vars, contested>> PROVE RecordInv'
  <1> USE DEF PlainInv
  <1>1. CASE UNCHANGED <<vars, contested>>
    BY <1>1 DEF vars, drvVars, ctlVars, RecordInv, OneAtATime, InFlight, Agrees, Recording,
                EntryAgrees, ResultAgrees, TrackedDirection, Configured
  <1>2. CASE MCNext
    <2> SUFFICES ASSUME NEW p \in Pins, p \notin contested' PROVE (OneAtATime(p) /\ Agrees(p))'
      BY DEF RecordInv
    <2>1. p \notin contested /\ ~Contested(p)' /\ ~HalfConfigured(p) /\ [Next]_vars
      BY <1>2 DEF MCNext
    <2>2. OneAtATime(p) /\ Agrees(p)
      BY <2>1 DEF RecordInv
    <2>3. OneAtATime(p)'
      BY <2>1 DEF Contested, OneAtATime
    <2>4. CASE \E c \in Callers : call[c].pin = p /\ Record(c)
      BY <2>2, <2>4, RecordedAgrees, <2>3
    <2>5. CASE \E c \in Callers : call[c].pin = p /\ Step(c) /\ pc'[c] = "record" /\ ~Record(c)
      <3>1. PICK c \in Callers : call[c].pin = p /\ Step(c) /\ pc'[c] = "record" /\ ~Record(c)
        BY <2>5
      <3>2. DriverConfigures(c) \/ DriverWrites(c) \/ DriverReads(c)
        BY <3>1 DEF TypeOK, Step, CheckDirection, DriverRefuses, DriverEnds, Return, Goto
      <3>3. QED
        BY <2>2, <2>3, <3>1, <3>2, AnswerAgrees
    <2>6. CASE \A c \in Callers : call[c].pin = p => ~Record(c) /\ (Step(c) => pc'[c] # "record")
      <3>1. Quiet(p)
        <4>1. ASSUME NEW c \in Callers, call[c].pin = p, DriverConfigures(c) PROVE Quiet(p)
          <5>1. Step(c)
            BY <4>1 DEF Step
          <5>2. pc[c] = "driver" /\ pc'[c] = "idle" /\ call[c].kind = "configure"
            BY <2>6, <4>1, <5>1 DEF DriverConfigures, Return, Goto, TypeOK
          <5>3. dir'[p] = dir[p] /\ level'[p] = level[p]
            BY <2>1, <4>1, <5>2 DEF HalfConfigured
          <5>4. QED
            BY <5>3 DEF Quiet
        <4>2. ASSUME NEW c \in Callers, call[c].pin = p, DriverWrites(c) PROVE FALSE
          BY <2>6, <4>2 DEF Step, DriverWrites, Goto, TypeOK
        <4>3. QED
          BY <2>1, <4>1, <4>2, PlainStepOfPin
      <3>2. /\ activeDir'[p] = activeDir[p] /\ activeValue'[p] = activeValue[p]
            /\ Recording(p)' = Recording(p) /\ \A c \in Recording(p) : call'[c] = call[c]
        BY <2>1, <2>6, OtherStepsLeaveEntry
      <3>3. Agrees(p)'
        BY <2>2, <3>1, <3>2, QuietStepAgrees
      <3>4. QED
        BY <2>3, <3>3
    <2>7. QED
      BY <2>4, <2>5, <2>6
  <1>3. QED
    BY <1>1, <1>2

(* ListConfiguredPins of the agent: a pin that operations touched one at a *)
(* time, none of them a configure that failed half-way, is listed with the *)
(* direction the driver has for it, and an output with its level: for      *)
(* every number of callers and slots, with Close, Initialize and the       *)
(* world outside at any moment.                                            *)
THEOREM RecordAgreesWithDriver ==
  ASSUME PlainOperations PROVE ContestedSpec => []RecordMatchesDriver
  <1>1. MCInit => Init /\ RecordInv
    BY DEF MCInit, Init, DrvInit, RecordInv, OneAtATime, InFlight, Agrees, Recording,
           EntryAgrees, TrackedDirection, Configured
  <1>2. [MCNext]_<<vars, contested>> => [Next]_vars
    BY DEF MCNext
  <1>3. PlainInv /\ RecordInv /\ [MCNext]_<<vars, contested>> => RecordInv'
    BY RecordInvStep
  <1>4. RecordInv => RecordMatchesDriver
    <2> SUFFICES ASSUME RecordInv, InFlight = {},
                        NEW p \in DOMAIN ListConfiguredPins \ contested, Configured(p)
                 PROVE  /\ ListConfiguredPins[p].direction = dir[p]
                        /\ ListConfiguredPins[p].direction = "output"
                             => ListConfiguredPins[p].value = level[p]
      BY DEF RecordMatchesDriver
    <2>1. p \in Pins \ contested /\ activeDir[p] # "untracked"
          /\ ListConfiguredPins[p] = [direction |-> activeDir[p], value |-> activeValue[p]]
      BY DEF ListConfiguredPins
    <2>2. Recording(p) = {}
      BY DEF Recording, InFlight
    <2>3. EntryAgrees(p)
      BY <2>1, <2>2 DEF RecordInv, Agrees
    <2>4. QED
      BY <2>1, <2>3 DEF EntryAgrees, TrackedDirection
  <1>5. Spec => []PlainInv
    BY PlainInvariant
  <1>6. QED
    BY <1>1, <1>2, <1>3, <1>4, <1>5, PTL DEF ContestedSpec, Spec

-----------------------------------------------------------------------------
(* A value that a read of the pin must return is on the pin, and nothing   *)
(* that changes the pin is at work.                                        *)
WrittenIsThere(p) ==
  written[p] # Unknown =>
    /\ \A d \in Callers : ~AtWork(d, p)
    /\ dir[p] # "input"
    /\ dir[p] = "output" => level[p] = (written[p] = 1)

(* A write that nothing overlaps carries its value, and has put it on the  *)
(* pin when it comes to record it.                                         *)
SureWrite(c) ==
  c \in InFlight /\ call[c].kind = "write" /\ sure[c] # Unknown =>
    /\ call[c].v = (sure[c] = 1)
    /\ \A d \in Callers \ {c} : ~AtWork(d, call[c].pin)
    /\ pc[c] = "record" =>
         /\ dir[call[c].pin] # "input"
         /\ dir[call[c].pin] = "output" => level[call[c].pin] = call[c].v

(* A read that nothing overlaps is for the value written.                  *)
SureRead(c) ==
  c \in InFlight /\ call[c].kind = "read" /\ sure[c] # Unknown =>
    /\ written[call[c].pin] = sure[c]
    /\ pc[c] = "record" => call[c].v = (sure[c] = 1)

HistoryTypeOK ==
  written \in [Pins -> {Unknown, 0, 1}] /\ sure \in [Callers -> {Unknown, 0, 1}]

HistoryInv ==
  /\ HistoryTypeOK
  /\ \A p \in Pins : WrittenIsThere(p)
  /\ \A c \in Callers : SureWrite(c) /\ SureRead(c)

(* A step of the service is a step of the gate, or nothing.                *)
LEMMA ServiceStepIsGateStep == ASSUME [AgentNext]_agentVars PROVE [Next]_vars
  BY DEF AgentNext, agentVars, Serve, OtherCalls, TestCalls, RunDemo, Look, GiveUp, Next

(* What every handler makes of a message.                                  *)
LEMMA ConvertedCalls ==
  ASSUME NEW m \in Acceptable
  PROVE  /\ Converted(m).pin = m.pin /\ m.pin \in Pins
         /\ Converted(m).kind \in {"configure", "read", "write", "pwm"}
         /\ Converted(m).kind = "write" => Converted(m).v = High(m.value)
         /\ m.value \in Int
  <1>1. m.method \in Methods /\ m.pin \in Pins /\ m.value \in Int
    BY AgentGPIOAssumption DEF Acceptable, Sendable, Message
  <1>2. QED
    BY <1>1 DEF Methods, Converted, ConfigureGPIOPin, ReadGPIOPin, WriteGPIOPin, SetGPIOPWM, ToController

-----------------------------------------------------------------------------
(* A call begins: what it is sure of, and what it makes of the others.     *)
CallBegins(c) ==
  \E m \in Acceptable : Admit(c) /\ call'[c] = Converted(m) /\ Begun(c, m)

LEMMA BeginningKeepsHistory ==
  ASSUME PlainInv, HistoryInv, NEW c \in Callers, CallBegins(c) PROVE HistoryInv'
  <1> USE DEF PlainInv
  <1>1. PICK m \in Acceptable : Admit(c) /\ call'[c] = Converted(m) /\ Begun(c, m)
    BY DEF CallBegins
  <1> DEFINE r == Converted(m)
             q == m.pin
             alone == \A d \in Callers : ~AtWork(d, q)
  <1>2. r.pin = q /\ q \in Pins /\ r.kind \in {"configure", "read", "write", "pwm"}
        /\ (r.kind = "write" => r.v = High(m.value)) /\ m.value \in Int
    BY ConvertedCalls
  <1>3. pc \in [Callers -> {"idle", "refused", "check", "driver", "record"}] /\ call \in [Callers -> Request]
        /\ written \in [Pins -> {Unknown, 0, 1}] /\ sure \in [Callers -> {Unknown, 0, 1}]
    BY DEF TypeOK, HistoryInv, HistoryTypeOK
  <1>4. /\ c \notin InFlight /\ pc'[c] \in {"check", "driver"} /\ call'[c] = r
        /\ \A d \in Callers \ {c} : pc'[d] = pc[d] /\ call'[d] = call[d]
        /\ dir' = dir /\ level' = level
    BY <1>1, <1>3 DEF Admit, Goto, InFlight, drvVars
  <1>5. written' = IF Changes(r) THEN [written EXCEPT ![q] = Unknown] ELSE written
    BY <1>1 DEF Begun
  <1>6. /\ sure'[c] = IF r.kind = "read" THEN written[q]
                      ELSE IF r.kind = "write" /\ alone /\ m.value \in {0, 1} THEN m.value
                      ELSE Unknown
        /\ \A d \in Callers \ {c} :
             sure'[d] = IF Changes(r) /\ call[d].pin = q THEN Unknown ELSE sure[d]
    BY <1>1 DEF Begun
  <1> HIDE DEF r, q
  <1>7. HistoryTypeOK'
    <2>1. written' \in [Pins -> {Unknown, 0, 1}]
      BY <1>2, <1>3, <1>5
    <2>2. sure' = [d \in Callers |-> sure'[d]]
      BY <1>1 DEF Begun
    <2>3. \A d \in Callers : sure'[d] \in {Unknown, 0, 1}
      BY <1>2, <1>3, <1>6
    <2>4. QED
      BY <2>1, <2>2, <2>3 DEF HistoryTypeOK
  <1>8. \A d \in Callers \ {c}, p \in Pins : AtWork(d, p)' = AtWork(d, p)
    BY <1>4 DEF AtWork, InFlight, Changes
  <1>9. \A p \in Pins : AtWork(c, p)' => Changes(r) /\ p = q
    BY <1>2, <1>4 DEF AtWork, Changes
  <1>10. ASSUME NEW p \in Pins PROVE WrittenIsThere(p)'
    <2>1. CASE Changes(r) /\ p = q
      BY <1>2, <1>3, <1>5, <2>1 DEF WrittenIsThere
    <2>2. CASE ~(Changes(r) /\ p = q)
      <3>1. written'[p] = written[p]
        BY <1>2, <1>3, <1>5, <2>2
      <3>2. WrittenIsThere(p)
        BY DEF HistoryInv
      <3>3. (\A d \in Callers : ~AtWork(d, p)) => \A d \in Callers : ~AtWork(d, p)'
        BY <1>8, <1>9, <2>2
      <3>4. QED
        BY <1>4, <3>1, <3>2, <3>3 DEF WrittenIsThere
    <2>3. QED
      BY <2>1, <2>2
  <1>11. ASSUME NEW d \in Callers PROVE SureWrite(d)'
    <2>1. CASE d = c
      <3>1. SUFFICES ASSUME r.kind = "write", sure'[c] # Unknown
                     PROVE  /\ r.v = (sure'[c] = 1)
                            /\ \A e \in Callers \ {c} : ~AtWork(e, q)'
        BY <1>2, <1>4, <2>1 DEF SureWrite
      <3>2. alone /\ m.value \in {0, 1} /\ sure'[c] = m.value
        BY <1>6, <3>1
      <3>3. r.v = (sure'[c] = 1)
        BY <1>2, <3>1, <3>2 DEF High
      <3>4. QED
        BY <1>2, <1>8, <3>2, <3>3
    <2>2. CASE d # c
      <3>1. SUFFICES ASSUME d \in InFlight, call[d].kind = "write", sure'[d] # Unknown
                     PROVE  SureWrite(d)'
        BY <1>4, <2>2 DEF SureWrite, InFlight
      <3>2. sure'[d] = sure[d] /\ ~(Changes(r) /\ call[d].pin = q) /\ call[d].pin \in Pins
        BY <1>3, <1>6, <2>2, <3>1 DEF Request
      <3>3. SureWrite(d)
        BY DEF HistoryInv
      <3>4. PICK p \in Pins : p = call[d].pin
        BY <3>2
      <3>5. \A e \in Callers \ {d} : ~AtWork(e, p)
        BY <3>1, <3>2, <3>3, <3>4 DEF SureWrite
      <3>6. \A e \in Callers \ {d} : ~AtWork(e, p)'
        BY <1>8, <1>9, <3>2, <3>4, <3>5
      <3>7. call'[d] = call[d] /\ pc'[d] = pc[d]
        BY <1>4, <2>2
      <3>8. QED
        BY <1>4, <3>1, <3>2, <3>3, <3>4, <3>6, <3>7 DEF SureWrite, InFlight
    <2>3. QED
      BY <2>1, <2>2
  <1>12. ASSUME NEW d \in Callers PROVE SureRead(d)'
    <2>1. CASE d = c
      <3>1. r.kind = "read" => sure'[c] = written[q] /\ written' = written
        BY <1>5, <1>6 DEF Changes
      <3>2. QED
        BY <1>2, <1>4, <2>1, <3>1 DEF SureRead
    <2>2. CASE d # c
      <3>1. SUFFICES ASSUME d \in InFlight, call[d].kind = "read", sure'[d] # Unknown
                     PROVE  SureRead(d)'
        BY <1>4, <2>2 DEF SureRead, InFlight
      <3>2. sure'[d] = sure[d] /\ ~(Changes(r) /\ call[d].pin = q) /\ call[d].pin \in Pins
        BY <1>3, <1>6, <2>2, <3>1 DEF Request
      <3>3. SureRead(d)
        BY DEF HistoryInv
      <3>4. written'[call[d].pin] = written[call[d].pin]
        BY <1>2, <1>3, <1>5, <3>2
      <3>5. QED
        BY <1>4, <2>2, <3>1, <3>2, <3>3, <3>4 DEF SureRead, InFlight
    <2>3. QED
      BY <2>1, <2>2
  <1>13. QED
    BY <1>7, <1>10, <1>11, <1>12 DEF HistoryInv

-----------------------------------------------------------------------------
(* A call goes on: only its own pin is touched, when it is one that        *)
(* changes pins, and no other call begins to change anything.              *)
LEMMA ServedStep ==
  ASSUME PlainOperations, PlainInv, NEW c \in Callers, Step(c)
  PROVE  /\ c \in InFlight
         /\ \A d \in Callers \ {c} : pc'[d] = pc[d] /\ call'[d] = call[d]
         /\ c \in InFlight' =>
              /\ call'[c].kind = call[c].kind /\ call'[c].pin = call[c].pin
              /\ call[c].kind # "read" => call'[c] = call[c]
         /\ \A d \in Callers, q \in Pins : AtWork(d, q)' => AtWork(d, q)
         /\ \A q \in Pins : ~AtWork(c, q) => Quiet(q)
  <1> USE DEF PlainInv
  <1>1. c \in InFlight
    BY StepsAreInFlight
  <1>2. \A d \in Callers \ {c} : pc'[d] = pc[d] /\ call'[d] = call[d]
    BY DEF TypeOK, Step, CheckDirection, DriverRefuses, DriverConfigures, DriverWrites,
           DriverReads, DriverEnds, Record, Return, Goto
  <1>3. /\ c \in InFlight' /\ ~DriverReads(c) => call'[c] = call[c]
        /\ DriverReads(c) => call[c].kind = "read" /\ call'[c] = [call[c] EXCEPT !.v = level[call[c].pin]]
    BY DEF TypeOK, InFlight, Step, CheckDirection, DriverRefuses, DriverConfigures, DriverWrites,
           DriverReads, DriverEnds, Record, Return, Goto
  <1>4. c \in InFlight' =>
          /\ call'[c].kind = call[c].kind /\ call'[c].pin = call[c].pin
          /\ call[c].kind # "read" => call'[c] = call[c]
    BY <1>3 DEF TypeOK, Request
  <1>5. ASSUME NEW d \in Callers, NEW q \in Pins, AtWork(d, q)' PROVE AtWork(d, q)
    <2>1. CASE d = c
      BY <1>1, <1>4, <1>5, <2>1 DEF AtWork, Changes
    <2>2. CASE d # c
      BY <1>2, <1>5, <2>2 DEF AtWork, Changes, InFlight
    <2>3. QED
      BY <2>1, <2>2
  <1>6. ASSUME NEW q \in Pins, ~AtWork(c, q) PROVE Quiet(q)
    <2>1. ASSUME NEW d \in Callers, call[d].pin = q, DriverConfigures(d) \/ DriverWrites(d)
          PROVE FALSE
      <3>1. pc[d] = "driver" /\ pc'[d] # "driver" /\ call[d].kind \in {"configure", "write"}
        BY <2>1 DEF TypeOK, DriverConfigures, DriverWrites, Return, Goto
      <3>2. d = c
        BY <1>2, <3>1
      <3>3. QED
        BY <1>1, <1>6, <2>1, <3>1, <3>2 DEF AtWork, Changes
    <2>2. [Next]_vars
      BY DEF Next
    <2>3. QED
      BY <2>1, <2>2, PlainStepOfPin
  <1>7. QED
    BY <1>1, <1>2, <1>4, <1>5, <1>6

LEMMA ServingKeepsHistory ==
  ASSUME PlainOperations, PlainInv, HistoryInv, NEW c \in Callers, Step(c),
         IF pc'[c] = "idle" THEN Ended(c) ELSE UNCHANGED <<written, sure>>
  PROVE  HistoryInv'
  <1> USE DEF PlainInv
  <1>1. /\ c \in InFlight
        /\ \A d \in Callers \ {c} : pc'[d] = pc[d] /\ call'[d] = call[d]
        /\ c \in InFlight' =>
             /\ call'[c].kind = call[c].kind /\ call'[c].pin = call[c].pin
             /\ call[c].kind # "read" => call'[c] = call[c]
        /\ \A d \in Callers, q \in Pins : AtWork(d, q)' => AtWork(d, q)
        /\ \A q \in Pins : ~AtWork(c, q) => Quiet(q)
    BY ServedStep
  <1>2. pc \in [Callers -> {"idle", "refused", "check", "driver", "record"}] /\ call \in [Callers -> Request]
        /\ written \in [Pins -> {Unknown, 0, 1}] /\ sure \in [Callers -> {Unknown, 0, 1}]
    BY DEF TypeOK, HistoryInv, HistoryTypeOK
  <1>3. PICK p \in Pins : p = call[c].pin
    BY <1>2 DEF Request
  <1>4. /\ \A d \in Callers \ {c} : sure'[d] = sure[d]
        /\ c \in InFlight' => sure'[c] = sure[c]
        /\ \A q \in Pins : written'[q] = written[q]
             \/ (q = p /\ pc[c] = "record" /\ call[c].kind = "write"
                   /\ pc'[c] = "idle" /\ written'[q] = sure[c])
    BY <1>2, <1>3 DEF Ended, InFlight
  <1>5. HistoryTypeOK'
    BY <1>2, <1>3 DEF Ended, HistoryTypeOK
  <1>6. ASSUME NEW q \in Pins PROVE WrittenIsThere(q)'
    <2>1. CASE written'[q] = written[q]
      <3>1. SUFFICES ASSUME written[q] # Unknown
                     PROVE  /\ \A d \in Callers : ~AtWork(d, q)'
                            /\ dir'[q] # "input"
                            /\ dir'[q] = "output" => level'[q] = (written[q] = 1)
        BY <2>1 DEF WrittenIsThere
      <3>2. /\ \A d \in Callers : ~AtWork(d, q)
            /\ dir[q] # "input"
            /\ dir[q] = "output" => level[q] = (written[q] = 1)
        BY <3>1 DEF HistoryInv, WrittenIsThere
      <3>3. Quiet(q)
        BY <1>1, <3>2
      <3>4. QED
        BY <1>1, <3>2, <3>3 DEF Quiet
    <2>2. CASE q = p /\ pc[c] = "record" /\ call[c].kind = "write"
                 /\ pc'[c] = "idle" /\ written'[q] = sure[c]
      <3>1. SUFFICES ASSUME sure[c] # Unknown
                     PROVE  /\ \A d \in Callers : ~AtWork(d, q)'
                            /\ dir'[q] # "input"
                            /\ dir'[q] = "output" => level'[q] = (sure[c] = 1)
        BY <2>2 DEF WrittenIsThere
      <3>2. /\ call[c].v = (sure[c] = 1)
            /\ \A d \in Callers \ {c} : ~AtWork(d, q)
            /\ dir[q] # "input"
            /\ dir[q] = "output" => level[q] = call[c].v
        BY <1>1, <1>3, <2>2, <3>1 DEF HistoryInv, SureWrite
      <3>3. \A d \in Callers : ~AtWork(d, q)'
        BY <1>1, <2>2, <3>2 DEF AtWork, InFlight
      <3>4. dir' = dir /\ level' = level
        BY <2>2 DEF Step, CheckDirection, DriverRefuses, DriverConfigures, DriverWrites,
                    DriverReads, DriverEnds, Record, drvVars
      <3>5. QED
        BY <3>2, <3>3, <3>4
    <2>3. QED
      BY <1>4, <2>1, <2>2
  <1>7. ASSUME NEW d \in Callers PROVE SureWrite(d)'
    <2>1. CASE d = c
      <3>1. SUFFICES ASSUME c \in InFlight', call[c].kind = "write", sure[c] # Unknown
                     PROVE  SureWrite(c)'
        BY <1>1, <1>4, <2>1 DEF SureWrite
      <3>2. call'[c] = call[c] /\ sure'[c] = sure[c]
        BY <1>1, <1>4, <3>1
      <3>3. call[c].v = (sure[c] = 1) /\ \A e \in Callers \ {c} : ~AtWork(e, p)
        BY <1>1, <1>3, <3>1 DEF HistoryInv, SureWrite
      <3>4. \A e \in Callers \ {c} : ~AtWork(e, p)'
        BY <1>1, <3>3
      <3>5. ASSUME pc'[c] = "record"
            PROVE  dir'[p] # "input" /\ (dir'[p] = "output" => level'[p] = call[c].v)
        <4>1. DriverWrites(c)
          BY <1>2, <3>1, <3>5 DEF Step, CheckDirection, DriverRefuses, DriverConfigures, DriverReads,
                    DriverEnds, Record, Return, Goto
        <4>2. DrvWrite(p, call[c].v) /\ level \in [Pins -> BOOLEAN]
          BY <1>3, <4>1 DEF DriverWrites, TypeOK, DrvTypeOK
        <4>3. QED
          BY <4>2 DEF DrvWrite, DrvWritable
      <3>6. QED
        BY <1>3, <3>2, <3>3, <3>4, <3>5 DEF SureWrite
    <2>2. CASE d # c
      <3>1. SUFFICES ASSUME d \in InFlight, call[d].kind = "write", sure[d] # Unknown
                     PROVE  SureWrite(d)'
        BY <1>1, <1>4, <2>2 DEF SureWrite, InFlight
      <3>2. PICK q \in Pins : q = call[d].pin
        BY <1>2 DEF Request
      <3>3. /\ call[d].v = (sure[d] = 1)
            /\ \A e \in Callers \ {d} : ~AtWork(e, q)
            /\ pc[d] = "record" => dir[q] # "input" /\ (dir[q] = "output" => level[q] = call[d].v)
        BY <3>1, <3>2 DEF HistoryInv, SureWrite
      <3>4. Quiet(q) /\ \A e \in Callers \ {d} : ~AtWork(e, q)'
        BY <1>1, <2>2, <3>3
      <3>5. call'[d] = call[d] /\ pc'[d] = pc[d] /\ sure'[d] = sure[d]
        BY <1>1, <1>4, <2>2
      <3>6. pc'[d] = "record" => dir'[q] # "input" /\ (dir'[q] = "output" => level'[q] = call[d].v)
        BY <3>3, <3>4, <3>5 DEF Quiet
      <3>7. QED
        BY <3>2, <3>3, <3>4, <3>5, <3>6 DEF SureWrite
    <2>3. QED
      BY <2>1, <2>2
  <1>8. ASSUME NEW d \in Callers PROVE SureRead(d)'
    <2>1. CASE d = c
      <3>1. SUFFICES ASSUME c \in InFlight', call[c].kind = "read", sure[c] # Unknown
                     PROVE  SureRead(c)'
        BY <1>1, <1>4, <2>1 DEF SureRead
      <3>2. pc'[c] = "record" => DriverReads(c)
        BY <1>2, <3>1 DEF Step, CheckDirection, DriverRefuses, DriverConfigures, DriverWrites,
                          DriverEnds, Record, Return, Goto
      <3>3. written[p] = sure[c] /\ sure'[c] = sure[c]
        BY <1>1, <1>3, <1>4, <3>1 DEF HistoryInv, SureRead
      <3>4. dir[p] # "input" /\ (dir[p] = "output" => level[p] = (sure[c] = 1))
        BY <3>1, <3>3 DEF HistoryInv, WrittenIsThere
      <3>5. ASSUME pc'[c] = "record" PROVE call'[c].v = (sure'[c] = 1)
        <4>1. dir[p] = "output" /\ call'[c] = [call[c] EXCEPT !.v = level[p]]
          BY <1>2, <1>3, <3>2, <3>4, <3>5 DEF DriverReads, DrvReadable, Configured, TypeOK, DrvTypeOK, Directions
        <4>2. QED
          BY <1>2, <1>3, <3>3, <3>4, <4>1 DEF Request
      <3>6. written'[p] = written[p] /\ call'[c].pin = p
        BY <1>1, <1>3, <1>4, <3>1
      <3>7. QED
        BY <3>3, <3>5, <3>6 DEF SureRead
    <2>2. CASE d # c
      <3>1. SUFFICES ASSUME d \in InFlight, call[d].kind = "read", sure[d] # Unknown
                     PROVE  SureRead(d)'
        BY <1>1, <1>4, <2>2 DEF SureRead, InFlight
      <3>2. PICK q \in Pins : q = call[d].pin
        BY <1>2 DEF Request
      <3>3. written[q] = sure[d] /\ (pc[d] = "record" => call[d].v = (sure[d] = 1))
        BY <3>1, <3>2 DEF HistoryInv, SureRead
      <3>4. ~AtWork(c, q)
        BY <3>1, <3>3 DEF HistoryInv, WrittenIsThere
      <3>5. written'[q] = written[q]
        BY <1>1, <1>3, <1>4, <3>4 DEF AtWork, Changes
      <3>6. call'[d] = call[d] /\ pc'[d] = pc[d] /\ sure'[d] = sure[d]
        BY <1>1, <1>4, <2>2
      <3>7. QED
        BY <3>2, <3>3, <3>5, <3>6 DEF SureRead
    <2>3. QED
      BY <2>1, <2>2
  <1>9. QED
    BY <1>5, <1>6, <1>7, <1>8 DEF HistoryInv

(* Everything else leaves the calls as they are, and the pins quiet.       *)
LEMMA OtherStepsKeepHistory ==
  ASSUME PlainOperations, PlainInv, HistoryInv, UNCHANGED <<written, sure>>,
         \/ ReleaseSlot \/ Initialize \/ Close \/ Background \/ UNCHANGED vars
         \/ \E c \in Callers : RefuseOverLimit(c) \/ Deny(c)
  PROVE  HistoryInv'
  <1> USE DEF PlainInv
  <1>1. /\ InFlight' = InFlight
        /\ \A d \in InFlight : pc'[d] = pc[d] /\ call'[d] = call[d]
    BY DEF TypeOK, InFlight, ReleaseSlot, Initialize, Close, Background, vars, ctlVars,
           RefuseOverLimit, Deny, Goto
  <1>2. ASSUME NEW p \in Pins PROVE Quiet(p)
    <2>1. [Next]_vars
      BY DEF Next
    <2>2. ASSUME NEW d \in Callers, DriverConfigures(d) \/ DriverWrites(d) PROVE FALSE
      <3>1. pc[d] = "driver" /\ pc'[d] # "driver"
        BY <2>2 DEF TypeOK, DriverConfigures, DriverWrites, Return, Goto
      <3>2. QED
        BY <1>1, <3>1 DEF InFlight
    <2>3. QED
      BY <2>1, <2>2, PlainStepOfPin
  <1>3. \A d \in Callers, q \in Pins : AtWork(d, q)' = AtWork(d, q)
    BY <1>1 DEF AtWork, Changes
  <1>4. HistoryTypeOK'
    BY DEF HistoryInv, HistoryTypeOK
  <1>5. ASSUME NEW p \in Pins PROVE WrittenIsThere(p)'
    <2>1. WrittenIsThere(p) /\ Quiet(p)
      BY <1>2 DEF HistoryInv
    <2>2. QED
      BY <1>3, <2>1 DEF WrittenIsThere, Quiet
  <1>6. ASSUME NEW d \in Callers PROVE SureWrite(d)'
    <2>1. SUFFICES ASSUME d \in InFlight, call[d].kind = "write", sure[d] # Unknown
                   PROVE  SureWrite(d)'
      BY <1>1 DEF SureWrite
    <2>2. PICK q \in Pins : q = call[d].pin
      BY DEF TypeOK, Request
    <2>3. /\ call[d].v = (sure[d] = 1)
          /\ \A e \in Callers \ {d} : ~AtWork(e, q)
          /\ pc[d] = "record" => dir[q] # "input" /\ (dir[q] = "output" => level[q] = call[d].v)
      BY <2>1, <2>2 DEF HistoryInv, SureWrite
    <2>4. Quiet(q) /\ \A e \in Callers \ {d} : ~AtWork(e, q)'
      BY <1>2, <1>3, <2>3
    <2>5. call'[d] = call[d] /\ pc'[d] = pc[d] /\ sure'[d] = sure[d]
      BY <1>1, <2>1
    <2>6. pc'[d] = "record" => dir'[q] # "input" /\ (dir'[q] = "output" => level'[q] = call[d].v)
      BY <2>3, <2>4, <2>5 DEF Quiet
    <2>7. QED
      BY <2>2, <2>3, <2>4, <2>5, <2>6 DEF SureWrite
  <1>7. ASSUME NEW d \in Callers PROVE SureRead(d)'
    BY <1>1 DEF HistoryInv, SureRead
  <1>8. QED
    BY <1>4, <1>5, <1>6, <1>7 DEF HistoryInv

(* Every step of the service, its clients and the world around it.         *)
LEMMA HistoryInvStep ==
  ASSUME PlainOperations, PlainInv, HistoryInv, [AgentNext]_agentVars PROVE HistoryInv'
  <1>1. ASSUME NEW c \in Callers, Serve(c) PROVE HistoryInv'
    <2>1. Step(c) /\ IF pc'[c] = "idle" THEN Ended(c) ELSE UNCHANGED <<written, sure>>
      BY <1>1 DEF Serve
    <2>2. QED
      BY <2>1, ServingKeepsHistory
  <1>2. ASSUME NEW c \in Callers, OtherCalls(c) \/ TestCalls(c) PROVE HistoryInv'
    <2>1. \/ CallBegins(c)
          \/ (RefuseOverLimit(c) \/ Deny(c)) /\ UNCHANGED <<written, sure>>
      BY <1>2 DEF OtherCalls, TestCalls, CallBegins
    <2>2. QED
      BY <2>1, BeginningKeepsHistory, OtherStepsKeepHistory
  <1>3. CASE RunDemo \/ Look \/ GiveUp \/ UNCHANGED agentVars
    <2>1. UNCHANGED vars /\ UNCHANGED <<written, sure>>
      BY <1>3 DEF RunDemo, Look, GiveUp, agentVars
    <2>2. QED
      BY <2>1, OtherStepsKeepHistory
  <1>4. CASE (ReleaseSlot \/ Initialize \/ Close \/ Background) /\ UNCHANGED <<testVars, written, sure>>
    BY <1>4, OtherStepsKeepHistory
  <1>5. QED
    BY <1>1, <1>2, <1>3, <1>4 DEF AgentNext

(* Clients of the agent: a read that began after a write of 0 or 1 was     *)
(* answered, with nothing else that changes the pin at work since that     *)
(* write began, returns the value written, whatever the other clients do   *)
(* to other pins, and with Close, Initialize and edges of the world        *)
(* outside at any moment.                                                  *)
THEOREM ReadsReturnTheirWrites ==
  ASSUME PlainOperations PROVE AgentSpec => []ReadsReturnWrites
  <1>1. AgentInit => Init /\ HistoryInv
    <2> SUFFICES ASSUME AgentInit PROVE Init /\ HistoryInv
      OBVIOUS
    <2>1. InFlight = {} /\ \A p \in Pins : written[p] = Unknown
      BY DEF AgentInit, Init, InFlight
    <2>2. QED
      BY <2>1 DEF AgentInit, HistoryInv, HistoryTypeOK, WrittenIsThere, SureWrite, SureRead
  <1>2. [AgentNext]_agentVars => [Next]_vars
    BY ServiceStepIsGateStep
  <1>3. PlainInv /\ HistoryInv /\ [AgentNext]_agentVars => HistoryInv'
    BY HistoryInvStep
  <1>4. HistoryInv => ReadsReturnWrites
    BY DEF HistoryInv, SureRead, ReadsReturnWrites, InFlight
  <1>5. Spec => []PlainInv
    BY PlainInvariant
  <1>6. QED
    BY <1>1, <1>2, <1>3, <1>4, <1>5, PTL DEF AgentSpec, Spec

=============================================================================
