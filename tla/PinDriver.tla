----------------------------- MODULE PinDriver -----------------------------
(***************************************************************************)
(* The GPIO driver as its callers see it: what every call of               *)
(* pkg/gpio/interface.go does to the pins when it takes effect at one      *)
(* instant.  GPIOController calls these actions; PeriphGPIO, which has the *)
(* driver's lock, its PWM goroutines and its multi-step calls, implements  *)
(* this module.                                                            *)
(*                                                                         *)
(* "mode" and "level" are the electrical state of the header: what the     *)
(* last In or Out call made of the pin, and the level on it.  "dir" and    *)
(* "pwm" are the driver's own maps, pins and pwmPins.  The two differ when *)
(* a software-PWM goroutine still drives a pin the driver has forgotten.   *)
(***************************************************************************)
EXTENDS Integers

CONSTANTS
  Pins,       \* BCM pin numbers callers name
  FaultyPins  \* pins whose In and Out calls may fail

ASSUME PinsAssumption == Pins \subseteq Int /\ Pins # {} /\ FaultyPins \subseteq Pins

VARIABLES
  initialized,  \* PeriphGPIO.initialized
  dir,          \* pins[p].config.Direction, "unconfigured" when p is not a key
  pwm,          \* pwmPins[p]: "none", "idle" (active = false) or "active"
  mode,         \* electrical mode of the pin
  level,        \* level on the pin, TRUE for high
  pwmDriven     \* pins that a runSoftwarePWM goroutine toggles

drvVars == <<initialized, dir, pwm, mode, level, pwmDriven>>

Directions == {"input", "output"}

\* configurePWM: the pins that support PWM.
ValidPWMPins == {12, 13, 18, 19}

Configured(p) == dir[p] # "unconfigured"

DrvTypeOK ==
  /\ initialized \in BOOLEAN
  /\ dir \in [Pins -> Directions \cup {"unconfigured"}]
  /\ pwm \in [Pins -> {"none", "idle", "active"}]
  /\ mode \in [Pins -> Directions]
  /\ level \in [Pins -> BOOLEAN]
  /\ pwmDriven \subseteq Pins

DrvInit ==
  /\ initialized = FALSE
  /\ dir = [p \in Pins |-> "unconfigured"]
  /\ pwm = [p \in Pins |-> "none"]
  /\ mode = [p \in Pins |-> "input"]
  /\ level = [p \in Pins |-> FALSE]
  /\ pwmDriven = {}

-----------------------------------------------------------------------------
(* Initialize: periph.io's host.Init, once.                                *)
DrvInitialize ==
  /\ ~initialized
  /\ initialized' = TRUE
  /\ UNCHANGED <<dir, pwm, mode, level, pwmDriven>>

(* A wrong Close that resets the PWM pins only.                            *)
DrvClose_PWMOnly ==
  /\ initialized
  /\ level' = [p \in Pins |-> level[p] /\ pwm[p] # "active"]
  /\ mode' = [p \in Pins |-> IF pwm[p] = "active" THEN "output" ELSE mode[p]]
  /\ dir' = [p \in Pins |-> "unconfigured"]
  /\ pwm' = [p \in Pins |-> "none"]
  /\ initialized' = FALSE
  /\ UNCHANGED pwmDriven

(* Close: every output pin and every active PWM pin is driven low (a       *)
(* failing pin is logged and skipped), and both maps are emptied.  No PWM  *)
(* goroutine is told to stop.                                              *)
DrvClose ==
  /\ initialized
  /\ \E skipped \in SUBSET FaultyPins :
       LET reset == {p \in Pins : dir[p] = "output" \/ pwm[p] = "active"} \ skipped
       IN  /\ mode' = [p \in Pins |-> IF p \in reset THEN "output" ELSE mode[p]]
           /\ level' = [p \in Pins |-> level[p] /\ p \notin reset]
  /\ dir' = [p \in Pins |-> "unconfigured"]
  /\ pwm' = [p \in Pins |-> "none"]
  /\ initialized' = FALSE
  /\ UNCHANGED pwmDriven

(* ConfigurePin: the line is switched first, then the pin is stored, then  *)
(* PWM is set up when asked for.  On a pin without PWM the call fails      *)
(* after the pin was stored.  ok is what the caller sees.                  *)
DrvConfigure(p, d, withPWM, ok) ==
  /\ initialized
  /\ dir' = [dir EXCEPT ![p] = d]
  /\ mode' = [mode EXCEPT ![p] = d]
  /\ \E outside \in BOOLEAN :
       level' = [level EXCEPT ![p] = d = "input" /\ outside]
  /\ pwm' = [pwm EXCEPT ![p] = IF withPWM /\ p \in ValidPWMPins THEN "idle" ELSE @]
  /\ ok = (withPWM => p \in ValidPWMPins)
  /\ UNCHANGED <<initialized, pwmDriven>>

(* ReadPin and GetPinState: no effect on the pins.                         *)
DrvReadable(p) == initialized /\ Configured(p)

(* A wrong WritePin that looks the pin up but not at its direction.        *)
DrvWritable_AnyStored(p) == initialized /\ Configured(p)

(* WritePin: only a stored output pin is driven.                           *)
DrvWritable(p) == initialized /\ dir[p] = "output"

DrvWrite(p, v) ==
  /\ DrvWritable(p)
  /\ mode' = [mode EXCEPT ![p] = "output"]
  /\ level' = [level EXCEPT ![p] = v]
  /\ UNCHANGED <<initialized, dir, pwm, pwmDriven>>

(* SetPWM: starts a goroutine when the PWM entry is not active.            *)
DrvPWMReady(p) == initialized /\ pwm[p] # "none"

DrvSetPWM(p) ==
  /\ DrvPWMReady(p)
  /\ pwm' = [pwm EXCEPT ![p] = "active"]
  /\ pwmDriven' = IF pwm[p] = "idle" THEN pwmDriven \cup {p} ELSE pwmDriven
  /\ UNCHANGED <<initialized, dir, mode, level>>

(* EnableInterrupt is refused unless the pin is stored as input;           *)
(* DisableInterrupt switches any stored pin to input, whatever its stored  *)
(* direction.                                                              *)
DrvInterruptible(p) == initialized /\ dir[p] = "input"

DrvSwitchToInput(p) ==
  /\ mode' = [mode EXCEPT ![p] = "input"]
  /\ \E outside \in BOOLEAN : level' = [level EXCEPT ![p] = outside]
  /\ UNCHANGED <<initialized, dir, pwm, pwmDriven>>

DrvEnableInterrupt(p) == DrvInterruptible(p) /\ DrvSwitchToInput(p)

DrvDisableInterrupt(p) == Configured(p) /\ DrvSwitchToInput(p)

-----------------------------------------------------------------------------
(* One phase of a software-PWM cycle: Out(High) or Out(Low).               *)
DrvToggle(p) ==
  /\ p \in pwmDriven
  /\ mode' = [mode EXCEPT ![p] = "output"]
  /\ \E v \in BOOLEAN : level' = [level EXCEPT ![p] = v]
  /\ UNCHANGED <<initialized, dir, pwm, pwmDriven>>

(* A PWM goroutine that finds its entry replaced or gone returns.          *)
DrvPWMReturns(p) ==
  /\ p \in pwmDriven
  /\ pwmDriven' = pwmDriven \ {p}
  /\ UNCHANGED <<initialized, dir, pwm, mode, level>>

(* The world outside changes the level of a pin nobody drives.             *)
InputEdge(p) ==
  /\ mode[p] = "input"
  /\ level' = [level EXCEPT ![p] = ~@]
  /\ UNCHANGED <<initialized, dir, pwm, mode, pwmDriven>>

DrvBackground ==
  \E p \in Pins : DrvToggle(p) \/ DrvPWMReturns(p) \/ InputEdge(p)

DrvCall ==
  \/ DrvInitialize
  \/ DrvClose
  \/ \E p \in Pins, d \in Directions, withPWM, ok \in BOOLEAN :
       DrvConfigure(p, d, withPWM, ok)
  \/ \E p \in Pins, v \in BOOLEAN : DrvWrite(p, v)
  \/ \E p \in Pins :
       DrvSetPWM(p) \/ DrvEnableInterrupt(p) \/ DrvDisableInterrupt(p)

DrvNext == DrvCall \/ DrvBackground

DrvSpec == DrvInit /\ [][DrvNext]_drvVars

=============================================================================
