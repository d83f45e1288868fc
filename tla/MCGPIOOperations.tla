-------------------------- MODULE MCGPIOOperations --------------------------
(***************************************************************************)
(* The GPIO gate with every operation let in, PWM and interrupts included, *)
(* on hardware that may fail.                                              *)
(***************************************************************************)
EXTENDS GPIOController, TLC

CONSTANT PulsedPin  \* the pin that requests for PWM name

GoroutineSymmetry == Permutations(Callers)

\* History: the pins that a software-PWM goroutine was ever started for.
VARIABLE pulsed

PulsedInit == Init /\ pulsed = {}
PulsedNext == Next /\ pulsed' = pulsed \cup pwmDriven'
PulsedSpec == PulsedInit /\ [][PulsedNext]_<<vars, pulsed>>

\* The requests of the instance: PWM on one pin, writes and interrupts on the
\* others, ConfigurePin on all (with a frequency on the first).  Those that
\* only look are in MCAgentGPIO.
Sent(r) ==
  \/ r.kind = "configure" /\ (r.pin = PulsedPin => r.pwm)
  \/ r.kind = "pwm" /\ r.pin = PulsedPin
  \/ r.kind \in {"write", "enable", "disable"} /\ r.pin # PulsedPin

MCPulsedNext ==
  /\ PulsedNext
  /\ \A c \in Callers : pc'[c] \in {"check", "driver"} => Sent(call'[c])

MCPulsedSpec == PulsedInit /\ [][MCPulsedNext]_<<vars, pulsed>>

(* A software-PWM goroutine outlives the SetPWM that started it, the       *)
(* ConfigurePin that replaced its entry and Close.  It disturbs no pin but *)
(* its own: a pin that never had one is not driven while it is stored as   *)
(* input, and is low once the driver is closed, whatever the operations on *)
(* other pins, interrupts, configurations that fail half-way and writes    *)
(* that were checked before a reconfiguration do in between.               *)
UnpulsedPinsSafe ==
  \A p \in Pins \ pulsed :
    /\ dir[p] = "input" => mode[p] = "input"
    /\ ~initialized /\ mode[p] = "output" /\ p \notin FaultyPins => ~level[p]

=============================================================================
