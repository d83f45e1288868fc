---------------------------- MODULE MCPeriphGPIO ----------------------------
(***************************************************************************)
(* Instances of PeriphGPIO for TLC.                                        *)
(***************************************************************************)
EXTENDS PeriphGPIO, TLC

ThreadSymmetry == Permutations(Threads)

-----------------------------------------------------------------------------
(* What a comment or a message of the code says and the code does not do:  *)
(* TLC refutes each of these under the configuration that README.md names  *)
(* ("Departures").  They are kept to be checked when the code is mended.   *)

(* "Start PWM if not already active": never two goroutines on one entry.   *)
OneRoutinePerEntry ==
  \A g, h \in Routines :
    /\ g # h
    /\ routine[g].stage = "running" /\ routine[h].stage = "running"
    => routine[g].obj # routine[h].obj

(* "Reset all configured pins to safe states", "Stop PWM on all pins":     *)
(* once closed, no pin the program drives is high.                         *)
ClosedPinsStayLow == ~initialized => \A p \in Pins : mode[p] = "output" => ~level[p]

(* "event loop already running" is answered only while it is.              *)
RunningLoopIsLive == loopCtx # "cancelled"

(* "GetPinState returns the current state of a GPIO pin": it returns.      *)
ReadersReturn == \A t \in Threads : pc[t] = "reading" ~> pc[t] = "idle"

=============================================================================
