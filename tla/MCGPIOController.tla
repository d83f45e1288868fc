-------------------------- MODULE MCGPIOController --------------------------
(***************************************************************************)
(* Instances of GPIOController for TLC.                                    *)
(***************************************************************************)
EXTENDS GPIOController, TLC

\* DefaultConfig: the pins of a Raspberry Pi header, pins 0 and 1 restricted.
DefaultAllowed == 2..27
DefaultRestricted == {0, 1}

\* DefaultSecurityConfig.AllowedOperations.
DefaultOperations == {"read", "write", "configure"}

CallerSymmetry == Permutations(Callers)

\* History: the pins that two operations were at work on at once, or that a
\* configure left in a new state although it failed.  What activePins says of
\* these is not promised.
VARIABLE contested

Contested(p) == \E c, d \in InFlight : c # d /\ call[c].pin = p /\ call[d].pin = p

HalfConfigured(p) ==
  /\ dir'[p] # dir[p] \/ level'[p] # level[p]
  /\ \E c \in Callers : pc[c] = "driver" /\ pc'[c] = "idle" /\ call[c].kind = "configure" /\ call[c].pin = p

MCInit == Init /\ contested = {}

MCNext ==
  /\ Next
  /\ contested' = contested \cup {p \in Pins : Contested(p)' \/ HalfConfigured(p)}

ContestedSpec == MCInit /\ [][MCNext]_<<vars, contested>>

MCFairSpec == ContestedSpec /\ WF_vars(ReleaseSlot)

(* What ListConfiguredPins says of a pin that operations touched one at a  *)
(* time is what the driver says and what is on the line, whatever Close    *)
(* and Initialize did in between and whatever other pins are used for.     *)
RecordMatchesDriver ==
  InFlight = {} =>
    \A p \in DOMAIN ListConfiguredPins \ contested :
      LET listed == ListConfiguredPins[p]
      IN  Configured(p) =>
            /\ listed.direction = dir[p]
            /\ listed.direction = "output" => listed.value = level[p]

-----------------------------------------------------------------------------
(* What a comment or a message of the code says and the code does not do:  *)
(* TLC refutes each of these under the configuration that README.md names  *)
(* ("Departures").  They are kept to be checked when the code is mended.   *)

(* ListConfiguredPins lists activePins: every pin in it is configured.     *)
TrackedPinsConfigured == \A p \in DOMAIN ListConfiguredPins : Configured(p)

(* "Update active pin state": the value recorded for an output pin is the  *)
(* level on it, when nobody is between driver and record.  (Conditional in *)
(* RecordMatchesDriver.)                                                   *)
TrackedValueIsLevel ==
  \A p \in Pins :
    activeDir[p] = "output" /\ dir[p] = "output" /\ InFlight = {} => activeValue[p] = level[p]

(* And the direction recorded is the pin's.                                *)
TrackedDirectionIsConfigured ==
  \A p \in Pins :
    activeDir[p] # "untracked" /\ Configured(p) /\ InFlight = {} => activeDir[p] = dir[p]

(* "maximum concurrent operations reached" is said only while that many    *)
(* operations are being served.                                            *)
RefusedOnlyWhenBusy ==
  [][\A c \in Callers :
       pc[c] # "refused" /\ pc'[c] = "refused" => Cardinality(InFlight) >= MaxConcurrentOps]_vars

=============================================================================
