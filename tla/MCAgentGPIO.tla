---------------------------- MODULE MCAgentGPIO ----------------------------
(***************************************************************************)
(* The agent's GPIO service with the configuration of NewGPIOService, in   *)
(* two scenes: its handlers and their clients with the history of values,  *)
(* and the gate below them, called directly, with the history of           *)
(* contested pins (all of them, where they are not looked at).             *)
(***************************************************************************)
EXTENDS AgentGPIO, MCGPIOController

\* The two levels, and what a client may send by mistake.
MCValues == {-1, 0, 1}

CONSTANTS tested, other
ASSUME MCAssumption == Callers = {tested, other}

VARIABLE scene
mcVars == <<agentVars, contested, scene>>

MCAgentInit ==
  /\ AgentInit
  /\ scene \in {"service", "gate"}
  /\ contested = IF scene = "service" THEN Pins ELSE {}

Waiting == {"idle", "refused"}

\* The first goroutine serves the test client, and nothing happens outside:
\* a pin keeps its level but when it is configured, written or closed.
Within ==
  /\ served' # other
  /\ {pc[tested], pc'[tested]} \subseteq Waiting \/ pc[tested] \notin Waiting \/ served' = tested
  /\ ~\E p \in Pins : InputEdge(p)

MCAgentNext ==
  /\ \/ scene = "service" /\ AgentNext /\ Within /\ UNCHANGED contested
     \/ scene = "gate" /\ MCNext /\ UNCHANGED <<testVars, written, sure>>
  /\ UNCHANGED scene

MCAgentSpec == MCAgentInit /\ [][MCAgentNext]_mcVars /\ WF_vars(ReleaseSlot)

-----------------------------------------------------------------------------
(* "Test PWM (if supported)" (gpio-test-client): a PWM call with values in *)
(* range, for a pin that supports it, is let in.  The default settings     *)
(* allow no such operation: TLC refutes it (README.md, "Departures").      *)
PWMIsSupported == TestPin \in ValidPWMPins => testPWM \in Acceptable

=============================================================================
