----------------------------- MODULE MCMockGPIO -----------------------------
(***************************************************************************)
(* Instances of MockGPIO for TLC.                                          *)
(***************************************************************************)
EXTENDS MockGPIO

-----------------------------------------------------------------------------
(* What the code says and does not do: see README.md, "Departures".        *)

(* "StopEventLoop stops the event processing loop": when it has returned   *)
(* the loop is stopped, so that StartEventLoop is not refused.             *)
StoppedIsNotRunning == running => cancel \notin done

(* "DisableInterrupt disables interrupt-based event detection on a pin":   *)
(* no call of a handler that is not installed is still to be made.         *)
DisabledIsSilent ==
  /\ \A c \in Calls : calls[c] > 0 => handler[c.pin] = c.handler
  /\ \A l \in Loops : \A s \in snapshot[l] : handler[s[1]] = s[2]

(* The mutex guards a pin: its time stamp is one that was written.         *)
StampIsWhole ==
  \A p \in Numbers : (\A r \in Readers : reader[r] = Idle \/ reader[r].pin # p) => stamp[p][1] = stamp[p][2]

=============================================================================
