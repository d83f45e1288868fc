----------------------------- MODULE AgentGPIO -----------------------------
(***************************************************************************)
(* The GPIO service of the agent's gRPC server                             *)
(* (internal/agent/gpio_service.go) over GPIOController, and the program   *)
(* cmd/gpio-test-client that calls it, next to other clients.              *)
(*                                                                         *)
(* A handler converts the message of a call, makes one call of the         *)
(* controller, and answers with what it returned.  gRPC serves each call   *)
(* in a goroutine of its own (a member of Callers), and the handlers do    *)
(* not look at their contexts: a call whose client has given up goes on.   *)
(***************************************************************************)
EXTENDS GPIOController, Sequences

CONSTANTS
  Values,       \* values of write requests
  Frequencies,  \* PWM frequencies of requests
  TestPin,      \* the flag -pin of the test client
  Nobody

ASSUME AgentGPIOAssumption ==
  /\ {0, 1} \subseteq Values /\ Values \subseteq Int
  /\ {0, 1000} \subseteq Frequencies /\ Frequencies \subseteq Nat
  /\ TestPin \in Pins /\ Nobody \notin Callers

VARIABLES
  script,   \* the calls that the test client has still to make
  served,   \* the goroutine that serves the call it waits for, or Nobody
  written,  \* history: the value that a read of the pin must return
  sure      \* history: the value that the call writes, or must read

testVars == <<script, served>>
agentVars == <<vars, testVars, written, sure>>

Methods == {"ConfigureGPIOPin", "ReadGPIOPin", "WriteGPIOPin", "SetGPIOPWM"}

\* The messages, with what a method does not carry left at its zero.
Message ==
  {m \in [method : Methods \cup {"Look"}, pin : Pins, direction : Directions \cup {"unspecified"},
          value : Values, frequency : Frequencies] :
     /\ m.method # "ConfigureGPIOPin" => m.direction = "unspecified"
     /\ m.method # "WriteGPIOPin" => m.value = 0
     /\ m.method \notin {"ConfigureGPIOPin", "SetGPIOPWM"} => m.frequency = 0}

Sendable == {m \in Message : m.method \in Methods}

Unknown == -1

AgentTypeOK ==
  /\ TypeOK
  /\ script \in Seq(Message) /\ served \in Callers \cup {Nobody}
  /\ written \in [Pins -> {Unknown, 0, 1}] /\ sure \in [Callers -> {Unknown, 0, 1}]

AgentInit ==
  /\ Init
  /\ script = <<>> /\ served = Nobody
  /\ written = [p \in Pins |-> Unknown] /\ sure = [c \in Callers |-> Unknown]

-----------------------------------------------------------------------------
(* The handlers.                                                           *)

\* Every direction but output, the one that is not given too, is input.
ConvertDirection(direction) == IF direction = "output" THEN "output" ELSE "input"

\* Mutant: high is more than one.
High_AboveOne(value) == value > 1

High(value) == value > 0

\* The controller's call that each handler makes of its message.
ToController(kind, m) ==
  [kind |-> kind, pin |-> m.pin, d |-> "input", v |-> FALSE, pwm |-> FALSE]

ConfigureGPIOPin(m) ==
  [ToController("configure", m) EXCEPT !.d = ConvertDirection(m.direction), !.pwm = m.frequency > 0]

ReadGPIOPin(m) == ToController("read", m)
WriteGPIOPin(m) == [ToController("write", m) EXCEPT !.v = High(m.value)]
SetGPIOPWM(m) == ToController("pwm", m)

Converted(m) ==
  CASE m.method = "ConfigureGPIOPin" -> ConfigureGPIOPin(m)
    [] m.method = "ReadGPIOPin" -> ReadGPIOPin(m)
    [] m.method = "WriteGPIOPin" -> WriteGPIOPin(m)
    [] m.method = "SetGPIOPWM" -> SetGPIOPWM(m)

\* The controller's limits to frequencies.
InRange(m) ==
  /\ m.frequency <= 40000
  /\ m.method = "SetGPIOPWM" => m.frequency > 0

\* What the controller lets past its checks.
Acceptable == {m \in Sendable : Permitted(Converted(m)) /\ InRange(m)}

\* History.  A call that changes a pin leaves every value of it unknown until
\* a write of 0 or 1 that it did not overlap is answered.
Changes(r) == r.kind \in {"configure", "write"}
AtWork(c, p) == c \in InFlight /\ Changes(call[c]) /\ call[c].pin = p

Begun(c, m) ==
  LET r == Converted(m)
      alone == \A d \in Callers : ~AtWork(d, m.pin)
  IN  /\ written' = IF Changes(r) THEN [written EXCEPT ![m.pin] = Unknown] ELSE written
      /\ sure' = [d \in Callers |->
           IF d = c THEN IF r.kind = "read" THEN written[m.pin]
                         ELSE IF r.kind = "write" /\ alone /\ m.value \in {0, 1} THEN m.value
                         ELSE Unknown
           ELSE IF Changes(r) /\ call[d].pin = m.pin THEN Unknown
           ELSE sure[d]]

Ended(c) ==
  /\ written' = IF pc[c] = "record" /\ call[c].kind = "write"
                THEN [written EXCEPT ![call[c].pin] = sure[c]] ELSE written
  /\ sure' = [sure EXCEPT ![c] = Unknown]

\* A handler goes on; its client is answered when it returns.
Serve(c) ==
  /\ Step(c)
  /\ IF pc'[c] = "idle" THEN Ended(c) ELSE UNCHANGED <<written, sure>>
  /\ IF pc'[c] = "idle" /\ served = c
     THEN served' = Nobody /\ script' = Tail(script)
     ELSE UNCHANGED testVars

-----------------------------------------------------------------------------
(* The clients.                                                            *)

\* A call of some client.
OtherCalls(c) ==
  /\ \/ Admit(c) /\ \E m \in Acceptable : call'[c] = Converted(m) /\ Begun(c, m)
     \/ RefuseOverLimit(c) /\ UNCHANGED <<written, sure>>
     \/ Sendable # Acceptable /\ Deny(c) /\ UNCHANGED <<written, sure>>
  /\ UNCHANGED testVars

Plain(method) ==
  [method |-> method, pin |-> TestPin, direction |-> "unspecified", value |-> 0, frequency |-> 0]

testHealth == Plain("Look")
testListPins == Plain("Look")
testConfigurePin == [Plain("ConfigureGPIOPin") EXCEPT !.direction = "output"]
testReadPin == Plain("ReadGPIOPin")
testWritePin(value) == [Plain("WriteGPIOPin") EXCEPT !.value = value]
testPWM == [Plain("SetGPIOPWM") EXCEPT !.frequency = 1000]

\* The other commands make one of these calls, as any client may.
Demo ==
  <<testHealth, testConfigurePin, testWritePin(1), testReadPin, testWritePin(0), testReadPin, testListPins>>
    \o IF TestPin \in ValidPWMPins THEN <<testPWM, testPWM>> ELSE <<>>

RunDemo ==
  /\ script = <<>> /\ script' = Demo
  /\ UNCHANGED <<vars, served, written, sure>>

\* AgentHealth, GetSystemInfo and ListConfiguredPins only look.
Look ==
  /\ script # <<>> /\ Head(script).method = "Look"
  /\ script' = Tail(script)
  /\ UNCHANGED <<vars, served, written, sure>>

\* Errors are printed: the next call follows.
TestCalls(c) ==
  /\ script # <<>> /\ served = Nobody /\ Head(script).method \in Methods
  /\ LET m == Head(script)
     IN  \/ /\ m \in Acceptable /\ Admit(c) /\ call'[c] = Converted(m) /\ Begun(c, m)
            /\ served' = c /\ UNCHANGED script
         \/ /\ RefuseOverLimit(c) \/ (m \notin Acceptable /\ Deny(c))
            /\ script' = Tail(script) /\ UNCHANGED <<served, written, sure>>

\* The context of the client's calls lasts ten seconds.
GiveUp ==
  /\ script # <<>>
  /\ script' = <<>> /\ served' = Nobody
  /\ UNCHANGED <<vars, written, sure>>

-----------------------------------------------------------------------------
AgentNext ==
  \/ \E c \in Callers : Serve(c) \/ OtherCalls(c) \/ TestCalls(c)
  \/ RunDemo \/ Look \/ GiveUp
  \/ (ReleaseSlot \/ Initialize \/ Close \/ Background) /\ UNCHANGED <<testVars, written, sure>>

AgentSpec == AgentInit /\ [][AgentNext]_agentVars

(* A client that reads what it, or another client, has written: a read     *)
(* that began after a write of 0 or 1 was answered returns that value,     *)
(* unless another call that changes the pin was at work since that write   *)
(* began.  Close, Initialize and calls for other pins do not matter.       *)
ReadsReturnWrites ==
  \A c \in Callers :
    pc[c] = "record" /\ call[c].kind = "read" /\ sure[c] # Unknown => call[c].v = (sure[c] = 1)

=============================================================================
