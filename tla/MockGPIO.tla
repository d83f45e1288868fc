------------------------------- MODULE MockGPIO -------------------------------
(***************************************************************************)
(* pkg/gpio/mock.go: the driver used where there is no hardware, with its  *)
(* pins, its interrupt handlers and its event loop.                        *)
(*                                                                         *)
(* Every call holds the mutex, so it is one step, but for ReadPin and      *)
(* ReadAnalog: they write the time stamp, two words, under the read lock,  *)
(* in several readers at once.  Handlers run in goroutines of their own.   *)
(* Stop and Close only ask the loop to end; the loop clears the flag       *)
(* itself, under the lock.                                                 *)
(*                                                                         *)
(* The SPI and I2C calls check their arguments and change nothing.         *)
(***************************************************************************)
EXTENDS Integers, FiniteSets

CONSTANTS
  Numbers,   \* the pin numbers callers use
  Handlers,  \* the handlers they install
  Readers,   \* goroutines that read pins
  MaxLoops,  \* bound: event loops started
  MaxEvents  \* bound: calls of handlers under way

ASSUME MockAssumption ==
  /\ Numbers \subseteq Int
  /\ MaxLoops \in Nat /\ MaxEvents \in Nat

VARIABLES
  pins,      \* the map of pins; Absent for a pin not configured
  handler,   \* eventHandlers
  type,      \* eventTypes
  stamp,     \* who wrote each word of a pin's time stamp last
  reader,    \* where each reader is
  running,   \* eventLoopRunning
  cancel,    \* the loop that eventLoopCancel ends, or 0
  done,      \* loops whose context has ended
  loops,     \* loops started so far
  at,        \* where each loop is
  snapshot,  \* what a loop has still to call: pins with their handlers
  calls      \* handlers called whose goroutine has not run

pinVars == <<pins, handler, type, stamp>>
loopVars == <<running, cancel, done, loops, at, snapshot>>
vars == <<pinVars, reader, loopVars, calls>>

None == "none"
Low == 0
High == 1
Directions == {"input", "output"}
EventTypes == {"rising", "falling", "both"}
Loops == 1..MaxLoops
Writer == "writer"
Calls == [pin : Numbers, handler : Handlers, value : {Low, High}]

Absent == [direction |-> None, value |-> Low, pwm |-> FALSE]
Idle == [pin |-> 0, word |-> 0]

TypeOK ==
  /\ pins \in [Numbers -> {Absent} \cup [direction : Directions, value : {Low, High}, pwm : BOOLEAN]]
  /\ handler \in [Numbers -> {None} \cup Handlers]
  /\ type \in [Numbers -> {None} \cup EventTypes]
  /\ stamp \in [Numbers -> [1..2 -> {Writer} \cup Readers]]
  /\ reader \in [Readers -> {Idle} \cup [pin : Numbers, word : 1..3]]
  /\ running \in BOOLEAN
  /\ cancel \in {0} \cup Loops
  /\ done \subseteq Loops /\ loops \in {0} \cup Loops
  /\ at \in [Loops -> {"none", "select", "emit", "lock"}]
  /\ snapshot \in [Loops -> SUBSET (Numbers \X Handlers)]
  /\ calls \in [Calls -> Nat]

Init ==
  /\ pins = [p \in Numbers |-> Absent]
  /\ handler = [p \in Numbers |-> None]
  /\ type = [p \in Numbers |-> None]
  /\ stamp = [p \in Numbers |-> [w \in 1..2 |-> Writer]]
  /\ reader = [r \in Readers |-> Idle]
  /\ running = FALSE /\ cancel = 0 /\ done = {} /\ loops = 0
  /\ at = [l \in Loops |-> "none"]
  /\ snapshot = [l \in Loops |-> {}]
  /\ calls = [c \in Calls |-> 0]

Configured(p) == pins[p] # Absent
IsOutput(p) == Configured(p) /\ pins[p].direction = "output"

\* The write lock.
Locked == \A r \in Readers : reader[r] = Idle

Stamped(p) == stamp' = [stamp EXCEPT ![p] = [w \in 1..2 |-> Writer]]

\* go handler(event).
Call(p, h, v) ==
  /\ calls[[pin |-> p, handler |-> h, value |-> v]] < MaxEvents
  /\ calls' = [calls EXCEPT ![[pin |-> p, handler |-> h, value |-> v]] = @ + 1]

-----------------------------------------------------------------------------
(* Initialize and Close.                                                   *)

Cleared ==
  /\ pins' = [p \in Numbers |-> Absent]
  /\ handler' = [p \in Numbers |-> None]
  /\ type' = [p \in Numbers |-> None]
  /\ UNCHANGED stamp

\* The loop goes on.
Initialize ==
  /\ Locked
  /\ Cleared
  /\ UNCHANGED <<reader, loopVars, calls>>

\* What Close and StopEventLoop do about the loop.
AskLoopToEnd ==
  /\ done' = IF running THEN done \cup ({cancel} \ {0}) ELSE done
  /\ UNCHANGED <<running, cancel, loops, at, snapshot>>

Close ==
  /\ Locked
  /\ AskLoopToEnd
  /\ Cleared
  /\ UNCHANGED <<reader, calls>>

-----------------------------------------------------------------------------
(* Pins.                                                                   *)

ConfigurePin ==
  /\ Locked
  /\ \E p \in Numbers \cap 0..40, d \in Directions, pwm \in BOOLEAN :
       /\ pins' = [pins EXCEPT ![p] = [direction |-> d, value |-> Low, pwm |-> pwm]]
       /\ Stamped(p)
  /\ UNCHANGED <<handler, type, reader, loopVars, calls>>

\* Whether a handler that waits for a type of edge is called.
Triggers(t, old, new) ==
  \/ t = "rising" /\ old = Low /\ new = High
  \/ t = "falling" /\ old = High /\ new = Low
  \/ t = "both"

WritePin ==
  /\ Locked
  /\ \E p \in Numbers, v \in {Low, High} :
       /\ IsOutput(p)
       /\ pins' = [pins EXCEPT ![p].value = v]
       /\ Stamped(p)
       /\ IF handler[p] # None /\ pins[p].value # v /\ Triggers(type[p], pins[p].value, v)
          THEN Call(p, handler[p], v)
          ELSE UNCHANGED calls
  /\ UNCHANGED <<handler, type, reader, loopVars>>

\* A frequency or a duty cycle out of range is refused.
SetPWM ==
  /\ Locked
  /\ \E p \in Numbers :
       /\ IsOutput(p)
       /\ pins' = [pins EXCEPT ![p].pwm = TRUE]
       /\ Stamped(p)
  /\ UNCHANGED <<handler, type, reader, loopVars, calls>>

\* ReadPin and ReadAnalog.  A goroutine that waits to write goes first.
BeginRead(r) ==
  /\ reader[r] = Idle
  /\ \A l \in Loops : at[l] # "lock"
  /\ \E p \in Numbers :
       /\ Configured(p) /\ pins[p].direction = "input"
       /\ reader' = [reader EXCEPT ![r] = [pin |-> p, word |-> 1]]
  /\ UNCHANGED <<pinVars, loopVars, calls>>

StampWord(r) ==
  /\ reader[r].word \in 1..2
  /\ stamp' = [stamp EXCEPT ![reader[r].pin][reader[r].word] = r]
  /\ reader' = [reader EXCEPT ![r].word = @ + 1]
  /\ UNCHANGED <<pins, handler, type, loopVars, calls>>

EndRead(r) ==
  /\ reader[r].word = 3
  /\ reader' = [reader EXCEPT ![r] = Idle]
  /\ UNCHANGED <<pinVars, loopVars, calls>>

-----------------------------------------------------------------------------
(* Interrupts.                                                             *)

EnableInterrupt ==
  /\ Locked
  /\ \E p \in Numbers, h \in Handlers, t \in EventTypes :
       /\ Configured(p)
       /\ handler' = [handler EXCEPT ![p] = h]
       /\ type' = [type EXCEPT ![p] = t]
  /\ UNCHANGED <<pins, stamp, reader, loopVars, calls>>

DisableInterrupt ==
  /\ Locked
  /\ \E p \in Numbers :
       /\ handler' = [handler EXCEPT ![p] = None]
       /\ type' = [type EXCEPT ![p] = None]
  /\ UNCHANGED <<pins, stamp, reader, loopVars, calls>>

Deliver ==
  /\ \E c \in Calls : calls[c] > 0 /\ calls' = [calls EXCEPT ![c] = @ - 1]
  /\ UNCHANGED <<pinVars, reader, loopVars>>

-----------------------------------------------------------------------------
(* The event loop.                                                         *)

StartEventLoop ==
  /\ Locked /\ ~running
  /\ loops < MaxLoops
  /\ running' = TRUE
  /\ loops' = loops + 1
  /\ cancel' = loops + 1
  /\ at' = [at EXCEPT ![loops + 1] = "select"]
  /\ UNCHANGED <<pinVars, reader, done, snapshot, calls>>

\* Mutant: the flag is cleared at once.
StopEventLoop_ClearsFlag ==
  /\ Locked /\ running
  /\ done' = done \cup {cancel}
  /\ running' = FALSE
  /\ UNCHANGED <<pinVars, reader, cancel, loops, at, snapshot, calls>>

StopEventLoop ==
  /\ Locked /\ running
  /\ AskLoopToEnd
  /\ UNCHANGED <<pinVars, reader, calls>>

\* The end of the context that StartEventLoop was called with.
CancelContext ==
  /\ \E l \in 1..loops : done' = done \cup {l}
  /\ UNCHANGED <<pinVars, reader, running, cancel, loops, at, snapshot, calls>>

\* generateMockEvents copies the maps, and calls from the copy.
TakeTick(l) ==
  /\ at[l] = "select"
  /\ at' = [at EXCEPT ![l] = "emit"]
  /\ snapshot' = [snapshot EXCEPT ![l] =
                    {<<p, handler[p]>> : p \in {q \in Numbers : handler[q] # None}}]
  /\ UNCHANGED <<pinVars, reader, running, cancel, done, loops, calls>>

\* Half of the pins have no event, the others one of any value.
Emit(l) ==
  /\ at[l] = "emit"
  /\ \E s \in snapshot[l] :
       /\ snapshot' = [snapshot EXCEPT ![l] = @ \ {s}]
       /\ \/ \E v \in {Low, High} : Call(s[1], s[2], v)
          \/ UNCHANGED calls
  /\ UNCHANGED <<pinVars, reader, running, cancel, done, loops, at>>

Emitted(l) ==
  /\ at[l] = "emit" /\ snapshot[l] = {}
  /\ at' = [at EXCEPT ![l] = "select"]
  /\ UNCHANGED <<pinVars, reader, running, cancel, done, loops, snapshot, calls>>

TakeDone(l) ==
  /\ at[l] = "select" /\ l \in done
  /\ at' = [at EXCEPT ![l] = "lock"]
  /\ UNCHANGED <<pinVars, reader, running, cancel, done, loops, snapshot, calls>>

\* Mutant: the loop leaves the flag behind.
LoopEnds_KeepsFlag(l) ==
  /\ at[l] = "lock" /\ Locked
  /\ cancel' = 0
  /\ at' = [at EXCEPT ![l] = "none"]
  /\ UNCHANGED <<pinVars, reader, running, done, loops, snapshot, calls>>

LoopEnds(l) ==
  /\ at[l] = "lock" /\ Locked
  /\ running' = FALSE
  /\ cancel' = 0
  /\ at' = [at EXCEPT ![l] = "none"]
  /\ UNCHANGED <<pinVars, reader, done, loops, snapshot, calls>>

-----------------------------------------------------------------------------
Read(r) == BeginRead(r) \/ StampWord(r) \/ EndRead(r)
LoopStep(l) == TakeTick(l) \/ Emit(l) \/ Emitted(l) \/ TakeDone(l) \/ LoopEnds(l)

Next ==
  \/ Initialize \/ Close
  \/ ConfigurePin \/ WritePin \/ SetPWM
  \/ \E r \in Readers : Read(r)
  \/ EnableInterrupt \/ DisableInterrupt \/ Deliver
  \/ StartEventLoop \/ StopEventLoop \/ CancelContext
  \/ \E l \in Loops : LoopStep(l)

Spec == Init /\ [][Next]_vars

\* Goroutines that can go on do; of a tick and the end of its context a loop
\* picks the end some time.
FairSpec ==
  /\ Spec
  /\ \A r \in Readers : WF_vars(StampWord(r) \/ EndRead(r))
  /\ \A l \in Loops : /\ WF_vars(Emit(l) \/ Emitted(l) \/ LoopEnds(l))
                      /\ SF_vars(TakeDone(l))

-----------------------------------------------------------------------------
(* The flag stands for one goroutine, and eventLoopCancel ends that one,   *)
(* also when a stop, a close and a start meet before the loop of an        *)
(* earlier start has noticed its end: no loop clears a later one's flag.   *)
FlagIsTheLoop ==
  LET alive == {l \in Loops : at[l] # "none"}
  IN  /\ Cardinality(alive) <= 1
      /\ running <=> alive # {}
      /\ \A l \in alive : cancel = l

(* A loop that was asked to end does, and a new one can be started.        *)
EndedLoopRests == running /\ cancel \in done ~> ~running

=============================================================================
