------------------------------ MODULE Discovery ------------------------------
(***************************************************************************)
(* pkg/discovery/mdns.go: the table of nodes, the goroutine that finds     *)
(* nodes every interval, the one that drops stale nodes every second       *)
(* interval, Start, Stop and the events handed to a handler.               *)
(*                                                                         *)
(* Goroutines wait in a select for their ticker, the context and stopChan; *)
(* of what is ready it picks any.  The table is used under the mutex,      *)
(* except by loadStaticNodes, so that its writes may meet another user of  *)
(* the map, which ends the program.  Every event is a goroutine, and the   *)
(* handler sees events in any order.                                       *)
(*                                                                         *)
(* Time goes in intervals.  The mDNS query of this code is a stub that     *)
(* answers with the same nodes each time.                                  *)
(***************************************************************************)
EXTENDS Integers, FiniteSets, FiniteSetsExt

CONSTANTS
  Found,      \* the nodes a query finds
  Statics,    \* Config.StaticNodes, those that parse
  Method,     \* Config.Method
  Timely,     \* whether a goroutine serves its tick before the next interval
  MaxStarts,  \* bound: calls of Start that are let in
  MaxFlying   \* bound: events not yet handled when an interval ends

ASSUME DiscoveryAssumption ==
  /\ Found \cap Statics = {}
  /\ Method \in {"mdns", "scan", "static", "other"}
  /\ Timely \in BOOLEAN
  /\ MaxStarts \in Nat /\ MaxFlying \in Nat

VARIABLES
  running, closed,  \* Service.running; whether stopChan is closed
  starts,           \* contexts passed to Start so far
  cancelled,        \* those of them that are done
  starter,          \* where Start is: "idle", "loading"
  unloaded,         \* the static nodes it has still to load
  nodes,            \* intervals since LastSeen, Absent when not in the table
  holder,           \* the goroutine that has the mutex
  reading,          \* GetNodes or GetNode is at work under the read lock
  loop,             \* where each goroutine is
  due,              \* those whose ticker has fired
  even,             \* the cleanups whose ticker fires at the end of this interval
  flying,           \* events whose goroutine has not called the handler
  told,             \* history: discovered minus lost events the handler had
  panic

startVars == <<running, closed, starts, cancelled, starter, unloaded>>
loopVars == <<loop, due, even>>
eventVars == <<flying, told>>
vars == <<startVars, nodes, holder, reading, loopVars, eventVars, panic>>

Ids == Found \cup Statics
Loops == [kind : {"find", "clean"}, start : 1..MaxStarts]

\* Updated events, and those of static nodes, change nobody's count and are
\* left out.
Events == {"discovered", "lost"}
Absent == -1
Nobody == [kind |-> "nobody", start |-> 0]

\* Considered stale after 3 intervals.
StaleAfter == 3

TypeOK ==
  /\ running \in BOOLEAN /\ closed \in BOOLEAN /\ reading \in BOOLEAN
  /\ starts \in 0..MaxStarts
  /\ cancelled \subseteq 1..MaxStarts
  /\ starter \in {"idle", "loading"}
  /\ unloaded \subseteq Statics
  /\ nodes \in [Ids -> {Absent} \cup 0..(StaleAfter + 1)]
  /\ holder \in Loops \cup {Nobody}
  /\ loop \in [Loops -> {"none", "select", "lock", "in"}]
  /\ due \subseteq Loops /\ even \subseteq Loops
  /\ flying \in [Found \X Events -> Nat]
  /\ told \in [Found -> Int]
  /\ panic \in {"no", "channel", "map"}

Init ==
  /\ running = FALSE /\ closed = FALSE
  /\ starts = 0 /\ cancelled = {}
  /\ starter = "idle" /\ unloaded = {}
  /\ nodes = [i \in Ids |-> Absent]
  /\ holder = Nobody /\ reading = FALSE
  /\ loop = [l \in Loops |-> "none"]
  /\ due = {} /\ even = {}
  /\ flying = [e \in Found \X Events |-> 0]
  /\ told = [i \in Found |-> 0]
  /\ panic = "no"

Present(i) == nodes[i] # Absent
LockFree == holder = Nobody /\ ~reading

\* emitEvent, once for every event of a set: a goroutine each.
Emit(events) ==
  flying' = [e \in Found \X Events |-> IF e \in events THEN flying[e] + 1 ELSE flying[e]]

-----------------------------------------------------------------------------
(* Start, Stop, and the end of the caller's context.                       *)

BeginStart ==
  /\ starter = "idle" /\ starts < MaxStarts
  /\ LockFree /\ ~running
  /\ running' = TRUE
  /\ starts' = starts + 1
  /\ starter' = "loading"
  /\ unloaded' = Statics
  /\ UNCHANGED <<closed, cancelled, nodes, holder, reading, loopVars, eventVars, panic>>

\* loadStaticNodes, one node: the map is written with no lock held.
LoadStatic ==
  /\ starter = "loading"
  /\ \E i \in unloaded :
       /\ unloaded' = unloaded \ {i}
       /\ nodes' = [nodes EXCEPT ![i] = 0]
  /\ panic' \in IF LockFree THEN {panic} ELSE {panic, "map"}
  /\ UNCHANGED <<running, closed, starts, cancelled, starter, holder, reading, loopVars, eventVars>>

\* The goroutines the method asks for; an unsupported method is an error.
LaunchLoops ==
  /\ starter = "loading" /\ unloaded = {}
  /\ starter' = "idle"
  /\ LET launched == {l \in Loops : /\ l.start = starts /\ Method # "other"
                                    /\ l.kind = "find" => Method \in {"mdns", "scan"}}
     IN  loop' = [l \in Loops |-> IF l \in launched THEN "select" ELSE loop[l]]
  /\ UNCHANGED <<running, closed, starts, cancelled, unloaded, nodes, holder, reading, due, even,
                 eventVars, panic>>

\* Mutant: the flag is cleared and the channel left open.
Stop_KeepsChannel ==
  /\ LockFree /\ running
  /\ running' = FALSE
  /\ UNCHANGED <<closed, starts, cancelled, starter, unloaded, nodes, holder, reading, loopVars,
                 eventVars, panic>>

\* stopChan is never made anew: to close it again ends the program.
Stop ==
  /\ LockFree /\ running
  /\ running' = FALSE
  /\ closed' = TRUE
  /\ panic' = IF closed THEN "channel" ELSE panic
  /\ UNCHANGED <<starts, cancelled, starter, unloaded, nodes, holder, reading, loopVars, eventVars>>

Cancel ==
  /\ \E s \in 1..starts : cancelled' = cancelled \cup {s}
  /\ UNCHANGED <<running, closed, starts, starter, unloaded, nodes, holder, reading, loopVars,
                 eventVars, panic>>

-----------------------------------------------------------------------------
(* GetNodes and GetNode.  No reader passes a goroutine waiting to write.   *)

BeginRead ==
  /\ holder = Nobody /\ ~reading
  /\ \A l \in Loops : loop[l] # "lock"
  /\ reading' = TRUE
  /\ UNCHANGED <<startVars, nodes, holder, loopVars, eventVars, panic>>

EndRead ==
  /\ reading
  /\ reading' = FALSE
  /\ UNCHANGED <<startVars, nodes, holder, loopVars, eventVars, panic>>

-----------------------------------------------------------------------------
(* runMDNSDiscovery, runNetworkScan and runCleanupRoutine.                 *)

Goto(l, at) == loop' = [loop EXCEPT ![l] = at]

\* A scan looks at the interfaces and finds nothing.
TakeTick(l) ==
  /\ loop[l] = "select" /\ l \in due
  /\ due' = due \ {l}
  /\ Goto(l, IF l.kind = "find" /\ Method = "scan" THEN "select" ELSE "lock")
  /\ UNCHANGED <<startVars, nodes, holder, reading, even, eventVars, panic>>

TakeLock(l) ==
  /\ loop[l] = "lock" /\ LockFree
  /\ holder' = l
  /\ Goto(l, "in")
  /\ UNCHANGED <<startVars, nodes, reading, due, even, eventVars, panic>>

\* Mutant: a node that is known keeps its LastSeen.
Seen_Once == [i \in Ids |-> IF i \in Found /\ ~Present(i) THEN 0 ELSE nodes[i]]

Seen == [i \in Ids |-> IF i \in Found THEN 0 ELSE nodes[i]]

\* performMDNSDiscovery.
Find(l) ==
  /\ l.kind = "find" /\ loop[l] = "in"
  /\ nodes' = Seen
  /\ Emit({i \in Found : ~Present(i)} \X {"discovered"})
  /\ holder' = Nobody
  /\ Goto(l, "select")
  /\ UNCHANGED <<startVars, reading, due, even, told, panic>>

\* Mutant: what is stale is dropped, and nobody is told.
Clean_Silent(l) ==
  /\ l.kind = "clean" /\ loop[l] = "in"
  /\ nodes' = [i \in Ids |-> IF nodes[i] >= StaleAfter THEN Absent ELSE nodes[i]]
  /\ holder' = Nobody
  /\ Goto(l, "select")
  /\ UNCHANGED <<startVars, reading, due, even, eventVars, panic>>

\* cleanupStaleNodes.  What was seen three intervals ago may be just stale.
Clean(l) ==
  /\ l.kind = "clean" /\ loop[l] = "in"
  /\ \E stale \in SUBSET {i \in Found : nodes[i] >= StaleAfter} :
       /\ \A i \in Found : nodes[i] > StaleAfter => i \in stale
       /\ nodes' = [i \in Ids |-> IF i \in stale THEN Absent ELSE nodes[i]]
       /\ Emit(stale \X {"lost"})
  /\ holder' = Nobody
  /\ Goto(l, "select")
  /\ UNCHANGED <<startVars, reading, due, even, told, panic>>

LoopEnds(l) ==
  /\ loop[l] = "select" /\ (closed \/ l.start \in cancelled)
  /\ Goto(l, "none")
  /\ due' = due \ {l} /\ even' = even \ {l}
  /\ UNCHANGED <<startVars, nodes, holder, reading, eventVars, panic>>

-----------------------------------------------------------------------------
(* An event's goroutine calls the handler.                                 *)
Deliver ==
  /\ \E i \in Found, type \in Events :
       /\ flying[<<i, type>>] > 0
       /\ flying' = [flying EXCEPT ![<<i, type>>] = @ - 1]
       /\ told' = [told EXCEPT ![i] = IF type = "discovered" THEN @ + 1 ELSE @ - 1]
  /\ UNCHANGED <<startVars, nodes, holder, reading, loopVars, panic>>

\* An interval passes.  Nobody looks at the LastSeen of a static node, and a
\* ticker whose channel is full drops its tick.
Interval ==
  /\ MapThenSumSet(LAMBDA e : flying[e], Found \X Events) <= MaxFlying
  /\ Timely => \A l \in Loops : l \notin due /\ loop[l] \in {"none", "select"}
  /\ nodes' = [i \in Ids |-> IF i \in Found /\ nodes[i] \in 0..StaleAfter THEN nodes[i] + 1 ELSE nodes[i]]
  /\ LET alive == {l \in Loops : loop[l] # "none"}
     IN  /\ even' = {l \in alive : l.kind = "clean" /\ l \notin even}
         /\ due' = due \cup {l \in alive : l.kind = "find" \/ l \in even}
  /\ UNCHANGED <<startVars, holder, reading, loop, eventVars, panic>>

LoopStep(l) == TakeTick(l) \/ TakeLock(l) \/ Find(l) \/ Clean(l) \/ LoopEnds(l)

Next ==
  /\ panic = "no"
  /\ \/ BeginStart \/ LoadStatic \/ LaunchLoops \/ Stop \/ Cancel
     \/ BeginRead \/ EndRead
     \/ \E l \in Loops : LoopStep(l)
     \/ Deliver \/ Interval

Spec == Init /\ [][Next]_vars

\* Goroutines that can go on do, and a select in which the closed channel is
\* ready again and again picks it some time.
FairSpec ==
  /\ Spec
  /\ WF_vars(panic = "no" /\ EndRead)
  /\ \A l \in Loops :
       /\ WF_vars(panic = "no" /\ (TakeLock(l) \/ Find(l) \/ Clean(l)))
       /\ SF_vars(panic = "no" /\ LoopEnds(l))

-----------------------------------------------------------------------------
(* The handler can keep count: of a node that is found, the discovered     *)
(* events it had or will have outnumber the lost ones by one while the     *)
(* node is in the table, and are as many when it is not, whatever starts,  *)
(* stops and cleanups interleave.                                          *)
EventsAccount ==
  \A i \in Found :
    told[i] + flying[<<i, "discovered">>] - flying[<<i, "lost">>] = IF Present(i) THEN 1 ELSE 0

(* While the service runs in time, a node that answers every query is not  *)
(* dropped, in whatever order the goroutines get the mutex.                *)
AnsweringStaysKnown ==
  [][\A i \in Found : Timely /\ ~closed /\ cancelled = {} /\ Present(i) => nodes'[i] # Absent]_vars

(* Stop ends the goroutines, also those at work or waiting for the mutex,  *)
(* those of a Start that Stop overtook, and those of a Start after it.     *)
StopEndsLoops == starts > 0 /\ ~running ~> (\A l \in Loops : loop[l] = "none") \/ panic # "no"

=============================================================================
