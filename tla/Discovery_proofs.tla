-------------------------- MODULE Discovery_proofs --------------------------
(***************************************************************************)
(* The events of pkg/discovery/mdns.go add up, for all sets of nodes, any  *)
(* method, and any number of starts.                                       *)
(***************************************************************************)
EXTENDS Discovery, TLAPS

(* The part of TypeOK the account needs.                                   *)
Counts ==
  /\ nodes \in [Ids -> Int]
  /\ flying \in [Found \X Events -> Nat]
  /\ told \in [Found -> Int]
  /\ unloaded \subseteq Statics

Account == Counts /\ EventsAccount

(* emitEvent only adds events.                                             *)
LEMMA EmitCounts ==
  ASSUME Counts, NEW events, Emit(events)
  PROVE  flying' \in [Found \X Events -> Nat]
  BY DEF Counts, Emit

LEMMA InitAccount == Init => Account
  BY DEF Init, Account, Counts, EventsAccount, Ids, Events, Absent, Present

(* Steps that touch neither the presence of a found node nor an event.     *)
LEMMA QuietStep ==
  ASSUME Account, UNCHANGED eventVars, nodes' \in [Ids -> Int], unloaded' \subseteq Statics,
         \A i \in Found : Present(i)' <=> Present(i)
  PROVE  Account'
  BY DEF Account, Counts, EventsAccount, eventVars, Events

LEMMA FindAccount ==
  ASSUME Account, NEW l, Find(l)
  PROVE  Account'
<1>1. PICK new : /\ new = {i \in Found : ~Present(i)} \X {"discovered"}
                 /\ Emit(new) /\ told' = told /\ nodes' = Seen /\ unloaded' = unloaded
  BY DEF Find, startVars
<1>2. nodes' \in [Ids -> Int] /\ \A i \in Found : nodes'[i] = 0
  BY <1>1 DEF Account, Counts, Seen, Ids
<1>3. flying' \in [Found \X Events -> Nat]
  BY <1>1, EmitCounts DEF Account
<1>4. \A i \in Found : /\ flying'[<<i, "discovered">>]
                            = flying[<<i, "discovered">>] + (IF Present(i) THEN 0 ELSE 1)
                       /\ flying'[<<i, "lost">>] = flying[<<i, "lost">>]
  <2>1. \A i \in Found, t \in Events :
          flying'[<<i, t>>] = flying[<<i, t>>] + (IF <<i, t>> \in new THEN 1 ELSE 0)
    BY <1>1 DEF Account, Counts, Emit
  <2> TAKE i \in Found
  <2>2. (<<i, "discovered">> \in new <=> ~Present(i)) /\ (<<i, "lost">> \in new <=> FALSE)
    BY <1>1
  <2>3. flying[<<i, "discovered">>] \in Nat /\ flying[<<i, "lost">>] \in Nat
    BY DEF Account, Counts, Events
  <2> QED BY <2>1, <2>2, <2>3 DEF Events
<1>5. Counts'
  BY <1>1, <1>2, <1>3 DEF Account, Counts
<1>6. EventsAccount'
  <2> SUFFICES ASSUME NEW i \in Found
               PROVE  told[i] + flying'[<<i, "discovered">>] - flying'[<<i, "lost">>] = 1
    <3>1. ASSUME NEW i \in Found
          PROVE  nodes'[i] # Absent /\ told'[i] = told[i]
      BY <1>1, <1>2 DEF Absent
    <3> QED BY <3>1 DEF EventsAccount, Present
  <2>1. told[i] \in Int /\ flying[<<i, "discovered">>] \in Nat /\ flying[<<i, "lost">>] \in Nat
    BY DEF Account, Counts, Events
  <2>2. told[i] + flying[<<i, "discovered">>] - flying[<<i, "lost">>] = IF Present(i) THEN 1 ELSE 0
    BY DEF Account, EventsAccount
  <2> QED BY <1>4, <2>1, <2>2
<1> QED BY <1>5, <1>6 DEF Account

LEMMA CleanAccount ==
  ASSUME Account, NEW l, Clean(l)
  PROVE  Account'
<1>1. PICK stale \in SUBSET {i \in Found : nodes[i] >= StaleAfter} :
        /\ nodes' = [i \in Ids |-> IF i \in stale THEN Absent ELSE nodes[i]]
        /\ Emit(stale \X {"lost"})
  BY DEF Clean
<1>2. told' = told /\ unloaded' = unloaded
  BY DEF Clean, startVars
<1>3. nodes' \in [Ids -> Int]
  BY <1>1 DEF Account, Counts, Absent
<1>4. flying' \in [Found \X Events -> Nat]
  BY <1>1, EmitCounts DEF Account
<1>5. \A i \in Found : /\ flying'[<<i, "discovered">>] = flying[<<i, "discovered">>]
                       /\ flying'[<<i, "lost">>]
                            = flying[<<i, "lost">>] + (IF i \in stale THEN 1 ELSE 0)
  <2>1. \A i \in Found, t \in Events :
          flying'[<<i, t>>] = flying[<<i, t>>] + (IF <<i, t>> \in (stale \X {"lost"}) THEN 1 ELSE 0)
    BY <1>1 DEF Account, Counts, Emit
  <2> TAKE i \in Found
  <2>2. (<<i, "discovered">> \in (stale \X {"lost"}) <=> FALSE) /\ (<<i, "lost">> \in (stale \X {"lost"}) <=> i \in stale)
    BY <1>1
  <2>3. flying[<<i, "discovered">>] \in Nat /\ flying[<<i, "lost">>] \in Nat
    BY DEF Account, Counts, Events
  <2> QED BY <2>1, <2>2, <2>3 DEF Events
<1>6. Counts'
  BY <1>2, <1>3, <1>4 DEF Account, Counts
<1>7. EventsAccount'
  <2> SUFFICES ASSUME NEW i \in Found
               PROVE  told[i] + flying'[<<i, "discovered">>] - flying'[<<i, "lost">>]
                        = IF nodes'[i] # Absent THEN 1 ELSE 0
    BY <1>2 DEF EventsAccount, Present
  <2>1. told[i] \in Int /\ flying[<<i, "discovered">>] \in Nat /\ flying[<<i, "lost">>] \in Nat
    BY DEF Account, Counts, Events
  <2>2. told[i] + flying[<<i, "discovered">>] - flying[<<i, "lost">>] = IF Present(i) THEN 1 ELSE 0
    BY DEF Account, EventsAccount
  <2>3. i \in Ids /\ nodes[i] \in Int
    BY DEF Account, Counts, Ids
  <2>4. CASE i \in stale
    <3>1. Present(i) /\ nodes'[i] = Absent
      BY <1>1, <2>3, <2>4 DEF Present, Absent, StaleAfter
    <3> QED BY <1>5, <2>1, <2>2, <2>4, <3>1
  <2>5. CASE i \notin stale
    <3>1. nodes'[i] = nodes[i]
      BY <1>1, <2>3, <2>5
    <3> QED BY <1>5, <2>1, <2>2, <2>5, <3>1 DEF Present
  <2> QED BY <2>4, <2>5
<1> QED BY <1>6, <1>7 DEF Account

LEMMA DeliverAccount ==
  ASSUME Account, Deliver
  PROVE  Account'
<1>1. PICK j \in Found, type \in Events :
        /\ flying[<<j, type>>] > 0
        /\ flying' = [flying EXCEPT ![<<j, type>>] = @ - 1]
        /\ told' = [told EXCEPT ![j] = IF type = "discovered" THEN @ + 1 ELSE @ - 1]
  BY DEF Deliver
<1>2. nodes' = nodes /\ unloaded' = unloaded
  BY DEF Deliver, startVars
<1>3. Counts'
  BY <1>1, <1>2 DEF Account, Counts
<1>4. EventsAccount'
  <2> SUFFICES ASSUME NEW i \in Found
               PROVE  told'[i] + flying'[<<i, "discovered">>] - flying'[<<i, "lost">>]
                        = IF Present(i) THEN 1 ELSE 0
    BY <1>2 DEF EventsAccount, Present
  <2>1. told[i] \in Int /\ flying[<<i, "discovered">>] \in Nat /\ flying[<<i, "lost">>] \in Nat
    BY DEF Account, Counts, Events
  <2>2. told[i] + flying[<<i, "discovered">>] - flying[<<i, "lost">>] = IF Present(i) THEN 1 ELSE 0
    BY DEF Account, EventsAccount
  <2>3. CASE i # j
    BY <1>1, <2>2, <2>3 DEF Account, Counts, Events
  <2>4. CASE i = j /\ type = "discovered"
    BY <1>1, <2>1, <2>2, <2>4 DEF Account, Counts, Events
  <2>5. CASE i = j /\ type = "lost"
    BY <1>1, <2>1, <2>2, <2>5 DEF Account, Counts, Events
  <2> QED BY <2>3, <2>4, <2>5, <1>1 DEF Events
<1> QED BY <1>3, <1>4 DEF Account

LEMMA NextAccount == Account /\ [Next]_vars => Account'
<1> SUFFICES ASSUME Account, [Next]_vars PROVE Account'
  OBVIOUS
<1>1. nodes \in [Ids -> Int]
  BY DEF Account, Counts
<1>2. CASE UNCHANGED <<nodes, eventVars>> /\ unloaded' \subseteq Statics
  BY <1>1, <1>2, QuietStep DEF Present, eventVars
<1>3. CASE LoadStatic
  <2>1. PICK s \in unloaded : /\ nodes' = [nodes EXCEPT ![s] = 0]
                              /\ unloaded' = unloaded \ {s}
    BY <1>3 DEF LoadStatic
  <2>2. s \in Statics /\ s \notin Found /\ unloaded' \subseteq Statics
    BY <2>1, DiscoveryAssumption DEF Account, Counts
  <2>3. UNCHANGED eventVars
    BY <1>3 DEF LoadStatic
  <2>4. nodes' \in [Ids -> Int] /\ \A i \in Found : nodes'[i] = nodes[i]
    BY <1>1, <2>1, <2>2 DEF Ids
  <2> QED BY <2>2, <2>3, <2>4, QuietStep DEF Present
<1>4. CASE Interval
  <2>1. /\ UNCHANGED <<eventVars, unloaded>>
        /\ nodes' = [i \in Ids |-> IF i \in Found /\ nodes[i] \in 0..StaleAfter
                                   THEN nodes[i] + 1 ELSE nodes[i]]
    BY <1>4 DEF Interval, startVars
  <2>2. \A i \in Found : Present(i)' <=> Present(i)
    BY <1>1, <2>1 DEF Present, Absent, StaleAfter, Ids
  <2>3. nodes' \in [Ids -> Int]
    BY <1>1, <2>1 DEF StaleAfter
  <2> QED BY <2>1, <2>2, <2>3, QuietStep DEF Account, Counts
<1>5. CASE Deliver
  BY <1>5, DeliverAccount
<1>6. ASSUME NEW l \in Loops, LoopStep(l) PROVE Account'
  <2>1. CASE Find(l)
    BY <2>1, FindAccount
  <2>2. CASE Clean(l)
    BY <2>2, CleanAccount
  <2>3. CASE TakeTick(l) \/ TakeLock(l) \/ LoopEnds(l)
    BY <1>2, <2>3 DEF TakeTick, TakeLock, LoopEnds, eventVars, startVars, Account, Counts
  <2> QED BY <1>6, <2>1, <2>2, <2>3 DEF LoopStep
<1>7. CASE BeginStart \/ LaunchLoops \/ Stop \/ Cancel \/ BeginRead \/ EndRead
  BY <1>2, <1>7 DEF BeginStart, LaunchLoops, Stop, Cancel, BeginRead, EndRead, eventVars, startVars,
                     Account, Counts
<1>8. CASE UNCHANGED vars
  BY <1>2, <1>8 DEF vars, startVars, Account, Counts
<1> QED BY <1>2, <1>3, <1>4, <1>5, <1>6, <1>7, <1>8 DEF Next

(* However starts, stops, queries and cleanups interleave, the discovered  *)
(* and lost events of a node, told or under way, account for the table:    *)
(* no step drops or repeats one.                                           *)
THEOREM TableIsAccounted == Spec => []EventsAccount
<1>1. Account => EventsAccount
  BY DEF Account
<1> QED BY <1>1, InitAccount, NextAccount, PTL DEF Spec

-----------------------------------------------------------------------------
(* Where the goroutines are, and whose they are: those of a Start are      *)
(* launched when it has loaded the static nodes, and only a method that    *)
(* queries brings one of them to the mutex.                                *)
LoopsOfStarts ==
  /\ loop \in [Loops -> {"none", "select", "lock", "in"}]
  /\ starts \in Nat
  /\ \A l \in Loops : loop[l] # "none" =>
       l.start <= starts /\ (starter = "loading" => l.start < starts)

QueriesByMethod ==
  \A l \in Loops : l.kind = "find" =>
    /\ loop[l] # "none" => Method \in {"mdns", "scan"}
    /\ loop[l] \in {"lock", "in"} => Method = "mdns"

(* A query is due, or under way.                                           *)
Querying(l) == l \in due \/ loop[l] \in {"lock", "in"}

(* A found node was seen since the last interval, or is about to be.       *)
SeenInTime(i) ==
  /\ Method = "mdns"
  /\ \E l \in Loops :
       /\ l.kind = "find" /\ loop[l] # "none"
       /\ nodes[i] = 0 \/ (nodes[i] = 1 /\ Querying(l))

InTime == Timely /\ ~closed /\ cancelled = {}

KnownInv ==
  /\ LoopsOfStarts /\ QueriesByMethod
  /\ InTime => \A i \in Found : Present(i) => SeenInTime(i)

LEMMA LaunchesKeepLoops == LoopsOfStarts /\ [Next]_vars => LoopsOfStarts'
<1> SUFFICES ASSUME LoopsOfStarts, [Next]_vars PROVE LoopsOfStarts'
  OBVIOUS
<1> USE DEF LoopsOfStarts
<1>1. CASE BeginStart
  BY <1>1 DEF BeginStart, loopVars, Loops
<1>2. CASE LaunchLoops
  <2>1. starts' = starts /\ starter' = "idle"
    BY <1>2 DEF LaunchLoops
  <2>2. PICK launched \in SUBSET Loops : /\ \A l \in launched : l.start = starts
                                         /\ loop' = [l \in Loops |-> IF l \in launched THEN "select" ELSE loop[l]]
    BY <1>2 DEF LaunchLoops
  <2>3. \A l \in Loops : l.start \in Nat
    BY DEF Loops
  <2>4. QED
    BY <2>1, <2>2, <2>3
<1>3. ASSUME NEW l \in Loops, LoopStep(l) PROVE LoopsOfStarts'
  <2>1. starts' = starts /\ starter' = starter
    BY <1>3 DEF LoopStep, TakeTick, TakeLock, Find, Clean, LoopEnds, startVars
  <2>2. PICK at \in {"none", "select", "lock", "in"} : loop' = [loop EXCEPT ![l] = at]
    BY <1>3 DEF LoopStep, TakeTick, TakeLock, Find, Clean, LoopEnds, Goto
  <2>3. loop[l] # "none"
    BY <1>3 DEF LoopStep, TakeTick, TakeLock, Find, Clean, LoopEnds
  <2>4. QED
    BY <2>1, <2>2, <2>3
<1>4. CASE UNCHANGED <<loop, starts, starter>>
  BY <1>4
<1>5. CASE LoadStatic \/ Stop \/ Cancel \/ BeginRead \/ EndRead \/ Deliver \/ Interval \/ UNCHANGED vars
  BY <1>4, <1>5 DEF LoadStatic, Stop, Cancel, BeginRead, EndRead, Deliver, Interval, vars, startVars,
                    loopVars
<1>6. QED
  BY <1>1, <1>2, <1>3, <1>5 DEF Next

LEMMA MethodKeepsLoops ==
  ASSUME LoopsOfStarts, QueriesByMethod, [Next]_vars PROVE QueriesByMethod'
<1> USE DEF LoopsOfStarts, QueriesByMethod
<1>1. CASE LaunchLoops
  <2>1. PICK launched \in SUBSET Loops :
          /\ \A l \in launched : l.kind = "find" => Method \in {"mdns", "scan"}
          /\ loop' = [l \in Loops |-> IF l \in launched THEN "select" ELSE loop[l]]
    BY <1>1 DEF LaunchLoops
  <2>2. QED
    BY <2>1
<1>2. ASSUME NEW l \in Loops, LoopStep(l) PROVE QueriesByMethod'
  BY <1>2 DEF LoopStep, TakeTick, TakeLock, Find, Clean, LoopEnds, Goto
<1>3. CASE UNCHANGED loop
  BY <1>3
<1>4. QED
  BY <1>1, <1>2, <1>3 DEF Next, BeginStart, LoadStatic, Stop, Cancel, BeginRead, EndRead, Deliver,
                          Interval, vars, startVars, loopVars

(* While all goes in time, a node that is in the table stays as recently   *)
(* seen as that.                                                           *)
LEMMA SeenInTimeStays ==
  ASSUME Counts, LoopsOfStarts, QueriesByMethod, [Next]_vars, InTime, InTime',
         NEW i \in Found, Present(i) => SeenInTime(i)
  PROVE  Present(i) => Present(i)' /\ SeenInTime(i)'
<1> USE DEF LoopsOfStarts
<1> SUFFICES ASSUME Present(i) PROVE Present(i)' /\ SeenInTime(i)'
  OBVIOUS
<1>0. i \in Ids /\ nodes \in [Ids -> Int]
  BY DEF Ids, Counts
<1>1. Method = "mdns"
  BY DEF SeenInTime
<1>2. PICK w \in Loops : /\ w.kind = "find" /\ loop[w] # "none"
                         /\ nodes[i] = 0 \/ (nodes[i] = 1 /\ Querying(w))
  BY DEF SeenInTime
<1>3. ASSUME nodes'[i] = nodes[i], loop'[w] # "none", Querying(w) => Querying(w)'
      PROVE  Present(i)' /\ SeenInTime(i)'
  BY <1>1, <1>2, <1>3 DEF Present, SeenInTime
<1>4. ASSUME NEW l \in Loops, Find(l) PROVE Present(i)' /\ SeenInTime(i)'
  <2>1. nodes'[i] = 0
    BY <1>0, <1>4 DEF Find, Seen
  <2>2. l.kind = "find" /\ loop'[l] = "select"
    BY <1>4 DEF Find, Goto
  <2>3. QED
    BY <1>1, <2>1, <2>2 DEF Present, Absent, SeenInTime
<1>5. ASSUME NEW l \in Loops, Clean(l) PROVE Present(i)' /\ SeenInTime(i)'
  <2>1. PICK stale \in SUBSET {j \in Found : nodes[j] >= StaleAfter} :
          nodes' = [j \in Ids |-> IF j \in stale THEN Absent ELSE nodes[j]]
    BY <1>5 DEF Clean
  <2>2. nodes'[i] = nodes[i]
    BY <1>0, <1>2, <2>1 DEF StaleAfter
  <2>3. l # w /\ due' = due /\ loop'[w] = loop[w]
    BY <1>2, <1>5 DEF Clean, Goto
  <2>4. QED
    BY <1>2, <1>3, <2>2, <2>3 DEF Querying
<1>6. ASSUME NEW l \in Loops, TakeTick(l) \/ TakeLock(l) PROVE Present(i)' /\ SeenInTime(i)'
  <2>1. nodes' = nodes
    BY <1>6 DEF TakeTick, TakeLock
  <2>2. CASE l # w
    BY <1>2, <1>3, <1>6, <2>1, <2>2 DEF TakeTick, TakeLock, Goto, Querying
  <2>3. CASE l = w
    <3>1. loop'[w] \in {"lock", "in"}
      BY <1>1, <1>2, <1>6, <2>3 DEF TakeTick, TakeLock, Goto
    <3>2. QED
      BY <1>3, <2>1, <3>1 DEF Querying
  <2>4. QED
    BY <2>2, <2>3
<1>7. ASSUME NEW l \in Loops, LoopEnds(l) PROVE FALSE
  BY <1>7 DEF LoopEnds, InTime
<1>8. CASE LaunchLoops
  <2>1. nodes' = nodes /\ due' = due
    BY <1>8 DEF LaunchLoops
  <2>2. loop'[w] = loop[w]
    BY <1>2, <1>8 DEF LaunchLoops, Loops
  <2>3. QED
    BY <1>2, <1>3, <2>1, <2>2 DEF Querying
<1>9. CASE Interval
  <2>1. w \notin due /\ loop[w] = "select"
    BY <1>2, <1>9 DEF Interval, InTime
  <2>2. nodes[i] = 0
    BY <1>2, <2>1 DEF Querying
  <2>3. nodes'[i] = 1
    BY <1>0, <1>9, <2>2 DEF Interval, StaleAfter
  <2>4. w \in due' /\ loop' = loop
    BY <1>2, <1>9 DEF Interval
  <2>5. QED
    BY <1>1, <1>2, <2>3, <2>4 DEF Present, Absent, SeenInTime, Querying
<1>10. CASE LoadStatic
  <2>1. PICK s \in unloaded : nodes' = [nodes EXCEPT ![s] = 0]
    BY <1>10 DEF LoadStatic
  <2>2. s # i
    BY DiscoveryAssumption DEF Counts
  <2>3. nodes'[i] = nodes[i]
    BY <1>0, <2>1, <2>2
  <2>4. UNCHANGED <<loop, due>>
    BY <1>10 DEF LoadStatic, loopVars
  <2>5. QED
    BY <1>2, <1>3, <2>3, <2>4 DEF Querying
<1>11. CASE UNCHANGED <<nodes, loop, due>>
  BY <1>2, <1>3, <1>11 DEF Querying
<1>12. QED
  BY <1>4, <1>5, <1>6, <1>7, <1>8, <1>9, <1>10, <1>11
     DEF Next, LoopStep, BeginStart, Stop, Cancel, BeginRead, EndRead, Deliver, vars, startVars, loopVars

(* A node that is new to the table was just found.                         *)
LEMMA NewIsSeenInTime ==
  ASSUME Counts, LoopsOfStarts, QueriesByMethod, [Next]_vars, NEW i \in Found, ~Present(i), Present(i)'
  PROVE  SeenInTime(i)'
<1> USE DEF LoopsOfStarts
<1>0. i \in Ids /\ nodes \in [Ids -> Int] /\ nodes[i] = Absent /\ nodes'[i] # nodes[i]
  BY DEF Ids, Counts, Present
<1>1. ASSUME NEW l \in Loops, Find(l) PROVE SeenInTime(i)'
  <2>1. nodes'[i] = 0
    BY <1>0, <1>1 DEF Find, Seen
  <2>2. l.kind = "find" /\ loop'[l] = "select" /\ Method = "mdns"
    BY <1>1 DEF Find, Goto, QueriesByMethod
  <2>3. QED
    BY <2>1, <2>2 DEF SeenInTime
<1>2. ASSUME NEW l \in Loops, Clean(l) PROVE FALSE
  BY <1>0, <1>2 DEF Clean, Absent
<1>3. ASSUME Interval PROVE FALSE
  BY <1>0, <1>3 DEF Interval, Absent
<1>4. ASSUME LoadStatic PROVE FALSE
  BY <1>0, <1>4, DiscoveryAssumption DEF LoadStatic, Counts
<1>5. QED
  BY <1>0, <1>1, <1>2, <1>3, <1>4
     DEF Next, LoopStep, BeginStart, LaunchLoops, Stop, Cancel, BeginRead, EndRead, TakeTick, TakeLock,
         LoopEnds, Deliver, vars

(* Nothing makes a stopped or cancelled service run in time again.         *)
LEMMA InTimeBefore == ASSUME [Next]_vars, InTime' PROVE InTime
<1>1. closed' = closed \/ closed' = TRUE
  BY DEF Next, LoopStep, BeginStart, LoadStatic, LaunchLoops, Stop, Cancel, BeginRead, EndRead, TakeTick,
     TakeLock, Find, Clean, LoopEnds, Deliver, Interval, vars, startVars
<1>2. cancelled \subseteq cancelled'
  BY DEF Next, LoopStep, BeginStart, LoadStatic, LaunchLoops, Stop, Cancel, BeginRead, EndRead, TakeTick,
     TakeLock, Find, Clean, LoopEnds, Deliver, Interval, vars, startVars
<1>3. QED
  BY <1>1, <1>2 DEF InTime

LEMMA KnownInvStep == ASSUME Counts, KnownInv, [Next]_vars PROVE KnownInv'
<1>1. LoopsOfStarts' /\ QueriesByMethod'
  BY LaunchesKeepLoops, MethodKeepsLoops DEF KnownInv
<1>2. ASSUME InTime', NEW i \in Found, Present(i)' PROVE SeenInTime(i)'
  <2>1. InTime
    BY <1>2, InTimeBefore
  <2>2. CASE Present(i)
    BY <1>2, <2>1, <2>2, SeenInTimeStays DEF KnownInv
  <2>3. CASE ~Present(i)
    BY <1>2, <2>3, NewIsSeenInTime DEF KnownInv
  <2>4. QED
    BY <2>2, <2>3
<1>3. QED
  BY <1>1, <1>2 DEF KnownInv

(* No cleanup drops a node that answers every query, as long as nothing    *)
(* was stopped and every goroutine serves its tick within the interval:    *)
(* for any set of nodes, and with any number of Starts one after another.  *)
THEOREM AnsweringNodesStay == Spec => AnsweringStaysKnown
<1>1. Init => KnownInv
  BY DEF Init, KnownInv, LoopsOfStarts, QueriesByMethod, Present, Ids
<1>2. Account /\ KnownInv /\ [Next]_vars => KnownInv'
  BY KnownInvStep DEF Account
<1>3. Account /\ KnownInv /\ [Next]_vars =>
        [\A i \in Found : Timely /\ ~closed /\ cancelled = {} /\ Present(i) => nodes'[i] # Absent]_vars
  <2> SUFFICES ASSUME Account, KnownInv, [Next]_vars, InTime, NEW i \in Found, Present(i)
               PROVE  nodes'[i] # Absent \/ UNCHANGED vars
    BY DEF InTime
  <2>1. CASE InTime'
    BY <2>1, SeenInTimeStays DEF KnownInv, Account, Present
  <2>2. CASE ~InTime'
    <3>1. ~(UNCHANGED <<closed, cancelled>>)
      BY <2>2 DEF InTime
    <3>2. Stop \/ Cancel
      BY <3>1 DEF Next, LoopStep, BeginStart, LoadStatic, LaunchLoops, BeginRead, EndRead, TakeTick,
         TakeLock, Find, Clean, LoopEnds, Deliver, Interval, vars, startVars
    <3>3. nodes' = nodes
      BY <3>2 DEF Stop, Cancel
    <3>4. QED
      BY <3>3 DEF Present
  <2>3. QED
    BY <2>1, <2>2
<1>4. QED
  BY <1>1, <1>2, <1>3, InitAccount, NextAccount, PTL DEF Spec, AnsweringStaysKnown

=============================================================================
