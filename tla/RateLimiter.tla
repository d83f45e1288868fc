----------------------------- MODULE RateLimiter -----------------------------
(***************************************************************************)
(* internal/api/middleware/ratelimit.go: one token bucket per client       *)
(* address, made when the client is first seen, thrown away by a cleanup   *)
(* that finds it full.                                                     *)
(*                                                                         *)
(* A request fetches its client's limiter under the mutex and asks it for  *)
(* a token after having released the mutex.  A cleanup in between leaves   *)
(* the request with a limiter that is in the table no more.                *)
(*                                                                         *)
(* A bucket is refilled by one token a second, here in steps of a token.   *)
(***************************************************************************)
EXTENDS Integers

CONSTANTS
  Clients,          \* client addresses
  Requests,         \* goroutines serving requests
  Limiters,         \* rate.Limiter objects; one in use is never taken again
  None,
  Burst,            \* RateLimitConfig.BurstSize
  CleanupInterval,  \* in the time of a token
  MaxSeconds        \* bound: how long the requests are counted

ASSUME LimiterAssumption ==
  /\ None \notin Limiters \cup Clients
  /\ Burst \in Nat
  /\ CleanupInterval \in Nat
  /\ MaxSeconds \in Nat

VARIABLES
  limiter,     \* RateLimiter.limiters
  tokens,      \* the tokens of each limiter
  held,        \* the limiter a request has fetched
  who,         \* that request's client, None when it has fetched nothing
  sinceClean,  \* the time since lastClean, up to CleanupInterval + 1
  admitted,    \* history: requests let through since the counting began
  overtaken,   \* history: those of them that a cleanup overtook
  seconds      \* history: the time since the counting began

history == <<admitted, overtaken, seconds>>
limiterVars == <<limiter, tokens, held, who, sinceClean, history>>

LimiterTypeOK ==
  /\ limiter \in [Clients -> Limiters \cup {None}]
  /\ tokens \in [Limiters -> 0..Burst]
  /\ held \in [Requests -> Limiters \cup {None}]
  /\ who \in [Requests -> Clients \cup {None}]
  /\ sinceClean \in 0..(CleanupInterval + 1)
  /\ admitted \in [Clients -> Nat]
  /\ overtaken \in [Clients -> Nat]
  /\ seconds \in 0..MaxSeconds

LimiterInit ==
  /\ limiter = [c \in Clients |-> None]
  /\ tokens = [l \in Limiters |-> Burst]
  /\ held = [r \in Requests |-> None]
  /\ who = [r \in Requests |-> None]
  /\ sinceClean = 0
  /\ admitted = [c \in Clients |-> 0]
  /\ overtaken = [c \in Clients |-> 0]
  /\ seconds = 0

\* Nobody has it any more: the garbage collector may take it.
Unused(l) == (\A c \in Clients : limiter[c] # l) /\ (\A r \in Requests : held[r] # l)

(* getLimiter.                                                             *)
GetLimiter(r, c) ==
  /\ held[r] = None
  /\ who' = [who EXCEPT ![r] = c]
  /\ \/ /\ limiter[c] # None
        /\ held' = [held EXCEPT ![r] = limiter[c]]
        /\ UNCHANGED <<limiter, tokens>>
     \/ /\ limiter[c] = None
        /\ \E l \in Limiters :
             /\ Unused(l)
             /\ limiter' = [limiter EXCEPT ![c] = l]
             /\ tokens' = [tokens EXCEPT ![l] = Burst]
             /\ held' = [held EXCEPT ![r] = l]
  /\ UNCHANGED <<sinceClean, history>>

Forget(r) == held' = [held EXCEPT ![r] = None] /\ who' = [who EXCEPT ![r] = None]

Overtaken(r) == held[r] # limiter[who[r]]

(* limiter.Allow answers yes: a token is taken.                            *)
Admit(r) ==
  /\ held[r] # None
  /\ tokens[held[r]] > 0
  /\ tokens' = [tokens EXCEPT ![held[r]] = tokens[held[r]] - 1]
  /\ Forget(r)
  /\ admitted' = [admitted EXCEPT ![who[r]] = admitted[who[r]] + 1]
  /\ overtaken' = [overtaken EXCEPT ![who[r]] =
                     IF Overtaken(r) THEN overtaken[who[r]] + 1 ELSE overtaken[who[r]]]
  /\ UNCHANGED <<limiter, sinceClean, seconds>>

(* limiter.Allow answers no: 429.                                          *)
Refuse(r) ==
  /\ held[r] # None
  /\ tokens[held[r]] = 0
  /\ Forget(r)
  /\ UNCHANGED <<limiter, tokens, sinceClean, history>>

(* The time of one token.                                                  *)
Second ==
  /\ seconds < MaxSeconds
  /\ seconds' = seconds + 1
  /\ tokens' = [l \in Limiters |-> IF tokens[l] < Burst THEN tokens[l] + 1 ELSE Burst]
  /\ sinceClean' = IF sinceClean <= CleanupInterval THEN sinceClean + 1 ELSE sinceClean
  /\ UNCHANGED <<limiter, held, who, admitted, overtaken>>

\* Mutant: the limiter of whoever was let through before is inactive too.
Inactive_NotFull(c) == limiter[c] # None

\* limiter.Tokens() >= BurstSize.
Inactive(c) == limiter[c] # None /\ tokens[limiter[c]] >= Burst

(* The ticker of cleanupRoutine fires.  The comparison with lastClean      *)
(* spares every limiter when the tick is exactly on time.                  *)
Cleanup ==
  /\ sinceClean >= CleanupInterval
  /\ \E late \in {sinceClean > CleanupInterval, TRUE} :
       limiter' = [c \in Clients |-> IF Inactive(c) /\ late THEN None ELSE limiter[c]]
  /\ sinceClean' = 0
  /\ UNCHANGED <<tokens, held, who, history>>

(* Somebody begins to count: what is promised is promised of any period.   *)
BeginCount ==
  /\ admitted' = [c \in Clients |-> 0]
  /\ overtaken' = [c \in Clients |-> 0]
  /\ seconds' = 0
  /\ UNCHANGED <<limiter, tokens, held, who, sinceClean>>

(* The process is killed and started again.                                *)
LimiterRestart ==
  /\ limiter' = [c \in Clients |-> None]
  /\ held' = [r \in Requests |-> None]
  /\ who' = [r \in Requests |-> None]
  /\ sinceClean' = 0
  /\ admitted' = [c \in Clients |-> 0]
  /\ overtaken' = [c \in Clients |-> 0]
  /\ seconds' = 0
  /\ UNCHANGED tokens

LimiterNext ==
  \/ \E r \in Requests : (\E c \in Clients : GetLimiter(r, c)) \/ Admit(r) \/ Refuse(r)
  \/ Second \/ Cleanup \/ BeginCount \/ LimiterRestart

LimiterSpec == LimiterInit /\ [][LimiterNext]_limiterVars

-----------------------------------------------------------------------------
(* In whatever period, a client is let through no more often than the      *)
(* burst and one request a second allow, but for requests that a cleanup   *)
(* overtook: forgetting a limiter gives its client nothing, because a      *)
(* limiter that is forgotten is full and a client's new one is full too.   *)
WithinBudget ==
  \A c \in Clients : admitted[c] <= Burst + seconds + overtaken[c]

=============================================================================
