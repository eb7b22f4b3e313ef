---------------------------- MODULE RateLimiter ----------------------------
(***************************************************************************)
(* The RateLimiter Durable Object                                          *)
(* (workers/src/durable-objects/rate-limiter.ts): one object per client,   *)
(* with one row per minute that counts the requests charged to it.         *)
(*                                                                         *)
(* A missing row and a row that counts nothing are the same thing to every *)
(* query, and the model has only the latter.  Where in the minute a        *)
(* request is does not matter but for the advice in Retry-After, which is  *)
(* left out.                                                               *)
(***************************************************************************)
EXTENDS Naturals

CONSTANTS Clients,       \* client ids, that is, IP addresses
          MaxMinute,     \* the clock of the model stops there
          Retained       \* RETAINED_MINUTES

ASSUME RateAssumption == MaxMinute \in Nat /\ Retained \in Nat

VARIABLE counters        \* counters[u][m]: the row of minute m in the object of u

Minutes == 0..MaxMinute

RateLimiterTypeOK == counters \in [Clients -> [Minutes -> Nat]]

RateLimiterInit == counters = [u \in Clients |-> [m \in Minutes |-> 0]]

Stale(m, now) == m + Retained < now

\* Mutant: a second query charges what the first has charged.
ConsumeTwice(u, now) ==
  counters' = [counters EXCEPT ![u] =
                 [m \in Minutes |-> IF m = now THEN @[m] + 2
                                    ELSE IF Stale(m, now) THEN 0 ELSE @[m]]]

\* consume: the row of this minute is inserted or counted up; old ones go.
Consume(u, now) ==
  counters' = [counters EXCEPT ![u] =
                 [m \in Minutes |-> IF m = now THEN @[m] + 1
                                    ELSE IF Stale(m, now) THEN 0 ELSE @[m]]]

\* Mutants: the count before this request decides; it is compared with <.
AllowedLate(u, now, limit) == counters[u][now] <= limit
AllowedEarly(u, now, limit) == counters[u][now] + 1 < limit

\* The verdict: count <= limit, this request included.
Allowed(u, now, limit) == counters[u][now] + 1 <= limit
=============================================================================
