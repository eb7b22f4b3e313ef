------------------------------ MODULE SlotPool ------------------------------
(***************************************************************************)
(* What the upstream limiter promises (openspec add-batch-and-concurrency, *)
(* "Per-Chain Upstream Concurrency Limit"): per chain at most MaxRpc calls *)
(* are upstream at a time, a call holds one slot of one chain, and chains  *)
(* share nothing.  Queues, timers and endpoints are not part of it.        *)
(***************************************************************************)
EXTENDS Naturals, FiniteSets

CONSTANTS Calls, Chains, MaxRpc

VARIABLE held            \* held[h]: the calls that hold a slot of chain h

Init == held = [h \in Chains |-> {}]

Free(c) == \A h \in Chains : c \notin held[h]

Take(c, h) == /\ Free(c)
              /\ Cardinality(held[h]) < MaxRpc
              /\ held' = [held EXCEPT ![h] = @ \cup {c}]

Give(c, h) == /\ c \in held[h]
              /\ held' = [held EXCEPT ![h] = @ \ {c}]

\* A slot changes hands without being free in between.
Pass(c, d, h) == /\ c \in held[h] /\ Free(d)
                 /\ held' = [held EXCEPT ![h] = (@ \ {c}) \cup {d}]

Next == \E c \in Calls, h \in Chains :
          Take(c, h) \/ Give(c, h) \/ \E d \in Calls : Pass(c, d, h)

Spec == Init /\ [][Next]_held
=============================================================================
