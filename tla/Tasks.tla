------------------------------- MODULE Tasks -------------------------------
(***************************************************************************)
(* What a client runs side by side: batches, a preheat, a single action    *)
(* that falls back to direct RPC, and a user who resets the metrics, all   *)
(* of them over one Collector.                                             *)
(***************************************************************************)
EXTENDS Batch, Preheat

CONSTANTS Action,        \* the name of the single action
          MaxResets      \* bounds the resets

ASSUME TasksAssumption == MaxResets \in Nat /\ Action \in Methods

VARIABLES single,        \* where the single action is
          resets         \* resets so far

vars == <<metrics, log, batchVars, preheatVars, single, resets>>

Failure == [from |-> <<"single">>, method |-> Action, success |-> FALSE, ms |-> 2, cache |-> "unknown"]

TasksTypeOK == /\ BatchTypeOK /\ PreheatTypeOK
               /\ single \in {"idle", "failed", "done"}
               /\ resets \in 0..MaxResets
               /\ metrics \in PerformanceMetrics

Init == /\ CollectorInit /\ BatchInit /\ PreheatInit
        /\ single = "idle"
        /\ resets = 0

\* makeProxyRequest of a single action fails ...
SingleFails ==
  /\ single = "idle"
  /\ single' = "failed"
  /\ RecordAll(<<Failure>>)
  /\ UNCHANGED <<batchVars, preheatVars, resets>>

\* ... and the catch of the action falls back, in a later turn.
SingleFallsBack ==
  /\ single = "failed"
  /\ single' = "done"
  /\ RecordFallback(Failure)
  /\ UNCHANGED <<batchVars, preheatVars, resets>>

ResetMetrics ==
  /\ resets < MaxResets
  /\ resets' = resets + 1
  /\ Reset
  /\ UNCHANGED <<batchVars, preheatVars, single>>

Next == \/ \E b \in Batches : BatchNext(b) /\ UNCHANGED <<preheatVars, single, resets>>
        \/ PreheatNext /\ UNCHANGED <<batchVars, single, resets>>
        \/ SingleFails \/ SingleFallsBack \/ ResetMetrics

Spec == Init /\ [][Next]_vars

\* What the collector says is what was recorded since the last reset, and every
\* item of a batch is counted once.
MetricsExact == SnapshotExact /\ BatchCounted
=============================================================================
