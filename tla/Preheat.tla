------------------------------ MODULE Preheat ------------------------------
(***************************************************************************)
(* preheatCache (src/actions/preheat.client.ts): a bounded pool of workers *)
(* that take requests from a shared cursor.  Each request is one           *)
(* makeProxyRequest, which reports to the Collector.                       *)
(***************************************************************************)
EXTENDS Collector

CONSTANTS Preheats,      \* a sequence: the actions to preheat
          Concurrency,   \* PREHEAT_CONCURRENCY
          PreheatTimes   \* response times

ASSUME PreheatAssumption == /\ Concurrency \in Nat \ {0}
                            /\ Preheats \in Seq(Methods)
                            /\ PreheatTimes \subseteq Nat

VARIABLES cursor,        \* the next request, from 1
          worker,        \* worker[w]: "idle", the request under way, or "finished"
          failed,        \* requests that failed
          fired          \* fired[i]: how often request i was made (history)

preheatVars == <<cursor, worker, failed, fired>>

Workers == 1..Min({Concurrency, Len(Preheats)})
Preheated == DOMAIN Preheats
Idle == 0
Finished == Len(Preheats) + 1

PreheatTypeOK ==
  /\ cursor \in 1..Finished
  /\ worker \in [Workers -> 0..Finished]
  /\ failed \in 0..Len(Preheats)
  /\ fired \in [Preheated -> Nat]

PreheatInit == /\ cursor = 1
               /\ worker = [w \in Workers |-> Idle]
               /\ failed = 0
               /\ fired = [i \in Preheated |-> 0]

\* The workers start in one turn, each up to its first request.
StartPreheat ==
  /\ \A w \in Workers : worker[w] = Idle
  /\ Workers # {}
  /\ worker' = [w \in Workers |-> w]
  /\ cursor' = Cardinality(Workers) + 1
  /\ fired' = [i \in Preheated |-> One(i \in Workers)]
  /\ UNCHANGED <<failed, metrics, log>>

\* Mutant: every worker goes on from its own request.
TakeOwn(w) ==
  /\ worker' = [worker EXCEPT ![w] = @ + 1]
  /\ fired' = [i \in Preheated |-> fired[i] + One(i = worker[w] + 1)]
  /\ UNCHANGED cursor

\* Mutant: <= for <.
TakeOneMore(w) ==
  IF cursor <= Len(Preheats) + 1
  THEN /\ worker' = [worker EXCEPT ![w] = cursor]
       /\ fired' = [fired EXCEPT ![cursor] = @ + 1]
       /\ cursor' = cursor + 1
  ELSE worker' = [worker EXCEPT ![w] = Finished] /\ UNCHANGED <<cursor, fired>>

\* while (cursor < requests.length): the next request, if there is one.
Take(w) ==
  IF cursor <= Len(Preheats)
  THEN /\ worker' = [worker EXCEPT ![w] = cursor]
       /\ fired' = [fired EXCEPT ![cursor] = @ + 1]
       /\ cursor' = cursor + 1
  ELSE worker' = [worker EXCEPT ![w] = Finished] /\ UNCHANGED <<cursor, fired>>

\* A request is over, the metrics have it, and its worker goes on.
Preheat(w) ==
  /\ worker[w] \in Preheated
  /\ \E success \in BOOLEAN, ms \in PreheatTimes : \E cache \in CacheStatus(success) :
       /\ RecordAll(<<[from |-> <<"preheat", worker[w]>>, method |-> Preheats[worker[w]],
                       success |-> success, ms |-> ms, cache |-> cache]>>)
       /\ failed' = failed + One(~ success)
  /\ Take(w)

PreheatNext == StartPreheat \/ \E w \in Workers : Preheat(w)

-----------------------------------------------------------------------------
Fired == {i \in Preheated : fired[i] > 0}
Reported == {i \in DOMAIN log : log[i].kind = "request" /\ log[i].entry.from[1] = "preheat"}

\* Whatever the order in which requests end: none is made twice, none is left out
\* when the pool is finished, no worker stops while requests are waiting, and
\* failed counts what was reported as a failure.
PreheatExact ==
  /\ \A i \in Preheated : fired[i] <= 1
  /\ \A v, w \in Workers : worker[v] = worker[w] /\ v # w => worker[v] \notin Preheated
  /\ Fired # Preheated => \A w \in Workers : worker[w] # Finished
  /\ (\A w \in Workers : worker[w] = Finished) =>
       {log[i].entry.from[2] : i \in Reported} = Preheated
  /\ failed = Cardinality({i \in Reported : ~ log[i].entry.success})
=============================================================================
