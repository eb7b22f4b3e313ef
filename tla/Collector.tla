----------------------------- MODULE Collector -----------------------------
(***************************************************************************)
(* The metrics collector that all requests of a client share               *)
(* (src/utils/metrics.ts): counters per method and the most recent         *)
(* response times, per method and over all of them.                        *)
(*                                                                         *)
(* An entry says                                                           *)
(*   from     which request made it (history)                              *)
(*   method   its action                                                   *)
(*   success  whether it succeeded                                         *)
(*   ms       its response time                                            *)
(*   cache    "hit", "miss" or "unknown".                                  *)
(* Strategies, chains and the reasons of fallbacks are counted in the same *)
(* way and left out.                                                       *)
(***************************************************************************)
EXTENDS Naturals, Sequences, FiniteSets, FiniteSetsExt, Functions

CONSTANTS Methods,       \* action names
          Capacity       \* DEFAULT_MAX_SAMPLES

ASSUME CollectorAssumption == Capacity \in Nat \ {0} /\ IsFiniteSet(Methods)

VARIABLES metrics,       \* the state of the collector
          log            \* what it was told, resets among it (history)

EmptyRing == [values |-> [i \in 0..Capacity - 1 |-> 0], size |-> 0, next |-> 0]

NoMetrics == [count |-> 0, errors |-> 0, fallbacks |-> 0, hits |-> 0, misses |-> 0,
              ring |-> EmptyRing]

Fresh == [methods |-> [m \in Methods |-> NoMetrics], ring |-> EmptyRing, fallbacks |-> 0]

Ring == [values : [0..Capacity - 1 -> Nat], size : 0..Capacity, next : 0..Capacity - 1]

MethodMetrics == [count : Nat, errors : Nat, fallbacks : Nat, hits : Nat, misses : Nat, ring : Ring]

PerformanceMetrics == [methods : [Methods -> MethodMetrics], ring : Ring, fallbacks : Nat]

CollectorInit == metrics = Fresh /\ log = <<>>

\* Mutant: the ring begins anew in place of wrapping around.
PushAnew(ring, ms) ==
  IF ring.size = Capacity THEN [EmptyRing EXCEPT !.values[0] = ms, !.size = 1, !.next = 1 % Capacity]
  ELSE [values |-> [ring.values EXCEPT ![ring.next] = ms],
        size |-> ring.size + 1, next |-> (ring.next + 1) % Capacity]

Push(ring, ms) ==
  [values |-> [ring.values EXCEPT ![ring.next] = ms],
   size |-> IF ring.size < Capacity THEN ring.size + 1 ELSE Capacity,
   next |-> (ring.next + 1) % Capacity]

\* Oldest to newest.
ToArray(ring) ==
  LET first == IF ring.size < Capacity THEN 0 ELSE ring.next
  IN  [i \in 1..ring.size |-> ring.values[(first + i - 1) % Capacity]]

\* readCacheStatus of the last response: HIT comes with results only, and without a
\* response there is none.
CacheStatus(success) == IF success THEN {"hit", "miss"} ELSE {"miss", "unknown"}

One(condition) == IF condition THEN 1 ELSE 0

RecordMethod(of, e) ==
  [count |-> of.count + 1, errors |-> of.errors + One(~ e.success), fallbacks |-> of.fallbacks,
   hits |-> of.hits + One(e.cache = "hit"), misses |-> of.misses + One(e.cache = "miss"),
   ring |-> Push(of.ring, e.ms)]

RecordIn(state, e) ==
  [methods |-> [state.methods EXCEPT ![e.method] = RecordMethod(@, e)],
   ring |-> Push(state.ring, e.ms), fallbacks |-> state.fallbacks]

\* record, for each of a list of entries.
RecordAll(entries) ==
  LET after[i \in 0..Len(entries)] ==
        IF i = 0 THEN metrics ELSE RecordIn(after[i - 1], entries[i])
  IN  /\ metrics' = after[Len(entries)]
      /\ log' = log \o [i \in DOMAIN entries |-> [kind |-> "request", entry |-> entries[i]]]

RecordFallback(e) ==
  /\ metrics' = [methods |-> [metrics.methods EXCEPT ![e.method].fallbacks = @ + 1],
                  ring |-> metrics.ring, fallbacks |-> metrics.fallbacks + 1]
  /\ log' = Append(log, [kind |-> "fallback", entry |-> e])

\* resetMetrics, which a user may call at any moment.
Reset == /\ metrics' = Fresh
         /\ log' = Append(log, [kind |-> "reset"])

-----------------------------------------------------------------------------
\* getSnapshot: the totals are sums over the methods.
Snapshot(field) == FoldFunctionOnSet(LAMBDA m, sum : m[field] + sum, 0, metrics.methods, Methods)

\* Where the log has entries of a kind since the last reset.
Told(kind) == {i \in DOMAIN log : /\ log[i].kind = kind
                                  /\ \A j \in DOMAIN log : log[j].kind = "reset" => j < i}

Newer(told, i) == Cardinality({j \in told : j > i})

\* A ring has the response times of the Capacity last entries, from the oldest to
\* the newest.
Recent(ring, told) ==
  /\ ring.size = Min({Cardinality(told), Capacity})
  /\ \A i \in told : Newer(told, i) < Capacity =>
       ToArray(ring)[ring.size - Newer(told, i)] = log[i].entry.ms

\* The snapshot is about exactly what was recorded since the last reset,
\* whoever recorded it and however often the rings have wrapped around.
SnapshotExact ==
  LET told == Told("request") IN
  /\ Snapshot("count") = Cardinality(told)
  /\ Snapshot("errors") = Cardinality({i \in told : ~ log[i].entry.success})
  /\ Snapshot("hits") = Cardinality({i \in told : log[i].entry.cache = "hit"})
  /\ Snapshot("misses") = Cardinality({i \in told : log[i].entry.cache = "miss"})
  /\ Snapshot("fallbacks") = Cardinality(Told("fallback"))
  /\ metrics.fallbacks = Cardinality(Told("fallback"))
  /\ Recent(metrics.ring, told)
  /\ \A m \in Methods :
       Recent(metrics.methods[m].ring, {i \in told : log[i].entry.method = m})
=============================================================================
