------------------------------- MODULE Batch -------------------------------
(***************************************************************************)
(* A batch of actions (src/actions/batch.client.ts) with the endpoint that *)
(* serves it (workers/src/handlers/batch.ts): one POST with retries, and   *)
(* when that fails one request per item, in order.  A client without a     *)
(* proxy runs the items natively.                                          *)
(*                                                                         *)
(* An item is a record [id, action].  What becomes of it is "value", "bad" *)
(* (a value the client cannot decode) or "error".  A result is a record    *)
(*   id       the id it carries                                            *)
(*   of       the item that produced it, and                               *)
(*   outcome  what became of it there (history)                            *)
(*   as       the action whose decoder it went through                     *)
(*   ok       whether it carries a result, or an error.                    *)
(***************************************************************************)
EXTENDS Collector

CONSTANTS Batches,
          Ids,           \* ids of items
          Items,         \* Items[b]: the items of a batch
          Decoded,       \* actions that have a decoder
          Attempts,      \* retryOptions.attempts
          Times          \* response times

ASSUME BatchAssumption == /\ Attempts \in Nat \ {0}
                          /\ Items \in [Batches -> Seq([id : Ids, action : Methods])]
                          /\ Times \subseteq Nat

VARIABLES at,            \* at[b]: where the batch is
          tries,         \* tries[b]: POSTs sent
          served,        \* served[b][i]: what became of an item in the Worker
          results,       \* results[b]: the results so far
          path           \* path[b]: how it was answered in the end (history)

batchVars == <<at, tries, served, results, path>>

Index(b) == DOMAIN Items[b]
Unserved(b) == [i \in Index(b) |-> "running"]
Outcomes(b, i) == {"value", "error"} \cup (IF Items[b][i].action \in Decoded THEN {"bad"} ELSE {})

BatchTypeOK ==
  /\ at \in [Batches -> {"idle", "posting", "backoff", "serial", "native", "done"}]
  /\ tries \in [Batches -> 0..Attempts]
  /\ \A b \in Batches :
       /\ served[b] \in [Index(b) -> {"value", "bad", "error", "running"}]
       /\ \A i \in Index(b) : served[b][i] \in Outcomes(b, i) \cup {"running"}
       /\ at[b] \in {"serial", "native"} => Len(results[b]) < Len(Items[b])

BatchInit == /\ at = [b \in Batches |-> "idle"]
             /\ tries = [b \in Batches |-> 0]
             /\ served = [b \in Batches |-> Unserved(b)]
             /\ results = [b \in Batches |-> <<>>]
             /\ path = [b \in Batches |-> "none"]

-----------------------------------------------------------------------------
Result(b, i, outcome) ==
  [id |-> Items[b][i].id, of |-> i, as |-> "raw", ok |-> outcome # "error", outcome |-> outcome]

\* normalizeBatchResults: every result goes through the decoder of the action at its
\* place; a failure is an error of that item.
Normalized(b, list) ==
  [i \in DOMAIN list |->
     [list[i] EXCEPT !.as = Items[b][i].action, !.ok = @ /\ list[i].outcome # "bad"]]

Entry(b, i, success, ms, cache) ==
  [from |-> <<"batch", b, i>>, method |-> Items[b][i].action, success |-> success, ms |-> ms, cache |-> cache]

\* An attempt is over: what the Worker still does for it reaches nobody.
Forget(b) == served' = [served EXCEPT ![b] = Unserved(b)]

Post(b) == /\ at' = [at EXCEPT ![b] = "posting"]
           /\ tries' = [tries EXCEPT ![b] = @ + 1]
           /\ UNCHANGED served

\* executeBatch, runNativeBatch.  An empty batch is over at once.
StartBatch(b) ==
  /\ at[b] = "idle"
  /\ IF Items[b] = <<>> THEN at' = [at EXCEPT ![b] = "done"] /\ UNCHANGED <<tries, served>>
     ELSE \/ Post(b)
          \/ at' = [at EXCEPT ![b] = "native"] /\ UNCHANGED <<tries, served>>
  /\ UNCHANGED <<results, path, metrics, log>>

\* handleBatchRequest executes the items at the same time, each by itself, and
\* answers when all are settled.
Settle(b, i) ==
  /\ at[b] = "posting"
  /\ served[b][i] = "running"
  /\ \E outcome \in Outcomes(b, i) : served' = [served EXCEPT ![b][i] = outcome]
  /\ UNCHANGED <<at, tries, results, path, metrics, log>>

\* Mutant: the results of the items that failed come last.
AnsweredErrorsLast(b) ==
  LET all == [i \in Index(b) |-> Result(b, i, served[b][i])]
  IN  SelectSeq(all, LAMBDA r : r.ok) \o SelectSeq(all, LAMBDA r : ~ r.ok)

\* In the order of the items, whatever the order in which they settled.
Answered(b) == [i \in Index(b) |-> Result(b, i, served[b][i])]

\* The entry of an item is made from the last result that has its id.
ById(list, id) == list[CHOOSE i \in DOMAIN list :
                         /\ list[i].id = id
                         /\ \A j \in DOMAIN list : list[j].id = id => j <= i]

\* Mutant: metrics before normalisation.
RecordBatchRaw(b, list) ==
  \E ms \in Times :
    RecordAll([i \in Index(b) |-> Entry(b, i, list[i].outcome # "error", ms, "miss")])

\* recordBatchMetrics: one entry per item, all with the time of the response and
\* its X-Cache, which the middleware of the API sets to MISS.
RecordBatch(b, list) ==
  \E ms \in Times :
    RecordAll([i \in Index(b) |-> Entry(b, i, ById(list, Items[b][i].id).ok, ms, "miss")])

Done(b, how) == /\ at' = [at EXCEPT ![b] = "done"]
                /\ path' = [path EXCEPT ![b] = how]

PostAnswered(b) ==
  LET list == Normalized(b, Answered(b)) IN
  /\ at[b] = "posting"
  /\ \A i \in Index(b) : served[b][i] # "running"
  /\ results' = [results EXCEPT ![b] = list]
  /\ RecordBatch(b, list)
  /\ Done(b, "post") /\ Forget(b)
  /\ UNCHANGED tries

\* No answer in time, or a 5xx or 429, whatever the Worker is doing: the next
\* attempt, or the items one by one.
PostFails(b) ==
  /\ at[b] = "posting"
  /\ at' = [at EXCEPT ![b] = IF tries[b] < Attempts THEN "backoff" ELSE "serial"]
  /\ Forget(b)
  /\ UNCHANGED <<tries, results, path, metrics, log>>

\* Any other answer: 400, 401, 404, not JSON, not a list.
PostRefused(b) ==
  /\ at[b] = "posting"
  /\ at' = [at EXCEPT ![b] = "serial"]
  /\ Forget(b)
  /\ UNCHANGED <<tries, results, path, metrics, log>>

WakeBatch(b) ==
  /\ at[b] = "backoff"
  /\ Post(b)
  /\ UNCHANGED <<results, path, metrics, log>>

Turn(b) == Len(results[b]) + 1
Ending(b) == Turn(b) = Len(Items[b])

Extended(b, outcome) == Append(results[b], Result(b, Turn(b), outcome))

\* runSerialBatch: makeProxyRequest for the next item, which records its entry
\* before anything is decoded.
SerialItem(b) ==
  /\ at[b] = "serial"
  /\ \E outcome \in Outcomes(b, Turn(b)), ms \in Times : \E cache \in CacheStatus(outcome # "error") :
       /\ RecordAll(<<Entry(b, Turn(b), outcome # "error", ms, cache)>>)
       /\ results' = [results EXCEPT ![b] =
                        LET list == Extended(b, outcome)
                        IN  IF Ending(b) THEN Normalized(b, list) ELSE list]
  /\ IF Ending(b) THEN Done(b, "serial") ELSE UNCHANGED <<at, path>>
  /\ UNCHANGED <<tries, served>>

\* runNativeBatch: the next item, by viem, which decodes it.
NativeItem(b) ==
  /\ at[b] = "native"
  /\ \E outcome \in Outcomes(b, Turn(b)) :
       results' = [results EXCEPT ![b] =
                     Append(@, Normalized(b, Extended(b, outcome))[Turn(b)])]
  /\ IF Ending(b) THEN Done(b, "native") ELSE UNCHANGED <<at, path>>
  /\ UNCHANGED <<tries, served, metrics, log>>

BatchNext(b) == \/ StartBatch(b) \/ PostAnswered(b) \/ PostFails(b) \/ PostRefused(b)
                \/ WakeBatch(b) \/ SerialItem(b) \/ NativeItem(b)
                \/ \E i \in Index(b) : Settle(b, i)

-----------------------------------------------------------------------------
\* One result per item, in the order of the items, under the item's id, made of
\* what became of that item and decoded as that item's action, whatever failed
\* on the way there, and whichever items failed.
BatchAnswered ==
  \A b \in Batches : at[b] = "done" =>
    /\ Len(results[b]) = Len(Items[b])
    /\ \A i \in Index(b) : LET r == results[b][i] IN
         /\ r.id = Items[b][i].id /\ r.of = i
         /\ r.as = Items[b][i].action
         /\ r.ok <=> r.outcome = "value"

\* Where the log has the entry of an item.
Entries(b, i) == {j \in DOMAIN log : /\ log[j].kind = "request"
                                     /\ log[j].entry.from = <<"batch", b, i>>}

DistinctId(b, i) == \A j \in Index(b) \ {i} : Items[b][j].id # Items[b][i].id

\* Every item is counted once, however many POSTs it was part of, and not at all
\* when no proxy is asked.  What the entry says agrees with the result, except
\* that ids which occur twice share the last one's, and that the serial path
\* counts what it cannot decode as a success.
BatchCounted ==
  \A b \in Batches : \A i \in Index(b) :
    /\ Cardinality(Entries(b, i)) <= 1
    /\ at[b] = "done" => Cardinality(Entries(b, i)) = One(path[b] # "native")
    /\ \A j \in Entries(b, i) :
         /\ path[b] = "post" /\ DistinctId(b, i) => log[j].entry.success = results[b][i].ok
         /\ path[b] = "serial" => log[j].entry.success = (results[b][i].outcome # "error")
=============================================================================
