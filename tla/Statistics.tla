----------------------------- MODULE Statistics -----------------------------
(***************************************************************************)
(* The Statistics Durable Object (workers/src/durable-objects/             *)
(* statistics.ts over workers/src/utils/statistics.ts): one global object  *)
(* with a row per method and chain, cache status and hour, written to by   *)
(* the handlers without waiting for it, and read by GET /api/v1/stats.     *)
(*                                                                         *)
(* Time is counted in hours, which is all that buckets, windows and        *)
(* retention tell apart: with R hours of retention, hourBucket(now - R) is *)
(* R buckets before the one of now, wherever in the hour now is.           *)
(***************************************************************************)
EXTENDS Naturals, Sequences, FiniteSets, SequencesExt, FiniteSetsExt

CONSTANTS Senders,        \* one request each, observed once
          Observations,   \* what may be observed: key, status, error, ms
          SampleLimit,    \* SAMPLE_LIMIT
          MaxStatsHours,  \* MAX_STATS_HOURS
          Retention,      \* STATS_RETENTION_MS
          AlarmPeriod,    \* 24 hours
          AlarmLag,       \* how late the platform may run an alarm
          MaxHour         \* the clock of the model stops there

ASSUME StatisticsAssumption ==
  /\ SampleLimit \in Nat \ {0} /\ AlarmPeriod \in Nat \ {0}
  /\ {MaxStatsHours, Retention, AlarmLag, MaxHour} \subseteq Nat
  /\ MaxStatsHours >= 1 /\ Retention >= MaxStatsHours

\* What the handlers send: a hit took no time.
ASSUME ObservationAssumption ==
  \A o \in Observations : /\ o.status \in {"HIT", "MISS"} /\ o.ms \in Nat
                          /\ o.status = "HIT" => o.ms = 0
                          /\ o.key # "none"

VARIABLES table,          \* table[<<key, status, hour>>]: the row of a bucket
          alarm,          \* when the alarm is due, or NoAlarm
          initialized,    \* the object is in memory and has run ensureInitialized
          hour,           \* the clock
          pc,             \* pc[r]: where the observation of a request is
          entry,          \* entry[r]: what was observed
          arrived         \* the requests whose observations were recorded, in
                          \* order, and when (history)

vars == <<table, alarm, initialized, hour, pc, entry, arrived>>

Hours == 0..MaxHour
Keys == {o.key : o \in Observations}
Status == {"HIT", "MISS"}
Buckets == Keys \X Status \X Hours
NoAlarm == MaxHour + AlarmPeriod + 1
NoEntry == [key |-> "none", status |-> "none", error |-> FALSE, ms |-> 0]

\* No row and a row that counts nothing are the same to every query.
NoRow == [count |-> 0, errors |-> 0, total |-> 0, samples |-> <<>>]

StatsTypeOK ==
  /\ \A b \in Buckets :
       /\ table[b].errors <= table[b].count
       /\ Len(table[b].samples) <= SampleLimit
       /\ b[2] = "HIT" => table[b].samples = <<>> /\ table[b].total = 0
       /\ b[3] > hour => table[b] = NoRow
  /\ alarm \in Nat /\ initialized \in BOOLEAN /\ hour \in Hours
  /\ pc \in [Senders -> {"idle", "sent", "recorded", "lost"}]
  /\ \A r \in Senders : pc[r] = "idle" <=> entry[r] = NoEntry

Init == /\ table = [b \in Buckets |-> NoRow]
        /\ alarm = NoAlarm
        /\ initialized = FALSE
        /\ hour = 0
        /\ pc = [r \in Senders |-> "idle"]
        /\ entry = [r \in Senders |-> NoEntry]
        /\ arrived = <<>>

-----------------------------------------------------------------------------
\* Mutant: all samples are kept.
AppendAll(samples, ms) == Append(samples, ms)

appendSample(samples, ms) ==
  LET next == Append(samples, ms)
  IN  SubSeq(next, IF Len(next) > SampleLimit THEN Len(next) - SampleLimit + 1 ELSE 1, Len(next))

\* Only calls of upstream have a duration.
mergeRecord(row, o) ==
  [count |-> row.count + 1,
   errors |-> row.errors + (IF o.error THEN 1 ELSE 0),
   total |-> row.total + (IF o.status = "MISS" THEN o.ms ELSE 0),
   samples |-> IF o.status = "MISS" THEN appendSample(row.samples, o.ms) ELSE row.samples]

\* The first event after a start sets the alarm, unless one is set already.
EnsureInitialized ==
  /\ initialized' = TRUE
  /\ alarm' = IF ~ initialized /\ alarm = NoAlarm THEN hour + AlarmPeriod ELSE alarm

\* recordRequestStats: the handler goes on without waiting.
Send(r, o) ==
  /\ pc[r] = "idle"
  /\ pc' = [pc EXCEPT ![r] = "sent"]
  /\ entry' = [entry EXCEPT ![r] = o]
  /\ UNCHANGED <<table, alarm, initialized, hour, arrived>>

\* record: it counts in the hour in which it gets here.
Record(r) ==
  LET o == entry[r] IN
  /\ pc[r] = "sent"
  /\ EnsureInitialized
  /\ table' = [table EXCEPT ![<<o.key, o.status, hour>>] = mergeRecord(@, o)]
  /\ pc' = [pc EXCEPT ![r] = "recorded"]
  /\ arrived' = Append(arrived, [sender |-> r, hour |-> hour])
  /\ UNCHANGED <<entry, hour>>

\* The isolate that sends it is gone, or the object cannot be reached: nobody
\* learns of it.
Lose(r) ==
  /\ pc[r] = "sent"
  /\ pc' = [pc EXCEPT ![r] = "lost"]
  /\ UNCHANGED <<table, alarm, initialized, hour, entry, arrived>>

\* A GET /stats; what it answers is Stats below.
Query ==
  /\ EnsureInitialized
  /\ UNCHANGED <<table, hour, pc, entry, arrived>>

-----------------------------------------------------------------------------
Kept == {h \in Hours : h + Retention >= hour}

DeletedBut(hours) == [b \in Buckets |-> IF b[3] \in hours THEN table[b] ELSE NoRow]

\* Mutants: the bucket at the end of the retention goes too; the alarm is not set
\* again.
RetainLess ==
  /\ alarm <= hour
  /\ table' = DeletedBut(Kept \ {hour - Retention})
  /\ alarm' = hour + AlarmPeriod /\ initialized' = TRUE
  /\ UNCHANGED <<hour, pc, entry, arrived>>
RetainOnce ==
  /\ alarm <= hour
  /\ table' = DeletedBut(Kept)
  /\ alarm' = IF initialized THEN NoAlarm ELSE hour + AlarmPeriod
  /\ initialized' = TRUE
  /\ UNCHANGED <<hour, pc, entry, arrived>>

\* alarm: the rows of hours before the retention go, and the alarm is set again.
Retain ==
  /\ alarm <= hour
  /\ table' = DeletedBut(Kept)
  /\ alarm' = hour + AlarmPeriod /\ initialized' = TRUE
  /\ UNCHANGED <<hour, pc, entry, arrived>>

\* The object leaves memory; rows and alarm stay.
Evict ==
  /\ initialized
  /\ initialized' = FALSE
  /\ UNCHANGED <<table, alarm, hour, pc, entry, arrived>>

\* The platform runs an alarm at most AlarmLag late.
Tick ==
  /\ hour < MaxHour
  /\ alarm # NoAlarm => hour < alarm + AlarmLag
  /\ hour' = hour + 1
  /\ UNCHANGED <<table, alarm, initialized, pc, entry, arrived>>

Next == \/ \E r \in Senders : (\E o \in Observations : Send(r, o)) \/ Record(r) \/ Lose(r)
        \/ Query \/ Retain \/ Evict \/ Tick

Spec == Init /\ [][Next]_vars

-----------------------------------------------------------------------------
(***************************************************************************)
(* What GET /stats answers: aggregatePeriods over the rows of a window.    *)
(* The ratios are left out: they divide these numbers.                     *)
(***************************************************************************)
\* bucketCutoff: a window of w hours begins with the bucket w before this one.
InWindow(h, w) == h + w >= hour /\ h <= hour

\* The samples in ascending order.
Sorted(samples) ==
  LET places == DOMAIN samples
      order == CHOOSE p \in Bijection(places, places) :
                 \A i, j \in places : i < j => samples[p[i]] <= samples[p[j]]
  IN  [i \in places |-> samples[order[i]]]

\* Mutant: the rank is rounded down.
PercentileFloor(samples, p) ==
  LET sorted == Sorted(samples)
  IN  IF samples = <<>> THEN 0 ELSE sorted[Max({1, (p * Len(samples)) \div 100})]

\* percentile: the value of rank ceil(p / 100 * n); 0 stands for null.
Percentile(samples, p) ==
  LET sorted == Sorted(samples)
      rank == (p * Len(samples) + 99) \div 100
  IN  IF samples = <<>> THEN 0 ELSE sorted[Min({rank, Len(samples)})]

Rows(keys, w) == {b \in Buckets : b[1] \in keys /\ InWindow(b[3], w) /\ table[b].count > 0}

Count(rows) == MapThenSumSet(LAMBDA b : table[b].count, rows)
Errors(rows) == MapThenSumSet(LAMBDA b : table[b].errors, rows)
Milliseconds(rows) == MapThenSumSet(LAMBDA b : table[b].total, rows)
Samples(rows) == FoldFunction(LAMBDA row, rest : row.samples \o rest, <<>>,
                              [b \in rows |-> table[b]])

Summary(rows) ==
  [totalRequests |-> Count(rows),
   cacheHits |-> Count({b \in rows : b[2] = "HIT"}),
   upstreamCount |-> Count({b \in rows : b[2] = "MISS"}),
   totalMs |-> Milliseconds(rows),
   errorCount |-> Errors(rows)]

Period(rows) ==
  [count |-> Count(rows), errorCount |-> Errors(rows),
   rank |-> [p \in {50, 95, 99} |-> Percentile(Samples(rows), p)]]

\* getStats, for the keys that a filter by method and chain leaves.
Stats(keys, w) ==
  LET rows == Rows(keys, w)
  IN  [summary |-> Summary(rows),
       periods |-> [h \in {b[3] : b \in rows} |-> Period({b \in rows : b[3] = h})]]

-----------------------------------------------------------------------------
Seen(i) == entry[arrived[i].sender]

\* The recorded observations of a filter in a window, and among those of a key
\* and an hour the last SampleLimit that called upstream.
Counted(keys, w) == {i \in DOMAIN arrived : Seen(i).key \in keys /\ InWindow(arrived[i].hour, w)}

Sampled(keys, h) ==
  {i \in DOMAIN arrived :
     LET like == {j \in DOMAIN arrived : /\ Seen(j).key = Seen(i).key
                                         /\ Seen(j).status = "MISS"
                                         /\ arrived[j].hour = h}
     IN  /\ i \in like /\ Seen(i).key \in keys
         /\ Cardinality({j \in like : j > i}) < SampleLimit}

Windows == 1..MaxStatsHours

\* Whatever retention has deleted, and whenever it ran, every window that may be
\* asked for reports exactly the observations that were recorded in it, by any
\* filter, and every hour of it its own.
WindowExact ==
  \A keys \in SUBSET Keys, w \in Windows :
    LET stats == Stats(keys, w)
        seen == Counted(keys, w)
    IN /\ stats.summary =
            [totalRequests |-> Cardinality(seen),
             cacheHits |-> Cardinality({i \in seen : Seen(i).status = "HIT"}),
             upstreamCount |-> Cardinality({i \in seen : Seen(i).status = "MISS"}),
             totalMs |-> MapThenSumSet(LAMBDA i : Seen(i).ms, seen),
             errorCount |-> Cardinality({i \in seen : Seen(i).error})]
       /\ DOMAIN stats.periods = {arrived[i].hour : i \in seen}
       /\ \A h \in DOMAIN stats.periods :
            LET now == {i \in seen : arrived[i].hour = h}
            IN  /\ stats.periods[h].count = Cardinality(now)
                /\ stats.periods[h].errorCount = Cardinality({i \in now : Seen(i).error})

\* The percentiles of an hour are those of the most recent durations of each
\* key: v is the p-th when p per cent of them are at most v, and not already
\* p per cent less than v.
PercentilesExact ==
  \A keys \in SUBSET Keys : LET periods == Stats(keys, MaxStatsHours).periods IN
    \A h \in DOMAIN periods, p \in {50, 95, 99} :
      LET sampled == Sampled(keys, h)
          v == periods[h].rank[p]
          n == Cardinality(sampled)
      IN IF n = 0 THEN v = 0
         ELSE /\ 100 * Cardinality({i \in sampled : Seen(i).ms <= v}) >= p * n
              /\ 100 * Cardinality({i \in sampled : Seen(i).ms < v}) < p * n

\* However often the object is evicted, no row outlives its retention by more
\* than the time to the next alarm.
StorageBounded ==
  \A b \in Buckets : table[b] # NoRow => hour <= b[3] + Retention + AlarmPeriod + AlarmLag
=============================================================================
