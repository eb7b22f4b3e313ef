-------------------------- MODULE StatisticsProofs --------------------------
(***************************************************************************)
(* Theorems about Statistics, for every set of senders and observations,   *)
(* every retention, alarm period and delay of alarms.                      *)
(***************************************************************************)
EXTENDS Statistics, SetInduction, SequenceTheorems, FunctionTheorems

\* The hours that matter are naturals, and the alarm, once set, is near: at
\* most AlarmLag overdue, at most AlarmPeriod away.
AlarmNear == /\ hour \in Hours /\ alarm \in Nat
             /\ alarm # NoAlarm => hour <= alarm + AlarmLag /\ alarm <= hour + AlarmPeriod
             /\ initialized => alarm # NoAlarm

\* Rows are of the past, and an alarm is set that comes before they are too old.
RowsWatched ==
  /\ table = [b \in Buckets |-> table[b]]
  /\ \A b \in Buckets : table[b] # NoRow =>
       b[3] <= hour /\ alarm # NoAlarm /\ alarm <= b[3] + Retention + AlarmPeriod

StorageInv == AlarmNear /\ RowsWatched

LEMMA HourFacts ==
  /\ Hours \subseteq Nat /\ NoAlarm \in Nat
  /\ \A h \in Hours : h + AlarmPeriod \in Nat /\ h + AlarmPeriod # NoAlarm
  /\ \A b \in Buckets : b[3] \in Nat
<1>1. Hours \subseteq Nat /\ MaxHour \in Nat /\ AlarmPeriod \in Nat
  BY StatisticsAssumption DEF Hours
<1>2. \A h \in Hours : h <= MaxHour BY StatisticsAssumption DEF Hours
<1>3. \A b \in Buckets : b[3] \in Nat BY <1>1 DEF Buckets
<1>4. \A h \in Hours : h + AlarmPeriod \in Nat /\ h + AlarmPeriod # NoAlarm
  BY <1>1, <1>2 DEF NoAlarm
<1>5. NoAlarm \in Nat BY <1>1 DEF NoAlarm
<1> QED BY <1>1, <1>3, <1>4, <1>5

LEMMA StorageInit == Init => StorageInv
<1> SUFFICES ASSUME Init PROVE StorageInv OBVIOUS
<1>1. AlarmNear BY HourFacts, StatisticsAssumption DEF Init, AlarmNear, Hours
<1>2. RowsWatched BY DEF Init, RowsWatched
<1> QED BY <1>1, <1>2 DEF StorageInv

\* Any event wakes the object: afterwards an alarm is set, which is near.
LEMMA Awake ==
  ASSUME AlarmNear, EnsureInitialized, hour' = hour
  PROVE  /\ AlarmNear'
         /\ alarm' # NoAlarm /\ alarm' <= hour + AlarmPeriod
         /\ alarm # NoAlarm => alarm' = alarm
<1>1. hour \in Nat /\ hour \in Hours /\ alarm \in Nat BY HourFacts DEF AlarmNear
<1>2. CASE ~ initialized /\ alarm = NoAlarm
  <2>1. alarm' = hour + AlarmPeriod BY <1>2 DEF EnsureInitialized
  <2> QED BY <1>1, <1>2, <2>1, HourFacts, StatisticsAssumption DEF AlarmNear
<1>3. CASE initialized \/ alarm # NoAlarm
  <2>1. alarm' = alarm BY <1>3 DEF EnsureInitialized
  <2> QED BY <1>1, <1>3, <2>1 DEF AlarmNear
<1> QED BY <1>2, <1>3

LEMMA RecordStorage ==
  ASSUME StorageInv, NEW r \in Senders, Record(r)
  PROVE  StorageInv'
<1> DEFINE k == <<entry[r].key, entry[r].status, hour>>
<1>1. AlarmNear /\ RowsWatched /\ EnsureInitialized /\ hour' = hour
  BY DEF Record, StorageInv
<1>2. table' = [table EXCEPT ![k] = mergeRecord(table[k], entry[r])] BY DEF Record
<1>3. hour \in Nat /\ alarm \in Nat BY <1>1, HourFacts DEF AlarmNear
<1>4. table' = [b \in Buckets |-> table'[b]] BY <1>1, <1>2 DEF RowsWatched
<1>5. ASSUME NEW b \in Buckets, table'[b] # NoRow
      PROVE  b[3] <= hour /\ alarm' # NoAlarm /\ alarm' <= b[3] + Retention + AlarmPeriod
  <2>1. CASE b = k
    <3>1. b[3] = hour BY <2>1
    <3> QED BY <1>1, <1>3, <3>1, Awake, StatisticsAssumption DEF AlarmNear
  <2>2. CASE b # k
    <3>1. table[b] # NoRow BY <1>1, <1>2, <1>5, <2>2 DEF RowsWatched
    <3>2. alarm' = alarm BY <1>1, <3>1, Awake DEF RowsWatched
    <3> QED BY <1>1, <3>1, <3>2 DEF RowsWatched
  <2> QED BY <2>1, <2>2
<1> QED BY <1>1, <1>4, <1>5, Awake DEF StorageInv, RowsWatched

LEMMA QueryStorage == ASSUME StorageInv, Query PROVE StorageInv'
<1>1. AlarmNear /\ RowsWatched /\ EnsureInitialized /\ hour' = hour /\ table' = table
  BY DEF Query, StorageInv
<1> QED BY <1>1, Awake DEF StorageInv, RowsWatched

\* What the alarm keeps is young enough for the next one.
LEMMA RetainStorage == ASSUME StorageInv, Retain PROVE StorageInv'
<1>1. AlarmNear /\ RowsWatched /\ hour' = hour /\ alarm' = hour + AlarmPeriod
      /\ table' = DeletedBut(Kept)
  BY DEF Retain, StorageInv
<1>2. hour \in Nat /\ hour \in Hours BY <1>1, HourFacts DEF AlarmNear
<1>3. AlarmNear' BY <1>1, <1>2, HourFacts, StatisticsAssumption DEF AlarmNear
<1>4. ASSUME NEW b \in Buckets, table'[b] # NoRow
      PROVE  b[3] <= hour /\ alarm' # NoAlarm /\ alarm' <= b[3] + Retention + AlarmPeriod
  <2>1. b[3] \in Kept /\ table[b] # NoRow BY <1>1, <1>4 DEF DeletedBut
  <2>2. b[3] \in Nat /\ b[3] + Retention >= hour BY <2>1, HourFacts DEF Kept
  <2>3. b[3] <= hour BY <1>1, <2>1 DEF RowsWatched
  <2> QED BY <1>1, <1>2, <2>2, <2>3, HourFacts, StatisticsAssumption
<1>5. table' = [b \in Buckets |-> table'[b]] BY <1>1 DEF DeletedBut
<1> QED BY <1>1, <1>3, <1>4, <1>5 DEF StorageInv, RowsWatched

LEMMA TickStorage == ASSUME StorageInv, Tick PROVE StorageInv'
<1>1. AlarmNear /\ RowsWatched /\ hour < MaxHour /\ hour' = hour + 1
      /\ (alarm # NoAlarm => hour < alarm + AlarmLag)
      /\ UNCHANGED <<table, alarm, initialized>>
  BY DEF Tick, StorageInv
<1>2. hour \in Nat /\ hour' \in Hours
  BY <1>1, StatisticsAssumption DEF AlarmNear, Hours
<1>3. AlarmNear' BY <1>1, <1>2, StatisticsAssumption DEF AlarmNear, NoAlarm
<1>4. \A b \in Buckets : b[3] \in Nat BY HourFacts
<1> QED BY <1>1, <1>2, <1>3, <1>4 DEF StorageInv, RowsWatched

LEMMA StorageNext == StorageInv /\ [Next]_vars => StorageInv'
<1> SUFFICES ASSUME StorageInv, [Next]_vars PROVE StorageInv' OBVIOUS
<1>1. ASSUME UNCHANGED <<table, alarm, hour>>, initialized' => initialized
      PROVE  StorageInv'
  BY <1>1 DEF StorageInv, AlarmNear, RowsWatched
<1>2. ASSUME NEW r \in Senders, NEW o \in Observations, Send(r, o) PROVE StorageInv'
  BY <1>1, <1>2 DEF Send
<1>3. ASSUME NEW r \in Senders, Lose(r) PROVE StorageInv' BY <1>1, <1>3 DEF Lose
<1>4. CASE Evict BY <1>1, <1>4 DEF Evict
<1>5. CASE UNCHANGED vars BY <1>1, <1>5 DEF vars
<1> QED
  BY <1>2, <1>3, <1>4, <1>5, RecordStorage, QueryStorage, RetainStorage, TickStorage DEF Next

\* The object's rows do not grow for ever: whatever is recorded, however often
\* the object is evicted and however late its alarms run, no row is older than
\* the retention, one alarm period and one delay.
THEOREM RowsGo == Spec => []StorageBounded
<1>1. StorageInv => StorageBounded
  <2> SUFFICES ASSUME StorageInv, NEW b \in Buckets, table[b] # NoRow
               PROVE  hour <= b[3] + Retention + AlarmPeriod + AlarmLag
    BY DEF StorageBounded
  <2>1. hour \in Nat /\ alarm \in Nat /\ b[3] \in Nat
    BY HourFacts DEF StorageInv, AlarmNear
  <2>2. hour <= alarm + AlarmLag /\ alarm <= b[3] + Retention + AlarmPeriod
    BY DEF StorageInv, AlarmNear, RowsWatched
  <2> QED BY <2>1, <2>2, StatisticsAssumption
<1> QED BY <1>1, StorageInit, StorageNext, PTL DEF Spec

-----------------------------------------------------------------------------
\* What a row holds: fewer errors than observations, at most SampleLimit
\* samples, and, in a row of hits, no durations at all.
RowType == [count : Nat, errors : Nat, total : Nat, samples : Seq(Nat)]

RowOK(b) == /\ table[b] \in RowType
            /\ table[b].errors <= table[b].count
            /\ Len(table[b].samples) <= SampleLimit
            /\ b[2] = "HIT" => table[b].samples = <<>> /\ table[b].total = 0
            /\ b[3] > hour => table[b] = NoRow

SendersOK == /\ pc \in [Senders -> {"idle", "sent", "recorded", "lost"}]
             /\ entry \in [Senders -> Observations \cup {NoEntry}]
             /\ \A r \in Senders : pc[r] = "idle" <=> entry[r] = NoEntry

TypeInv == /\ StorageInv
           /\ SendersOK
           /\ initialized \in BOOLEAN
           /\ \A b \in Buckets : RowOK(b)

LEMMA SampleFacts ==
  ASSUME NEW s \in Seq(Nat), NEW ms \in Nat
  PROVE  /\ appendSample(s, ms) \in Seq(Nat)
         /\ Len(appendSample(s, ms)) <= SampleLimit
<1> DEFINE t == Append(s, ms)
<1>1. t \in Seq(Nat) /\ Len(t) \in Nat /\ SampleLimit \in Nat \ {0} BY StatisticsAssumption
<1> HIDE DEF t
<1>2. CASE Len(t) > SampleLimit
  <2> DEFINE first == Len(t) - SampleLimit + 1
  <2>1. first \in 1..Len(t) /\ Len(t) - first + 1 = SampleLimit BY <1>1, <1>2
  <2> HIDE DEF first
  <2>2. SubSeq(t, first, Len(t)) \in Seq(Nat) /\ Len(SubSeq(t, first, Len(t))) = SampleLimit
    BY <1>1, <2>1, SubSeqProperties
  <2>3. appendSample(s, ms) = SubSeq(t, first, Len(t))
    BY <1>2, Zenon DEF appendSample, t, first
  <2> QED BY <1>1, <2>2, <2>3
<1>3. CASE ~ Len(t) > SampleLimit
  <2>1. SubSeq(t, 1, Len(t)) \in Seq(Nat) /\ Len(SubSeq(t, 1, Len(t))) = Len(t)
    BY <1>1
  <2> QED BY <1>1, <1>3, <2>1 DEF appendSample, t
<1> QED BY <1>2, <1>3

LEMMA NoRowOK == NoRow \in RowType
BY DEF NoRow, RowType

\* mergeRecord keeps a row in its type and within its limits.
LEMMA MergeFacts ==
  ASSUME NEW row \in RowType, row.errors <= row.count, Len(row.samples) <= SampleLimit,
         NEW o \in Observations
  PROVE  LET merged == mergeRecord(row, o)
         IN  /\ merged \in RowType
             /\ merged.errors <= merged.count
             /\ Len(merged.samples) <= SampleLimit
             /\ o.status = "HIT" => merged.total = row.total /\ merged.samples = row.samples
<1> DEFINE more == appendSample(row.samples, o.ms)
<1>1. /\ row.count \in Nat /\ row.errors \in Nat /\ row.total \in Nat /\ row.samples \in Seq(Nat)
      /\ o.ms \in Nat
  BY ObservationAssumption DEF RowType
<1>2. more \in Seq(Nat) /\ Len(more) <= SampleLimit BY <1>1, SampleFacts
<1>3. mergeRecord(row, o) =
        [count |-> row.count + 1,
         errors |-> row.errors + (IF o.error THEN 1 ELSE 0),
         total |-> row.total + (IF o.status = "MISS" THEN o.ms ELSE 0),
         samples |-> IF o.status = "MISS" THEN more ELSE row.samples]
  BY DEF mergeRecord
<1> HIDE DEF more
<1>4. /\ row.errors + (IF o.error THEN 1 ELSE 0) \in Nat
      /\ row.errors + (IF o.error THEN 1 ELSE 0) <= row.count + 1
  BY <1>1
<1>5. row.total + (IF o.status = "MISS" THEN o.ms ELSE 0) \in Nat BY <1>1
<1>6. o.status = "HIT" => row.total + (IF o.status = "MISS" THEN o.ms ELSE 0) = row.total
  BY <1>1
<1> QED BY <1>1, <1>2, <1>3, <1>4, <1>5, <1>6 DEF RowType

LEMMA RecordRows ==
  ASSUME TypeInv, NEW r \in Senders, Record(r), NEW b \in Buckets
  PROVE  RowOK(b)'
<1> DEFINE o == entry[r]
           k == <<o.key, o.status, hour>>
<1>1. table' = [table EXCEPT ![k] = mergeRecord(table[k], o)] /\ hour' = hour /\ RowOK(b)
  BY DEF Record, TypeInv
<1>2. table = [c \in Buckets |-> table[c]] BY DEF TypeInv, StorageInv, RowsWatched
<1>3. CASE b # k BY <1>1, <1>2, <1>3 DEF RowOK
<1>4. CASE b = k
  <2>1. o \in Observations
    <3>1. pc[r] = "sent" /\ o \in Observations \cup {NoEntry} BY DEF Record, TypeInv, SendersOK
    <3>2. o # NoEntry BY <3>1 DEF TypeInv, SendersOK
    <3> QED BY <3>1, <3>2
  <2>2. table'[b] = mergeRecord(table[b], o) BY <1>1, <1>2, <1>4
  <2>3. b[2] = o.status /\ b[3] = hour BY <1>4
  <2>4. hour \in Nat BY HourFacts DEF TypeInv, StorageInv, AlarmNear
  <2> HIDE DEF o
  <2> QED BY <1>1, <2>1, <2>2, <2>3, <2>4, MergeFacts DEF RowOK
<1> QED BY <1>3, <1>4

LEMMA TypeInit == Init => TypeInv
<1> SUFFICES ASSUME Init PROVE TypeInv OBVIOUS
<1>1. \A b \in Buckets : RowOK(b)
  BY HourFacts, StatisticsAssumption, NoRowOK DEF Init, RowOK, NoRow
<1>2. SendersOK BY DEF Init, SendersOK
<1> QED BY <1>1, <1>2, StorageInit DEF TypeInv, Init

LEMMA TypeNext == TypeInv /\ [Next]_vars => TypeInv'
<1> SUFFICES ASSUME TypeInv, [Next]_vars PROVE TypeInv' OBVIOUS
<1>0. StorageInv' BY StorageNext DEF TypeInv
<1>a. hour \in Nat /\ \A b \in Buckets : b[3] \in Nat
  BY HourFacts DEF TypeInv, StorageInv, AlarmNear
<1>b. ASSUME UNCHANGED <<table, hour>> PROVE \A b \in Buckets : RowOK(b)'
  BY <1>b DEF TypeInv, RowOK
<1>1. ASSUME NEW r \in Senders, NEW o \in Observations, Send(r, o) PROVE TypeInv'
  <2>1. o # NoEntry BY ObservationAssumption DEF NoEntry
  <2>2. SendersOK' BY <1>1, <2>1 DEF Send, TypeInv, SendersOK
  <2> QED BY <1>0, <1>b, <1>1, <2>2 DEF Send, TypeInv
<1>2. ASSUME NEW r \in Senders, Record(r) PROVE TypeInv'
  <2>1. SendersOK' BY <1>2 DEF Record, TypeInv, SendersOK
  <2>2. initialized' \in BOOLEAN BY <1>2 DEF Record, EnsureInitialized
  <2> QED BY <1>0, <1>2, <2>1, <2>2, RecordRows DEF TypeInv
<1>3. ASSUME NEW r \in Senders, Lose(r) PROVE TypeInv'
  <2>1. SendersOK' BY <1>3 DEF Lose, TypeInv, SendersOK
  <2> QED BY <1>0, <1>b, <1>3, <2>1 DEF Lose, TypeInv
<1>4. CASE Query
  BY <1>0, <1>b, <1>4 DEF Query, EnsureInitialized, TypeInv, SendersOK
<1>5. CASE Retain
  <2>1. \A b \in Buckets : table'[b] \in {table[b], NoRow} /\ hour' = hour
    BY <1>5 DEF Retain, DeletedBut
  <2>2. ASSUME NEW b \in Buckets PROVE RowOK(b)'
    <3>1. CASE table'[b] = table[b] BY <2>1, <3>1 DEF TypeInv, RowOK
    <3>2. CASE table'[b] = NoRow
      <4>1. /\ NoRow.errors <= NoRow.count /\ Len(NoRow.samples) <= SampleLimit
            /\ NoRow.samples = <<>> /\ NoRow.total = 0
        BY StatisticsAssumption DEF NoRow
      <4> QED BY <3>2, <4>1, NoRowOK DEF RowOK
    <3> QED BY <2>1, <3>1, <3>2
  <2> QED BY <1>0, <1>5, <2>2 DEF Retain, TypeInv, SendersOK
<1>6. CASE Evict BY <1>0, <1>b, <1>6 DEF Evict, TypeInv, SendersOK
<1>7. CASE Tick
  <2>1. table' = table /\ hour' = hour + 1 BY <1>7 DEF Tick
  <2>2. \A b \in Buckets : b[3] > hour' => b[3] > hour BY <1>a, <2>1
  <2>3. \A b \in Buckets : RowOK(b)' BY <2>1, <2>2 DEF TypeInv, RowOK
  <2> QED BY <1>0, <1>7, <2>3 DEF Tick, TypeInv, SendersOK
<1>8. CASE UNCHANGED vars BY <1>0, <1>b, <1>8 DEF vars, TypeInv, SendersOK
<1> QED BY <1>1, <1>2, <1>3, <1>4, <1>5, <1>6, <1>7, <1>8 DEF Next

\* The object's rows are well formed: mergeRecord never counts more errors than
\* requests, never keeps more than SAMPLE_LIMIT samples, and never mixes hits,
\* which have no duration, into those of upstream.
THEOREM TypeCorrect == Spec => []StatsTypeOK
<1>1. TypeInv => StatsTypeOK
  BY DEF TypeInv, StatsTypeOK, RowOK, StorageInv, AlarmNear, SendersOK
<1> QED BY <1>1, TypeInit, TypeNext, PTL DEF Spec

-----------------------------------------------------------------------------
(* What a row of a bucket counts, as long as the retention keeps it.       *)

Place(i) == <<Seen(i).key, Seen(i).status, arrived[i].hour>>
Of(b) == {i \in DOMAIN arrived : Place(i) = b}
Wrong(A) == {i \in A : Seen(i).error}
Took == [i \in DOMAIN arrived |-> Seen(i).ms]

RowExact(b) == b[3] + Retention >= hour =>
                 /\ table[b].count = Cardinality(Of(b))
                 /\ table[b].errors = Cardinality(Wrong(Of(b)))
                 /\ table[b].total = Total(Took, Of(b))

ArrivedOK == /\ arrived \in Seq([sender : Senders, hour : Hours])
             /\ \A i \in DOMAIN arrived : pc[arrived[i].sender] = "recorded"

ExactInv == TypeInv /\ ArrivedOK /\ \A b \in Buckets : RowExact(b)

LEMMA ArrivedFacts ==
  ASSUME TypeInv, ArrivedOK
  PROVE  /\ Len(arrived) \in Nat /\ DOMAIN arrived = 1..Len(arrived)
         /\ IsFiniteSet(DOMAIN arrived) /\ Weighs(Took, DOMAIN arrived)
         /\ \A i \in DOMAIN arrived :
              /\ arrived[i].sender \in Senders /\ arrived[i].hour \in Hours
              /\ Seen(i) \in Observations /\ Place(i) \in Buckets
<1>1. Len(arrived) \in Nat /\ DOMAIN arrived = 1..Len(arrived) BY DEF ArrivedOK
<1>2. IsFiniteSet(1..Len(arrived))
  <2>1. Len(arrived) \in Int /\ 1 \in Int BY <1>1
  <2> QED BY <2>1, FS_Interval
<1>3. ASSUME NEW i \in DOMAIN arrived
      PROVE  /\ arrived[i].sender \in Senders /\ arrived[i].hour \in Hours
             /\ Seen(i) \in Observations /\ Place(i) \in Buckets
  <2>1. arrived[i] \in [sender : Senders, hour : Hours] /\ pc[arrived[i].sender] = "recorded"
    BY <1>1, ElementOfSeq DEF ArrivedOK
  <2>2. PICK r \in Senders : r = arrived[i].sender BY <2>1
  <2>3. entry[r] \in Observations
    <3>1. entry[r] \in Observations \cup {NoEntry} /\ (pc[r] = "idle" <=> entry[r] = NoEntry)
      BY DEF TypeInv, SendersOK
    <3> QED BY <2>1, <2>2, <3>1
  <2>4. Seen(i) \in Observations BY <2>2, <2>3 DEF Seen
  <2>5. Seen(i).key \in Keys /\ Seen(i).status \in Status
    BY <2>4, ObservationAssumption DEF Keys, Status
  <2> QED BY <2>1, <2>4, <2>5 DEF Place, Buckets
<1>4. Weighs(Took, DOMAIN arrived) BY <1>3, ObservationAssumption DEF Weighs, Took
<1> QED BY <1>1, <1>2, <1>3, <1>4

\* A step in which nothing arrives.
LEMMA SameArrived ==
  ASSUME ArrivedOK, UNCHANGED arrived,
         \A r \in Senders : pc[r] = "recorded" => pc'[r] = "recorded" /\ entry'[r] = entry[r],
         NEW b
  PROVE  /\ ArrivedOK'
         /\ table'[b] = table[b] /\ RowExact(b) /\ (b[3] + Retention >= hour' => b[3] + Retention >= hour)
              => RowExact(b)'
<1>1. \A i \in DOMAIN arrived :
        arrived[i].sender \in Senders /\ pc[arrived[i].sender] = "recorded"
  <2> SUFFICES ASSUME NEW i \in DOMAIN arrived PROVE arrived[i].sender \in Senders
    BY DEF ArrivedOK
  <2>1. arrived \in Seq([sender : Senders, hour : Hours]) /\ i \in 1..Len(arrived)
    BY DEF ArrivedOK
  <2>2. arrived[i] \in [sender : Senders, hour : Hours] BY <2>1, ElementOfSeq
  <2> QED BY <2>2
<1>2. \A i \in DOMAIN arrived : Seen(i)' = Seen(i) BY <1>1 DEF Seen
<1>3. \A i \in DOMAIN arrived : Place(i)' = Place(i) BY <1>2 DEF Place
<1>4. Of(b)' = Of(b) BY <1>3 DEF Of
<1>5. Wrong(Of(b))' = Wrong(Of(b)) BY <1>2, <1>4 DEF Wrong, Of
<1>6. Took' = Took BY <1>2 DEF Took
<1>7. ArrivedOK' BY <1>1 DEF ArrivedOK
<1> QED BY <1>4, <1>5, <1>6, <1>7 DEF RowExact

\* An observation is added to the row of its key, its status and the hour.
LEMMA RecordExact ==
  ASSUME ExactInv, NEW r \in Senders, Record(r)
  PROVE  ArrivedOK' /\ \A b \in Buckets : RowExact(b)'
<1>1. PICK o, n, h : o = entry[r] /\ n = Len(arrived) /\ h = hour OBVIOUS
<1> DEFINE k == <<o.key, o.status, h>>
<1>2. /\ pc[r] = "sent" /\ pc' = [pc EXCEPT ![r] = "recorded"] /\ entry' = entry /\ hour' = h
      /\ table' = [table EXCEPT ![k] = mergeRecord(table[k], o)]
      /\ arrived' = Append(arrived, [sender |-> r, hour |-> h])
  BY <1>1 DEF Record
<1>3. TypeInv /\ ArrivedOK /\ \A b \in Buckets : RowExact(b) BY DEF ExactInv
<1>4. h \in Hours /\ h \in Nat BY <1>1, <1>3, HourFacts DEF TypeInv, StorageInv, AlarmNear
<1>5. o \in Observations
  <2>1. o \in Observations \cup {NoEntry} /\ (pc[r] = "idle" <=> o = NoEntry)
    BY <1>1, <1>3 DEF TypeInv, SendersOK
  <2> QED BY <1>2, <2>1
<1>6. /\ n \in Nat /\ DOMAIN arrived = 1..n /\ DOMAIN arrived' = 1..(n + 1)
      /\ \A i \in 1..n : arrived'[i] = arrived[i]
      /\ arrived'[n + 1] = [sender |-> r, hour |-> h]
      /\ arrived' \in Seq([sender : Senders, hour : Hours])
  BY <1>1, <1>2, <1>3, <1>4 DEF ArrivedOK
<1>7. pc \in [Senders -> {"idle", "sent", "recorded", "lost"}]
  BY <1>3 DEF TypeInv, SendersOK
<1>8. ArrivedOK'
  <2>1. ASSUME NEW i \in 1..(n + 1) PROVE pc'[arrived'[i].sender] = "recorded"
    <3>1. CASE i = n + 1 BY <1>2, <1>6, <1>7, <3>1
    <3>2. CASE i # n + 1
      <4>1. i \in 1..n BY <1>6, <3>2
      <4>2. pc[arrived[i].sender] = "recorded" BY <1>3, <1>6, <4>1 DEF ArrivedOK
      <4> QED BY <1>2, <1>6, <1>7, <4>1, <4>2
    <3> QED BY <3>1, <3>2
  <2> QED BY <1>6, <2>1 DEF ArrivedOK
<1>9. /\ \A i \in 1..n : Seen(i)' = Seen(i) /\ Place(i)' = Place(i)
      /\ Seen(n + 1)' = o /\ Place(n + 1)' = k
  <2>1. \A i \in 1..n : Seen(i)' = Seen(i) BY <1>2, <1>6 DEF Seen
  <2>2. Seen(n + 1)' = o BY <1>1, <1>2, <1>6 DEF Seen
  <2> QED BY <1>6, <2>1, <2>2 DEF Place
<1>10. n + 1 \notin 1..n /\ 1..(n + 1) = 1..n \cup {n + 1} BY <1>6
<1> HIDE DEF k
<1>11. \A b : /\ Of(b) \in SUBSET (1..n)
              /\ Of(b)' = IF b = k THEN Of(b) \cup {n + 1} ELSE Of(b)
  BY <1>6, <1>9, <1>10 DEF Of
<1>12. IsFiniteSet(1..n) /\ Weighs(Took, 1..n) BY <1>3, <1>6, ArrivedFacts
<1>13. PICK took, more : took = Took /\ more = Took' OBVIOUS
<1>14. /\ Weighs(more, 1..(n + 1)) /\ more[n + 1] = o.ms
       /\ \A i \in 1..n : more[i] = took[i] /\ took[i] \in Nat
  <2>1. \A i \in 1..n : took[i] \in Nat BY <1>12, <1>13 DEF Weighs
  <2>2. \A i \in 1..n : took[i] = Seen(i).ms BY <1>6, <1>13 DEF Took
  <2>3. \A i \in 1..(n + 1) : more[i] = Seen(i)'.ms BY <1>6, <1>13 DEF Took
  <2>4. \A i \in 1..n : more[i] = took[i] BY <1>9, <1>10, <2>2, <2>3
  <2>5. more[n + 1] = o.ms /\ o.ms \in Nat BY <1>5, <1>9, <1>10, <2>3, ObservationAssumption
  <2> QED BY <1>10, <2>1, <2>4, <2>5 DEF Weighs
<1>15. \A A \in SUBSET (1..n) : Total(more, A) = Total(took, A)
  <2> SUFFICES ASSUME NEW A \in SUBSET (1..n) PROVE Total(more, A) = Total(took, A) OBVIOUS
  <2>1. IsFiniteSet(A) BY <1>12, FS_Subset
  <2>2. Weighs(took, A) /\ \A i \in A : more[i] = took[i] BY <1>14 DEF Weighs
  <2> QED BY <2>1, <2>2, TotalSame
<1>16. SumsUp(more, 1..(n + 1))
  <2>1. IsFiniteSet(1..(n + 1))
    <3>1. 1 \in Int /\ n + 1 \in Int BY <1>6
    <3> QED BY <3>1, FS_Interval
  <2> QED BY <1>14, <2>1, TotalSteps
<1>17. ASSUME NEW b \in Buckets, b # k PROVE RowExact(b)'
  <2>1. table'[b] = table[b] /\ hour' = hour
    BY <1>1, <1>2, <1>3, <1>17 DEF TypeInv, StorageInv, RowsWatched
  <2>2. Of(b)' = Of(b) /\ Of(b) \in SUBSET (1..n) BY <1>11, <1>17
  <2>3. Wrong(Of(b))' = Wrong(Of(b)) BY <1>9, <2>2 DEF Wrong
  <2>4. Total(Took, Of(b))' = Total(Took, Of(b)) BY <1>13, <1>15, <2>2
  <2> QED BY <1>3, <2>1, <2>2, <2>3, <2>4 DEF RowExact
<1>18. ASSUME k \in Buckets PROVE RowExact(k)'
  <2>1. k[3] = h BY DEF k
  <2>2. h + Retention >= hour BY <1>1, <1>4, StatisticsAssumption
  <2>3. PICK row : row = table[k] OBVIOUS
  <2>4. table'[k] = mergeRecord(row, o)
    BY <1>2, <1>3, <1>18, <2>3 DEF TypeInv, StorageInv, RowsWatched
  <2>5. PICK old : old = Of(k) OBVIOUS
  <2>6. old \in SUBSET (1..n) /\ Of(k)' = old \cup {n + 1} BY <1>11, <2>5
  <2>7. /\ row.count = Cardinality(old) /\ row.errors = Cardinality(Wrong(old))
        /\ row.total = Total(took, old)
    BY <1>3, <1>13, <1>18, <2>1, <2>2, <2>3, <2>5 DEF RowExact
  <2>8. /\ table'[k].count = row.count + 1
        /\ table'[k].errors = row.errors + (IF o.error THEN 1 ELSE 0)
        /\ table'[k].total = row.total + (IF o.status = "MISS" THEN o.ms ELSE 0)
    BY <2>4 DEF mergeRecord
  <2>9. IsFiniteSet(old) /\ n + 1 \notin old BY <1>10, <1>12, <2>6, FS_Subset
  <2>10. Cardinality(old \cup {n + 1}) = Cardinality(old) + 1 BY <2>9, FS_AddElement
  <2>11. Cardinality(Wrong(Of(k))') = Cardinality(Wrong(old)) + (IF o.error THEN 1 ELSE 0)
    <3>1. PICK wrong : wrong = Wrong(old) OBVIOUS
    <3>2. Wrong(Of(k))' = IF o.error THEN wrong \cup {n + 1} ELSE wrong
      BY <1>9, <2>6, <3>1 DEF Wrong
    <3>3. IsFiniteSet(wrong) /\ n + 1 \notin wrong
      <4>1. wrong \in SUBSET old BY <3>1 DEF Wrong
      <4> QED BY <2>9, <4>1, FS_Subset
    <3>4. Cardinality(wrong) \in Nat /\ Cardinality(wrong \cup {n + 1}) = Cardinality(wrong) + 1
      BY <3>3, FS_AddElement, FS_CardinalityType
    <3> QED BY <3>1, <3>2, <3>4
  <2>12. Total(more, old \cup {n + 1}) = Total(took, old) + o.ms
    <3>1. old \cup {n + 1} \in SUBSET (1..(n + 1)) /\ (old \cup {n + 1}) \ {n + 1} = old
      BY <1>10, <2>6, <2>9
    <3>2. Total(more, old \cup {n + 1}) = more[n + 1] + Total(more, old)
      BY <1>16, <3>1 DEF SumsUp
    <3>3. Total(more, old) \in Nat /\ o.ms \in Nat
      <4>1. old \in SUBSET (1..(n + 1)) BY <1>10, <2>6
      <4> QED BY <1>5, <1>16, <4>1, ObservationAssumption DEF SumsUp
    <3> QED BY <1>14, <1>15, <2>6, <3>2, <3>3
  <2>13. o.status \in {"HIT", "MISS"} /\ (o.status = "HIT" => o.ms = 0)
    BY <1>5, ObservationAssumption
  <2>14. table'[k].total = Total(took, old) + o.ms BY <2>7, <2>8, <2>13
  <2> QED BY <1>13, <2>6, <2>7, <2>8, <2>10, <2>11, <2>12, <2>14 DEF RowExact
<1> QED BY <1>8, <1>17, <1>18

LEMMA ExactNext == ExactInv /\ [Next]_vars => ExactInv'
<1> SUFFICES ASSUME ExactInv, [Next]_vars PROVE ExactInv' OBVIOUS
<1>1. TypeInv' /\ hour \in Nat BY TypeNext, HourFacts DEF ExactInv, TypeInv, StorageInv, AlarmNear
<1>2. TypeInv /\ ArrivedOK /\ pc \in [Senders -> {"idle", "sent", "recorded", "lost"}]
      /\ \A b \in Buckets : b[3] \in Nat
  BY HourFacts DEF ExactInv, TypeInv, SendersOK
<1>3. ASSUME UNCHANGED arrived, hour' \in {hour, hour + 1},
             \A r \in Senders : pc[r] = "recorded" => pc'[r] = "recorded" /\ entry'[r] = entry[r],
             \A b \in Buckets : b[3] + Retention >= hour' => table'[b] = table[b]
      PROVE  ExactInv'
  <2>1. ArrivedOK' BY <1>2, <1>3, SameArrived
  <2>2. ASSUME NEW b \in Buckets PROVE RowExact(b)'
    <3>1. CASE b[3] + Retention >= hour'
      <4>1. table'[b] = table[b] /\ RowExact(b) BY <1>3, <3>1 DEF ExactInv
      <4>2. b[3] + Retention >= hour
        BY <1>1, <1>2, <1>3, <3>1, StatisticsAssumption
      <4> QED BY <1>2, <1>3, <4>1, <4>2, SameArrived
    <3>2. CASE ~ (b[3] + Retention >= hour') BY <3>2 DEF RowExact
    <3> QED BY <3>1, <3>2
  <2> QED BY <1>1, <2>1, <2>2 DEF ExactInv
<1>4. ASSUME NEW r \in Senders, NEW o \in Observations, Send(r, o) PROVE ExactInv'
  BY <1>2, <1>3, <1>4 DEF Send
<1>5. ASSUME NEW r \in Senders, Record(r) PROVE ExactInv'
  BY <1>1, <1>5, RecordExact DEF ExactInv
<1>6. ASSUME NEW r \in Senders, Lose(r) PROVE ExactInv' BY <1>2, <1>3, <1>6 DEF Lose
<1>7. CASE Query BY <1>3, <1>7 DEF Query
<1>8. CASE Retain
  <2>1. /\ table' = DeletedBut(Kept) /\ UNCHANGED <<hour, pc, entry, arrived>>
    BY <1>8 DEF Retain
  <2>2. ASSUME NEW b \in Buckets, b[3] + Retention >= hour' PROVE table'[b] = table[b]
    <3>1. b[3] \in Kept BY <2>1, <2>2 DEF Kept, Buckets
    <3> QED BY <2>1, <3>1 DEF DeletedBut
  <2> QED BY <1>3, <2>1, <2>2
<1>9. CASE Evict BY <1>3, <1>9 DEF Evict
<1>10. CASE Tick BY <1>3, <1>10 DEF Tick
<1>11. CASE UNCHANGED vars BY <1>3, <1>11 DEF vars
<1> QED BY <1>4, <1>5, <1>6, <1>7, <1>8, <1>9, <1>10, <1>11 DEF Next

LEMMA ExactInit == Init => ExactInv
<1> SUFFICES ASSUME Init PROVE ExactInv OBVIOUS
<1>1. TypeInv BY TypeInit
<1>2. arrived = <<>> /\ DOMAIN <<>> = {} /\ <<>> \in Seq([sender : Senders, hour : Hours])
  BY DEF Init
<1>3. ArrivedOK BY <1>2 DEF ArrivedOK
<1>4. ASSUME NEW b \in Buckets PROVE RowExact(b)
  <2>1. Of(b) = {} /\ Wrong({}) = {} BY <1>2 DEF Of, Wrong
  <2>2. Weighs(Took, {}) BY DEF Weighs
  <2>3. SumsUp(Took, {}) BY <2>2, FS_EmptySet, TotalSteps
  <2>4. Total(Took, {}) = 0
    <3>1. {} \in SUBSET {} OBVIOUS
    <3> QED BY <2>3, <3>1 DEF SumsUp
  <2>5. Cardinality({}) = 0 BY FS_EmptySet
  <2>6. table[b] = NoRow BY DEF Init
  <2>7. NoRow.count = 0 /\ NoRow.errors = 0 /\ NoRow.total = 0 BY DEF NoRow
  <2> QED BY <2>1, <2>4, <2>5, <2>6, <2>7 DEF RowExact
<1> QED BY <1>1, <1>3, <1>4 DEF ExactInv

-----------------------------------------------------------------------------
(* What a query adds up.                                                   *)

LEMMA SumsAreTotals ==
  ASSUME NEW R
  PROVE  /\ Count(R) = Total([b \in R |-> table[b].count], R)
         /\ Errors(R) = Total([b \in R |-> table[b].errors], R)
         /\ Milliseconds(R) = Total([b \in R |-> table[b].total], R)
         /\ MapThenSumSet(LAMBDA i : Seen(i).ms, R) = Total([i \in R |-> Seen(i).ms], R)
BY DEF Count, Errors, Milliseconds, MapThenSumSet, MapThenFoldSet, Total, Adds

Fell(R) == {i \in DOMAIN arrived : Place(i) \in R}

\* Some of the rows of a query together count the observations that fell into them.
LEMMA RowsCount ==
  ASSUME ExactInv, NEW keys \in SUBSET Keys, NEW w \in Windows,
         NEW R \in SUBSET Rows(keys, w)
  PROVE  /\ R = {Place(i) : i \in Fell(R)} /\ Fell(R) \in SUBSET Counted(keys, w)
         /\ IsFiniteSet(R)
         /\ Count(R) = Cardinality(Fell(R))
         /\ Errors(R) = Cardinality(Wrong(Fell(R)))
         /\ Milliseconds(R) = Total(Took, Fell(R))
<1>0. PICK A : A = Fell(R) OBVIOUS
<1>1. /\ TypeInv /\ ArrivedOK /\ \A b \in Buckets : RowExact(b)
  BY DEF ExactInv
<1>2. /\ IsFiniteSet(DOMAIN arrived) /\ Weighs(Took, DOMAIN arrived) /\ A \in SUBSET DOMAIN arrived
  BY <1>0, <1>1, ArrivedFacts DEF Fell
<1>3. IsFiniteSet(A) BY <1>2, FS_Subset
\* The retention keeps what a window may ask for.
<1>4. ASSUME NEW b \in R
      PROVE  /\ table[b].count = Cardinality(Of(b))
             /\ table[b].errors = Cardinality(Wrong(Of(b)))
             /\ table[b].total = Total(Took, Of(b))
             /\ Of(b) = {i \in A : Place(i) = b}
             /\ table[b].count > 0
  <2>1. b \in Buckets /\ b[1] \in keys /\ InWindow(b[3], w) /\ table[b].count > 0
    BY DEF Rows
  <2>2. b[3] \in Nat /\ hour \in Nat /\ w \in Nat /\ w <= Retention /\ Retention \in Nat
    BY <1>1, <2>1, HourFacts, StatisticsAssumption
    DEF TypeInv, StorageInv, AlarmNear, Windows
  <2>3. b[3] + Retention >= hour BY <2>1, <2>2 DEF InWindow
  <2>4. Of(b) = {i \in A : Place(i) = b} BY <1>0 DEF Of, Fell
  <2> QED BY <1>1, <2>1, <2>3, <2>4 DEF RowExact
<1> DEFINE class == [i \in A |-> Place(i)]
<1>5. class \in [A -> R] BY <1>0 DEF Fell
<1>6. ASSUME NEW b \in R PROVE \E i \in A : Place(i) = b
  <2>1. PICK like : like = Of(b) OBVIOUS
  <2>2. Cardinality(like) > 0 BY <1>4, <2>1
  <2>3. like # {} BY <2>2, FS_EmptySet
  <2> QED BY <1>4, <2>1, <2>3
<1>7. R = {Place(i) : i \in A} BY <1>0, <1>6 DEF Fell
<1>8. IsFiniteSet(R)
  <2>1. class \in Surjection(A, R) BY <1>5, <1>6 DEF Surjection
  <2> HIDE DEF class
  <2> QED BY <1>3, <2>1, FS_Surjection
<1>9. \A b \in R : Of(b) = {i \in A : class[i] = b} BY <1>4
<1>10. ASSUME NEW b \in R
       PROVE  /\ table[b].count \in Nat /\ table[b].errors \in Nat /\ table[b].total \in Nat
  <2>1. b \in Buckets BY DEF Rows
  <2>2. table[b] \in RowType BY <1>1, <2>1 DEF TypeInv, RowOK
  <2> QED BY <2>2 DEF RowType
<1> HIDE DEF class
<1>11. Count(R) = Cardinality(A)
  <2> DEFINE f == [b \in R |-> table[b].count]
  <2>1. f \in [R -> Nat] BY <1>10
  <2>2. \A b \in R : f[b] = Cardinality({i \in A : class[i] = b}) BY <1>4, <1>9
  <2> HIDE DEF f
  <2>3. Total(f, R) = Cardinality(A) BY <1>3, <1>5, <1>8, <2>1, <2>2, TotalOfClasses
  <2> QED BY <2>3, SumsAreTotals DEF f
<1>12. Errors(R) = Cardinality(Wrong(A))
  <2> DEFINE f == [b \in R |-> table[b].errors]
             wrong == Wrong(A)
             sort == [i \in wrong |-> class[i]]
  <2>1. f \in [R -> Nat] BY <1>10
  <2>2. wrong \in SUBSET A /\ sort \in [wrong -> R] BY <1>5 DEF Wrong
  <2>3. \A b \in R : Wrong(Of(b)) = {i \in wrong : sort[i] = b} BY <1>9 DEF Wrong
  <2>4. \A b \in R : f[b] = Cardinality({i \in wrong : sort[i] = b}) BY <1>4, <2>3
  <2>5. IsFiniteSet(wrong) BY <1>3, <2>2, FS_Subset
  <2> HIDE DEF f, wrong, sort
  <2>6. Total(f, R) = Cardinality(wrong) BY <1>8, <2>1, <2>2, <2>4, <2>5, TotalOfClasses
  <2> QED BY <2>6, SumsAreTotals DEF f, wrong
<1>13. Milliseconds(R) = Total(Took, A)
  <2> DEFINE f == [b \in R |-> table[b].total]
  <2>1. \A b \in R : f[b] = Total(Took, {i \in A : class[i] = b}) BY <1>4, <1>9
  <2>2. Weighs(Took, A) BY <1>2 DEF Weighs
  <2> HIDE DEF f
  <2>3. Total(f, R) = Total(Took, A) BY <1>3, <1>5, <1>8, <2>1, <2>2, TotalOfTotals
  <2> QED BY <2>3, SumsAreTotals DEF f
<1>14. A \in SUBSET Counted(keys, w)
  <2> SUFFICES ASSUME NEW i \in A PROVE i \in Counted(keys, w) OBVIOUS
  <2>1. PICK b \in R : Place(i) = b BY <1>0 DEF Fell
  <2>2. b[1] \in keys /\ InWindow(b[3], w) BY DEF Rows
  <2>3. Seen(i).key = b[1] /\ arrived[i].hour = b[3] BY <2>1 DEF Place
  <2> QED BY <1>2, <2>2, <2>3 DEF Counted
<1> QED BY <1>0, <1>7, <1>8, <1>11, <1>12, <1>13, <1>14

\* Every observation in a window is in a row of it.
LEMMA SeenInRows ==
  ASSUME ExactInv, NEW keys \in SUBSET Keys, NEW w \in Windows, NEW i \in Counted(keys, w)
  PROVE  Place(i) \in Rows(keys, w)
<1>1. TypeInv /\ ArrivedOK BY DEF ExactInv
<1>2. i \in DOMAIN arrived /\ Seen(i).key \in keys /\ InWindow(arrived[i].hour, w)
  BY DEF Counted
<1>3. PICK b \in Buckets : b = Place(i) BY <1>1, <1>2, ArrivedFacts
<1>4. b[1] \in keys /\ InWindow(b[3], w) BY <1>2, <1>3 DEF Place
<1>5. b[3] \in Nat /\ hour \in Nat /\ w \in Nat /\ w <= Retention /\ Retention \in Nat
  BY <1>1, HourFacts, StatisticsAssumption DEF TypeInv, StorageInv, AlarmNear, Windows
<1>6. b[3] + Retention >= hour BY <1>4, <1>5 DEF InWindow
<1>7. PICK like : like = Of(b) OBVIOUS
<1>8. table[b].count = Cardinality(like) BY <1>6, <1>7 DEF ExactInv, RowExact
<1>9. i \in like /\ IsFiniteSet(like)
  <2>1. like \in SUBSET DOMAIN arrived BY <1>7 DEF Of
  <2>2. IsFiniteSet(DOMAIN arrived) BY <1>1, ArrivedFacts
  <2>3. i \in like BY <1>2, <1>3, <1>7 DEF Of
  <2> QED BY <2>1, <2>2, <2>3, FS_Subset
<1>10. Cardinality(like) \in Nat /\ Cardinality(like) # 0
  BY <1>9, FS_CardinalityType, FS_EmptySet
<1>11. table[b].count > 0 BY <1>8, <1>10
<1> QED BY <1>3, <1>4, <1>11 DEF Rows

LEMMA WindowShown ==
  ASSUME ExactInv, NEW keys \in SUBSET Keys, NEW w \in Windows
  PROVE  LET rows == Rows(keys, w)
             seen == Counted(keys, w)
         IN  /\ Count(rows) = Cardinality(seen)
             /\ Count({b \in rows : b[2] = "HIT"}) = Cardinality({i \in seen : Seen(i).status = "HIT"})
             /\ Count({b \in rows : b[2] = "MISS"}) = Cardinality({i \in seen : Seen(i).status = "MISS"})
             /\ Milliseconds(rows) = MapThenSumSet(LAMBDA i : Seen(i).ms, seen)
             /\ Errors(rows) = Cardinality({i \in seen : Seen(i).error})
             /\ {b[3] : b \in rows} = {arrived[i].hour : i \in seen}
             /\ \A h : LET now == {i \in seen : arrived[i].hour = h}
                            those == {b \in rows : b[3] = h}
                        IN  /\ Count(those) = Cardinality(now)
                            /\ Errors(those) = Cardinality({i \in now : Seen(i).error})
<1>1. PICK rows, seen : rows = Rows(keys, w) /\ seen = Counted(keys, w) OBVIOUS
<1>2. seen \in SUBSET DOMAIN arrived /\ \A i \in seen : Place(i) \in rows
  BY <1>1, SeenInRows DEF Counted
<1>3. ASSUME NEW R \in SUBSET rows
      PROVE  /\ R = {Place(i) : i \in Fell(R)} /\ Fell(R) = {i \in seen : Place(i) \in R}
             /\ Count(R) = Cardinality(Fell(R))
             /\ Errors(R) = Cardinality(Wrong(Fell(R)))
             /\ Milliseconds(R) = Total(Took, Fell(R))
  <2>1. R \in SUBSET Rows(keys, w) BY <1>1
  <2>2. Fell(R) \in SUBSET seen BY <1>1, <2>1, RowsCount
  <2>3. Fell(R) = {i \in seen : Place(i) \in R} BY <1>2, <2>2 DEF Fell
  <2> QED BY <2>1, <2>3, RowsCount
<1>4. Fell(rows) = seen BY <1>2, <1>3
<1>5. ASSUME NEW status
      PROVE  Fell({b \in rows : b[2] = status}) = {i \in seen : Seen(i).status = status}
  <2> DEFINE R == {b \in rows : b[2] = status}
  <2>1. Fell(R) = {i \in seen : Place(i) \in R}
    <3>1. R \in SUBSET rows OBVIOUS
    <3> HIDE DEF R
    <3> QED BY <1>3, <3>1
  <2>2. \A i : Place(i)[2] = Seen(i).status BY DEF Place
  <2>3. \A i \in seen : Place(i) \in R <=> Seen(i).status = status BY <1>2, <2>2
  <2> HIDE DEF R
  <2>4. Fell(R) = {i \in seen : Seen(i).status = status} BY <2>1, <2>3
  <2> QED BY <2>4 DEF R
<1>6. ASSUME NEW h
      PROVE  Fell({b \in rows : b[3] = h}) = {i \in seen : arrived[i].hour = h}
  <2> DEFINE R == {b \in rows : b[3] = h}
  <2>1. Fell(R) = {i \in seen : Place(i) \in R}
    <3>1. R \in SUBSET rows OBVIOUS
    <3> HIDE DEF R
    <3> QED BY <1>3, <3>1
  <2>2. \A i : Place(i)[3] = arrived[i].hour BY DEF Place
  <2>3. \A i \in seen : Place(i) \in R <=> arrived[i].hour = h BY <1>2, <2>2
  <2> HIDE DEF R
  <2>4. Fell(R) = {i \in seen : arrived[i].hour = h} BY <2>1, <2>3
  <2> QED BY <2>4 DEF R
<1>7. Count(rows) = Cardinality(seen) /\ Errors(rows) = Cardinality(Wrong(seen))
  BY <1>3, <1>4
<1>8. ASSUME NEW status
      PROVE  Count({b \in rows : b[2] = status}) = Cardinality({i \in seen : Seen(i).status = status})
  BY <1>3, <1>5
<1>9. Milliseconds(rows) = MapThenSumSet(LAMBDA i : Seen(i).ms, seen)
  <2> DEFINE ms == [i \in seen |-> Seen(i).ms]
  <2>1. IsFiniteSet(seen) /\ Weighs(Took, seen)
    <3>1. IsFiniteSet(DOMAIN arrived) /\ Weighs(Took, DOMAIN arrived)
      BY ArrivedFacts DEF ExactInv
    <3> QED BY <1>2, <3>1, FS_Subset DEF Weighs
  <2>2. \A i \in seen : ms[i] = Took[i] BY <1>2 DEF Took
  <2> HIDE DEF ms
  <2>3. Total(Took, seen) = Total(ms, seen) BY <2>1, <2>2, TotalSame
  <2>4. Milliseconds(rows) = Total(Took, seen) BY <1>3, <1>4
  <2> QED BY <2>3, <2>4, SumsAreTotals DEF ms
<1>10. {b[3] : b \in rows} = {arrived[i].hour : i \in seen}
  <2>1. \A i \in seen : Place(i)[3] = arrived[i].hour BY DEF Place
  <2>2. rows = {Place(i) : i \in seen} BY <1>3, <1>4
  <2> QED BY <2>1, <2>2
<1>11. ASSUME NEW h
       PROVE  /\ Count({b \in rows : b[3] = h}) = Cardinality({i \in seen : arrived[i].hour = h})
              /\ Errors({b \in rows : b[3] = h}) = Cardinality(Wrong({i \in seen : arrived[i].hour = h}))
  BY <1>3, <1>6
<1> QED BY <1>1, <1>7, <1>8, <1>9, <1>10, <1>11 DEF Wrong

\* Whatever the alarm has deleted, however late, and however often the object
\* was evicted: a query of a window that the API admits counts every observation
\* that was recorded in it, by method and chain, cache status, error, duration
\* and hour, and no other.
THEOREM WindowsAreExact == Spec => []WindowExact
<1>1. ExactInv => WindowExact
  <2> SUFFICES ASSUME ExactInv, NEW keys \in SUBSET Keys, NEW w \in Windows
               PROVE  LET stats == Stats(keys, w)
                          seen == Counted(keys, w)
                      IN /\ stats.summary =
                              [totalRequests |-> Cardinality(seen),
                               cacheHits |-> Cardinality({i \in seen : Seen(i).status = "HIT"}),
                               upstreamCount |-> Cardinality({i \in seen : Seen(i).status = "MISS"}),
                               totalMs |-> MapThenSumSet(LAMBDA i : Seen(i).ms, seen),
                               errorCount |-> Cardinality({i \in seen : Seen(i).error})]
                         /\ DOMAIN stats.periods = {arrived[i].hour : i \in seen}
                         /\ \A h \in DOMAIN stats.periods :
                              LET now == {i \in seen : arrived[i].hour = h}
                              IN  /\ stats.periods[h].count = Cardinality(now)
                                  /\ stats.periods[h].errorCount = Cardinality({i \in now : Seen(i).error})
    BY DEF WindowExact
  <2> DEFINE rows == Rows(keys, w)
             stats == Stats(keys, w)
  <2>1. stats.summary = Summary(rows) BY DEF Stats
  <2>2. stats.periods = [h \in {b[3] : b \in rows} |-> Period({b \in rows : b[3] = h})]
    BY DEF Stats
  <2>3. \A R : Period(R).count = Count(R) /\ Period(R).errorCount = Errors(R) BY DEF Period
  <2>4. DOMAIN stats.periods = {b[3] : b \in rows} BY <2>2
  <2>5. \A h \in {b[3] : b \in rows} :
          /\ stats.periods[h].count = Count({b \in rows : b[3] = h})
          /\ stats.periods[h].errorCount = Errors({b \in rows : b[3] = h})
    BY <2>2, <2>3
  <2> DEFINE seen == Counted(keys, w)
  <2>6. Summary(rows) =
          [totalRequests |-> Cardinality(seen),
           cacheHits |-> Cardinality({i \in seen : Seen(i).status = "HIT"}),
           upstreamCount |-> Cardinality({i \in seen : Seen(i).status = "MISS"}),
           totalMs |-> MapThenSumSet(LAMBDA i : Seen(i).ms, seen),
           errorCount |-> Cardinality({i \in seen : Seen(i).error})]
    BY WindowShown, Zenon DEF Summary
  <2>7. {b[3] : b \in rows} = {arrived[i].hour : i \in seen} BY WindowShown, Zenon
  <2>8. \A h : LET now == {i \in seen : arrived[i].hour = h}
                   those == {b \in rows : b[3] = h}
               IN  /\ Count(those) = Cardinality(now)
                   /\ Errors(those) = Cardinality({i \in now : Seen(i).error})
    BY WindowShown, Zenon
  <2> HIDE DEF rows
  <2>9. \A h \in DOMAIN stats.periods :
          LET now == {i \in seen : arrived[i].hour = h}
          IN  /\ stats.periods[h].count = Cardinality(now)
              /\ stats.periods[h].errorCount = Cardinality({i \in now : Seen(i).error})
    <3> SUFFICES ASSUME NEW h \in DOMAIN stats.periods
                 PROVE  LET now == {i \in seen : arrived[i].hour = h}
                        IN  /\ stats.periods[h].count = Cardinality(now)
                            /\ stats.periods[h].errorCount = Cardinality({i \in now : Seen(i).error})
      OBVIOUS
    <3>1. h \in {b[3] : b \in rows} BY <2>4
    <3>2. /\ stats.periods[h].count = Count({b \in rows : b[3] = h})
          /\ stats.periods[h].errorCount = Errors({b \in rows : b[3] = h})
      BY <2>5, <3>1
    <3> QED BY <2>8, <3>2
  <2> QED BY <2>1, <2>4, <2>6, <2>7, <2>9, Zenon
<1> QED BY <1>1, ExactInit, ExactNext, PTL DEF Spec
-----------------------------------------------------------------------------
(* What Percentile says of the samples it is given.                        *)

\* A one-to-one map says how many elements its image has.
LEMMA SameSize ==
  ASSUME NEW A, NEW B, IsFiniteSet(A), NEW f \in [A -> B],
         \A a, b \in A : f[a] = f[b] => a = b,
         \A b \in B : \E a \in A : f[a] = b
  PROVE  IsFiniteSet(B) /\ Cardinality(B) = Cardinality(A)
<1>1. f \in Bijection(A, B) BY Fun_IsBij
<1> QED BY <1>1, FS_Bijection DEF ExistsBijection

\* The ways to put s[1], ..., s[n] in ascending order.
Orders(n, s) == {p \in Bijection(1..n, 1..n) :
                   \A i, j \in 1..n : i < j => s[p[i]] <= s[p[j]]}

\* There always is one: the last sample goes before the first one in the order of
\* the others that exceeds it.
LEMMA OrderExists ==
  ASSUME NEW n \in Nat, NEW s, \A i \in 1..n : s[i] \in Nat
  PROVE  Orders(n, s) # {}
<1> DEFINE T == {m \in Nat : m <= n => Orders(m, s) # {}}
<1>1. 0 \in T
  <2> DEFINE p == [i \in 1..0 |-> i]
  <2>1. p \in [1..0 -> 1..0] /\ \A i \in 1..0 : FALSE OBVIOUS
  <2> HIDE DEF p
  <2>2. p \in Bijection(1..0, 1..0) BY <2>1, Fun_IsBij
  <2>3. p \in Orders(0, s) BY <2>1, <2>2 DEF Orders
  <2> QED BY <2>3
<1>2. ASSUME NEW m \in Nat, m \in T PROVE m + 1 \in T
  <2> SUFFICES ASSUME m + 1 <= n PROVE Orders(m + 1, s) # {} OBVIOUS
  <2>1. PICK p : p \in Orders(m, s) BY <1>2
  <2>2. /\ p \in [1..m -> 1..m]
        /\ \A i, j \in 1..m : p[i] = p[j] => i = j
        /\ \A j \in 1..m : \E i \in 1..m : p[i] = j
        /\ \A i, j \in 1..m : i < j => s[p[i]] <= s[p[j]]
    <3>1. p \in Bijection(1..m, 1..m) /\ \A i, j \in 1..m : i < j => s[p[i]] <= s[p[j]]
      BY <2>1 DEF Orders
    <3> QED BY <3>1, Fun_BijectionProperties
  <2>3. PICK new \in Nat : new = s[m + 1] OBVIOUS
  <2> DEFINE Larger == {i \in 1..(m + 1) : i = m + 1 \/ s[p[i]] > new}
  <2>4. PICK q \in Larger : \A i \in Larger : q <= i
    <3>1. Larger \in SUBSET Nat /\ m + 1 \in Larger OBVIOUS
    <3> HIDE DEF Larger
    <3> QED BY <3>1, Least
  <2>5. /\ q \in 1..(m + 1)
        /\ \A i \in 1..m : p[i] \in 1..m /\ s[p[i]] \in Nat
        /\ \A i \in 1..m : i < q => s[p[i]] <= new
        /\ \A i \in 1..m : q <= i => new < s[p[i]]
    <3>1. q \in 1..(m + 1) BY <2>4
    <3>2. \A i \in 1..m : p[i] \in 1..m /\ s[p[i]] \in Nat
      <4>1. \A i \in 1..m : p[i] \in 1..m BY <2>2
      <4>2. \A i \in 1..m : s[i] \in Nat OBVIOUS
      <4> QED BY <4>1, <4>2
    <3>3. ASSUME NEW i \in 1..m, i < q PROVE s[p[i]] <= new
      <4>1. i \notin Larger BY <2>4, <3>1, <3>3
      <4> QED BY <3>2, <4>1
    <3>4. ASSUME NEW i \in 1..m, q <= i PROVE new < s[p[i]]
      <4>1. q \in 1..m /\ q # m + 1 BY <3>1, <3>4
      <4>2. s[p[q]] > new BY <2>4, <4>1
      <4>3. q = i \/ s[p[q]] <= s[p[i]] BY <2>2, <3>4, <4>1
      <4> QED BY <3>2, <4>1, <4>2, <4>3
    <3> QED BY <3>1, <3>2, <3>3, <3>4
  <2> HIDE DEF Larger
  <2> DEFINE r == [i \in 1..(m + 1) |-> IF i < q THEN p[i] ELSE IF i = q THEN m + 1 ELSE p[i - 1]]
  <2>6. ASSUME NEW i \in 1..(m + 1)
        PROVE  /\ i < q => i \in 1..m /\ r[i] = p[i]
               /\ i = q => r[i] = m + 1
               /\ i > q => i - 1 \in 1..m /\ q <= i - 1 /\ r[i] = p[i - 1]
    BY <2>5
  <2>7. r \in [1..(m + 1) -> 1..(m + 1)]
    <3> SUFFICES ASSUME NEW i \in 1..(m + 1) PROVE r[i] \in 1..(m + 1) OBVIOUS
    <3> HIDE DEF r
    <3> QED BY <2>5, <2>6
  <2> HIDE DEF r
  <2>8. ASSUME NEW i \in 1..(m + 1), NEW j \in 1..(m + 1), i < j
        PROVE  r[i] # r[j] /\ s[r[i]] <= s[r[j]]
    <3>1. CASE j < q
      <4>1. i \in 1..m /\ j \in 1..m /\ r[i] = p[i] /\ r[j] = p[j] BY <2>5, <2>6, <2>8, <3>1
      <4> QED BY <2>2, <2>8, <4>1
    <3>2. CASE j = q
      <4>1. i \in 1..m /\ r[i] = p[i] /\ r[j] = m + 1 /\ i < q BY <2>5, <2>6, <2>8, <3>2
      <4> QED BY <2>3, <2>5, <4>1
    <3>3. CASE j > q /\ i < q
      <4>1. PICK k \in 1..m : k = j - 1 /\ q <= k /\ r[j] = p[k] BY <2>6, <3>3
      <4>2. i \in 1..m /\ r[i] = p[i] /\ i < k BY <2>5, <2>6, <3>3, <4>1
      <4>3. p[i] # p[k] /\ s[p[i]] <= s[p[k]] BY <2>2, <4>1, <4>2
      <4> QED BY <4>1, <4>2, <4>3
    <3>4. CASE j > q /\ i = q
      <4>1. PICK k \in 1..m : q <= k /\ r[i] = m + 1 /\ r[j] = p[k] BY <2>6, <3>4
      <4>2. new < s[p[k]] /\ p[k] \in 1..m /\ s[p[k]] \in Nat BY <2>5, <4>1
      <4> QED BY <2>3, <4>1, <4>2
    <3>5. CASE i > q
      <4>0. q \in Nat /\ j > q BY <2>5, <2>8, <3>5
      <4>1. PICK h \in 1..m : h = i - 1 /\ r[i] = p[h] BY <2>6, <3>5
      <4>2. PICK k \in 1..m : k = j - 1 /\ r[j] = p[k] BY <2>6, <4>0
      <4>3. h < k BY <2>8, <4>1, <4>2
      <4> QED BY <2>2, <4>1, <4>2, <4>3
    <3> QED BY <2>5, <2>8, <3>1, <3>2, <3>3, <3>4, <3>5
  <2>9. \A i, j \in 1..(m + 1) : r[i] = r[j] => i = j
    <3> SUFFICES ASSUME NEW i \in 1..(m + 1), NEW j \in 1..(m + 1), r[i] = r[j] PROVE i = j
      OBVIOUS
    <3>1. ~ (i < j) /\ ~ (j < i) BY <2>8
    <3> QED BY <3>1
  <2>10. \A k \in 1..(m + 1) : \E i \in 1..(m + 1) : r[i] = k
    <3> SUFFICES ASSUME NEW k \in 1..(m + 1) PROVE \E i \in 1..(m + 1) : r[i] = k OBVIOUS
    <3>1. CASE k = m + 1 BY <2>5, <2>6, <3>1
    <3>2. CASE k # m + 1
      <4>1. PICK i \in 1..m : p[i] = k BY <2>2, <3>2
      <4>2. CASE i < q
        <5>1. i \in 1..(m + 1) OBVIOUS
        <5> QED BY <2>6, <4>1, <4>2, <5>1
      <4>3. CASE ~ (i < q)
        <5>1. i + 1 \in 1..(m + 1) /\ i + 1 > q /\ (i + 1) - 1 = i BY <2>5, <4>3
        <5>2. r[i + 1] = p[i] BY <2>6, <5>1
        <5> QED BY <4>1, <5>1, <5>2
      <4> QED BY <4>2, <4>3
    <3> QED BY <3>1, <3>2
  <2>11. r \in Bijection(1..(m + 1), 1..(m + 1)) BY <2>7, <2>9, <2>10, Fun_IsBij
  <2>12. r \in Orders(m + 1, s) BY <2>8, <2>11 DEF Orders
  <2> QED BY <2>12
<1> HIDE DEF T
<1>3. Nat \subseteq T BY <1>1, <1>2, NatSetInduction
<1> QED BY <1>3 DEF T

\* The places of a sequence whose values are in V.
Hits(s, V) == {i \in 1..Len(s) : s[i] \in V}

\* Sorting keeps how often each value occurs.
LEMMA SortedFacts ==
  ASSUME NEW s \in Seq(Nat)
  PROVE  /\ \A i \in 1..Len(s) : Sorted(s)[i] \in Nat
         /\ \A i, j \in 1..Len(s) : i < j => Sorted(s)[i] <= Sorted(s)[j]
         /\ \A V : Cardinality({i \in 1..Len(s) : Sorted(s)[i] \in V}) = Cardinality(Hits(s, V))
<1>1. PICK n \in Nat : n = Len(s) /\ DOMAIN s = 1..n /\ \A i \in 1..n : s[i] \in Nat
  BY LenProperties, ElementOfSeq
<1> DEFINE Ascending(p) == \A i, j \in 1..n : i < j => s[p[i]] <= s[p[j]]
<1>2. PICK order : order = CHOOSE p \in Bijection(1..n, 1..n) : Ascending(p)
  OBVIOUS
<1>3. order \in Bijection(1..n, 1..n) /\ Ascending(order)
  <2>1. PICK p : p \in Orders(n, s)
    <3>1. Orders(n, s) # {} BY <1>1, OrderExists
    <3> QED BY <3>1
  <2>2. p \in Bijection(1..n, 1..n) /\ Ascending(p) BY <2>1 DEF Orders
  <2> HIDE DEF Ascending
  <2> QED BY <1>2, <2>2
<1>4. /\ order \in [1..n -> 1..n]
      /\ \A i, j \in 1..n : order[i] = order[j] => i = j
      /\ \A j \in 1..n : \E i \in 1..n : order[i] = j
  <2>1. order \in Bijection(1..n, 1..n) BY <1>3
  <2> HIDE DEF Ascending
  <2> QED BY <2>1 DEF Bijection, Injection, Surjection, IsInjective
<1>5. Sorted(s) = [i \in 1..n |-> s[order[i]]] BY <1>1, <1>2 DEF Sorted
<1>6. ASSUME NEW V
      PROVE  Cardinality({i \in 1..n : Sorted(s)[i] \in V}) = Cardinality(Hits(s, V))
  <2> DEFINE A == {i \in 1..n : Sorted(s)[i] \in V}
             B == Hits(s, V)
             f == [i \in A |-> order[i]]
  <2>1. f \in [A -> B] BY <1>1, <1>4, <1>5 DEF Hits
  <2>2. \A a, b \in A : f[a] = f[b] => a = b BY <1>4
  <2>3. \A b \in B : \E a \in A : f[a] = b
    <3> SUFFICES ASSUME NEW b \in B PROVE \E a \in A : f[a] = b OBVIOUS
    <3>1. b \in 1..n /\ s[b] \in V BY <1>1 DEF Hits
    <3>2. PICK a \in 1..n : order[a] = b BY <1>4, <3>1
    <3> QED BY <1>5, <3>1, <3>2
  <2>4. IsFiniteSet(A)
    <3>1. IsFiniteSet(1..n)
      <4>1. 1 \in Int /\ n \in Int OBVIOUS
      <4> QED BY <4>1, FS_Interval
    <3> QED BY <3>1, FS_Subset
  <2> HIDE DEF A, B, f
  <2>5. Cardinality(B) = Cardinality(A) BY <2>1, <2>2, <2>3, <2>4, SameSize
  <2> QED BY <2>5 DEF A, B
<1>7. \A i \in 1..n : Sorted(s)[i] = s[order[i]] /\ order[i] \in 1..n BY <1>4, <1>5
<1>8. \A i \in 1..n : Sorted(s)[i] \in Nat BY <1>1, <1>7
<1>9. \A i, j \in 1..n : i < j => Sorted(s)[i] <= Sorted(s)[j] BY <1>3, <1>7
<1> QED BY <1>1, <1>6, <1>8, <1>9

\* v is a p-th percentile of s: no p per cent of the samples are less, and p per
\* cent are at most it; 0 if there are none.
Ranked(s, p, v) ==
  /\ Len(s) = 0 => v = 0
  /\ Len(s) > 0 => /\ v \in Nat
                   /\ 100 * Cardinality(Hits(s, {x \in Nat : x <= v})) >= p * Len(s)
                   /\ 100 * Cardinality(Hits(s, {x \in Nat : x < v})) < p * Len(s)

\* ceil(p / 100 * n) is the right rank.
LEMMA PercentileFacts ==
  ASSUME NEW s \in Seq(Nat), NEW p \in {50, 95, 99}
  PROVE  Ranked(s, p, Percentile(s, p))
<1>0. PICK n \in Nat : n = Len(s) BY LenProperties
<1> DEFINE t == Sorted(s)
           rank == (p * n + 99) \div 100
<1>1. /\ s = <<>> <=> n = 0
      /\ \A i \in 1..n : t[i] \in Nat
      /\ \A i, j \in 1..n : i < j => t[i] <= t[j]
      /\ \A V : Cardinality({i \in 1..n : t[i] \in V}) = Cardinality(Hits(s, V))
  BY <1>0, SortedFacts
<1> HIDE DEF t
<1>2. n = 0 => Percentile(s, p) = 0 BY <1>1 DEF Percentile
<1>3. ASSUME n > 0
      PROVE  LET v == Percentile(s, p)
             IN  /\ v \in Nat
                 /\ 100 * Cardinality(Hits(s, {x \in Nat : x <= v})) >= p * n
                 /\ 100 * Cardinality(Hits(s, {x \in Nat : x < v})) < p * n
  <2>1. rank \in 1..n /\ p * n <= 100 * rank /\ 100 * (rank - 1) < p * n
    <3>1. CASE p = 50 BY <1>3, <3>1
    <3>2. CASE p = 95 BY <1>3, <3>2
    <3>3. CASE p = 99 BY <1>3, <3>3
    <3> QED BY <3>1, <3>2, <3>3
  <2>2. PICK r \in 1..n : r = rank BY <2>1
  <2>3. Min({rank, n}) = r
    <3>1. r \in {r, n} /\ (\A y \in {r, n} : r <= y)
          /\ \A x \in {r, n} : (\A y \in {r, n} : x <= y) => x = r
      OBVIOUS
    <3>2. Min({r, n}) = r BY <3>1 DEF Min
    <3> QED BY <2>2, <3>2
  <2>4. PICK v \in Nat : v = t[r] BY <1>1
  <2>5. Percentile(s, p) = v
    BY <1>0, <1>1, <1>3, <2>3, <2>4 DEF Percentile, t
  <2> HIDE DEF rank
  <2>6. IsFiniteSet(1..n) /\ Cardinality(1..r) = r /\ Cardinality(1..(r - 1)) = r - 1
        /\ IsFiniteSet(1..(r - 1))
    <3>1. 1 \in Int /\ n \in Int /\ r \in Int /\ r - 1 \in Int /\ 1 <= r /\ ~ (1 > r) OBVIOUS
    <3>2. IsFiniteSet(1..n) /\ IsFiniteSet(1..(r - 1)) BY <3>1, FS_Interval
    <3>3. Cardinality(1..r) = r - 1 + 1 BY <3>1, FS_Interval
    <3>4. Cardinality(1..(r - 1)) = r - 1
      <4>1. Cardinality(1..(r - 1)) = IF 1 > r - 1 THEN 0 ELSE (r - 1) - 1 + 1
        BY <3>1, FS_Interval
      <4> QED BY <4>1
    <3> QED BY <3>2, <3>3, <3>4
  <2>7. Cardinality(Hits(s, {x \in Nat : x <= v})) >= r
    <3> DEFINE A == {i \in 1..n : t[i] \in {x \in Nat : x <= v}}
    <3>1. 1..r \in SUBSET A
      <4> SUFFICES ASSUME NEW i \in 1..r PROVE i \in A OBVIOUS
      <4>1. i \in 1..n /\ (i = r \/ i < r) OBVIOUS
      <4>2. t[i] \in Nat /\ t[i] <= v BY <1>1, <2>4, <4>1
      <4> QED BY <4>1, <4>2
    <3>2. IsFiniteSet(A) BY <2>6, FS_Subset
    <3>3. Cardinality(A) = Cardinality(Hits(s, {x \in Nat : x <= v})) BY <1>1
    <3> HIDE DEF A
    <3>4. Cardinality(1..r) <= Cardinality(A) BY <3>1, <3>2, FS_Subset
    <3>5. Cardinality(A) \in Nat BY <3>2, FS_CardinalityType
    <3> QED BY <2>6, <3>3, <3>4, <3>5
  <2>8. Cardinality(Hits(s, {x \in Nat : x < v})) <= r - 1
    <3> DEFINE A == {i \in 1..n : t[i] \in {x \in Nat : x < v}}
    <3>1. A \in SUBSET (1..(r - 1))
      <4> SUFFICES ASSUME NEW i \in 1..n, t[i] \in Nat, t[i] < v PROVE i \in 1..(r - 1)
        OBVIOUS
      <4>1. ~ (i = r) BY <2>4
      <4>2. ~ (r < i)
        <5>1. r < i => t[r] <= t[i] BY <1>1
        <5> QED BY <2>4, <5>1
      <4> QED BY <4>1, <4>2
    <3>2. Cardinality(A) = Cardinality(Hits(s, {x \in Nat : x < v})) BY <1>1
    <3> HIDE DEF A
    <3>3. Cardinality(A) <= Cardinality(1..(r - 1)) BY <2>6, <3>1, FS_Subset
    <3> QED BY <2>6, <3>2, <3>3
  <2>9. PICK a, b : /\ a = Cardinality(Hits(s, {x \in Nat : x <= v}))
                    /\ b = Cardinality(Hits(s, {x \in Nat : x < v}))
    OBVIOUS
  <2>10. a \in Nat /\ b \in Nat
    <3>1. \A V : IsFiniteSet(Hits(s, V))
      <4> SUFFICES ASSUME NEW V PROVE IsFiniteSet(Hits(s, V)) OBVIOUS
      <4>1. Hits(s, V) \in SUBSET (1..n) BY <1>0 DEF Hits
      <4> QED BY <2>6, <4>1, FS_Subset
    <3> QED BY <2>9, <3>1, FS_CardinalityType
  <2>11. p * n \in Nat OBVIOUS
  <2>12. 100 * a >= p * n
    BY <2>1, <2>2, <2>7, <2>9, <2>10, <2>11
  <2>13. 100 * b < p * n
    BY <2>1, <2>2, <2>8, <2>9, <2>10, <2>11
  <2> QED BY <2>5, <2>9, <2>12, <2>13
<1> QED BY <1>0, <1>2, <1>3 DEF Ranked

-----------------------------------------------------------------------------
(* What a query puts together.                                             *)

\* Two sequences together have what both have.
LEMMA HitsOfConcat ==
  ASSUME NEW s \in Seq(Nat), NEW t \in Seq(Nat), NEW V
  PROVE  /\ IsFiniteSet(Hits(s, V)) /\ Cardinality(Hits(s, V)) \in Nat
         /\ Cardinality(Hits(s \o t, V)) = Cardinality(Hits(s, V)) + Cardinality(Hits(t, V))
<1>1. PICK n \in Nat, m \in Nat : n = Len(s) /\ m = Len(t) BY LenProperties
<1>2. /\ Len(s \o t) = n + m
      /\ \A i \in 1..(n + m) : (s \o t)[i] = IF i <= n THEN s[i] ELSE t[i - n]
  BY <1>1, ConcatProperties
<1>3. ASSUME NEW u \in Seq(Nat)
      PROVE  IsFiniteSet(Hits(u, V)) /\ Cardinality(Hits(u, V)) \in Nat
  <2>1. Len(u) \in Int /\ 1 \in Int BY LenProperties
  <2>2. IsFiniteSet(1..Len(u)) BY <2>1, FS_Interval
  <2>3. Hits(u, V) \in SUBSET (1..Len(u)) BY DEF Hits
  <2> QED BY <2>2, <2>3, FS_Subset, FS_CardinalityType
<1>4. PICK A, B, C : A = Hits(s, V) /\ B = Hits(t, V) /\ C = Hits(s \o t, V) OBVIOUS
<1> DEFINE D == {i \in C : i > n}
<1>5. C = A \cup D /\ A \cap D = {}
  <2>1. \A i : i \in C <=> i \in 1..(n + m) /\ (s \o t)[i] \in V BY <1>2, <1>4 DEF Hits
  <2>2. \A i : i \in A <=> i \in 1..n /\ s[i] \in V BY <1>1, <1>4 DEF Hits
  <2>3. \A i \in 1..n : i \in 1..(n + m) /\ (s \o t)[i] = s[i] BY <1>2
  <2>4. \A i \in 1..(n + m) : ~ (i > n) => i \in 1..n OBVIOUS
  <2>5. A \subseteq C BY <2>1, <2>2, <2>3
  <2>6. \A i \in C : i \in A \/ i > n BY <2>1, <2>2, <2>3, <2>4
  <2>7. \A i \in A : ~ (i > n) BY <2>2
  <2> QED BY <2>5, <2>6, <2>7
<1>6. IsFiniteSet(D) /\ Cardinality(D) = Cardinality(B)
  <2> DEFINE f == [i \in B |-> n + i]
  <2>1. \A i : i \in B <=> i \in 1..m /\ t[i] \in V BY <1>1, <1>4 DEF Hits
  <2>2. \A i : i \in D <=> i \in 1..(n + m) /\ i > n /\ t[i - n] \in V
    BY <1>2, <1>4 DEF Hits
  <2>3. f \in [B -> D]
    <3> SUFFICES ASSUME NEW i \in B PROVE n + i \in D OBVIOUS
    <3>1. i \in 1..m /\ t[i] \in V BY <2>1
    <3>2. n + i \in 1..(n + m) /\ n + i > n /\ (n + i) - n = i BY <3>1
    <3> QED BY <2>2, <3>1, <3>2
  <2>4. \A a, b \in B : f[a] = f[b] => a = b
    <3> SUFFICES ASSUME NEW a \in B, NEW b \in B, n + a = n + b PROVE a = b OBVIOUS
    <3>1. a \in 1..m /\ b \in 1..m BY <2>1
    <3> QED BY <3>1
  <2>5. \A d \in D : \E a \in B : f[a] = d
    <3> SUFFICES ASSUME NEW d \in D PROVE \E a \in B : f[a] = d OBVIOUS
    <3>1. d \in 1..(n + m) /\ d > n /\ t[d - n] \in V BY <2>2
    <3>2. d - n \in 1..m /\ n + (d - n) = d BY <3>1
    <3>3. d - n \in B BY <2>1, <3>1, <3>2
    <3> QED BY <3>2, <3>3
  <2>6. IsFiniteSet(B) BY <1>3, <1>4
  <2> HIDE DEF D, f
  <2> QED BY <2>3, <2>4, <2>5, <2>6, SameSize
<1> HIDE DEF D
<1>7. IsFiniteSet(A) /\ Cardinality(A) \in Nat /\ Cardinality(B) \in Nat BY <1>3, <1>4
<1>8. Cardinality(C) = Cardinality(A) + Cardinality(D)
  <2>1. Cardinality(A \cup D) = Cardinality(A) + Cardinality(D) - Cardinality(A \cap D)
    BY <1>6, <1>7, FS_Union
  <2>2. Cardinality(A \cap D) = 0 BY <1>5, FS_EmptySet
  <2> QED BY <1>5, <1>6, <1>7, <2>1, <2>2
<1> QED BY <1>4, <1>6, <1>7, <1>8

\* The samples of the rows of f one after the other, as the fold has them.
Joins(iter, f) ==
  iter = [s \in SUBSET DOMAIN f |->
            IF s = {} THEN <<>>
            ELSE LET x == CHOOSE y \in s : TRUE IN f[x].samples \o iter[s \ {x}]]

LEMMA SamplesAreJoined ==
  ASSUME NEW R, NEW f, f = [b \in R |-> table[b]]
  PROVE  Samples(R) = (CHOOSE iter : Joins(iter, f))[DOMAIN f]
BY DEF Samples, FoldFunction, FoldFunctionOnSet, MapThenFoldSet, Joins

\* A query has the samples of its rows, each as often as they have it.
LEMMA SamplesHit ==
  ASSUME NEW R, IsFiniteSet(R), \A b \in R : table[b].samples \in Seq(Nat),
         NEW V
  PROVE  /\ Samples(R) \in Seq(Nat)
         /\ Cardinality(Hits(Samples(R), V)) =
              Total([b \in R |-> Cardinality(Hits(table[b].samples, V))], R)
<1> DEFINE rows == [b \in R |-> table[b]]
           iter == CHOOSE i : Joins(i, rows)
           hits == [b \in R |-> Cardinality(Hits(table[b].samples, V))]
           sum == CHOOSE i : Adds(i, hits, R)
           F == {T \in SUBSET R : /\ iter[T] \in Seq(Nat)
                                  /\ Cardinality(Hits(iter[T], V)) = sum[T]}
<1>1. DOMAIN rows = R /\ \A b \in R : rows[b].samples = table[b].samples OBVIOUS
<1>2. Samples(R) = iter[R]
  <2>1. DOMAIN rows = R OBVIOUS
  <2> HIDE DEF rows
  <2>2. Samples(R) = iter[DOMAIN rows] BY SamplesAreJoined DEF rows
  <2> QED BY <2>1, <2>2
<1>3. \A b \in R : hits[b] = Cardinality(Hits(table[b].samples, V)) /\ hits[b] \in Nat
  BY HitsOfConcat
<1>4. Joins(iter, rows)
  <2> DEFINE g == [b \in R |-> [w \in Seq(Nat) |-> table[b].samples \o w]]
  <2>1. g \in [R -> [Seq(Nat) -> Seq(Nat)]] /\ <<>> \in Seq(Nat)
    <3>1. \A b \in R : \A w \in Seq(Nat) : table[b].samples \o w \in Seq(Nat)
      BY ConcatProperties
    <3> QED BY <3>1
  <2> HIDE DEF g
  <2>2. PICK i : i \in Folds(R, Seq(Nat), <<>>, g)
    <3>1. Folds(R, Seq(Nat), <<>>, g) # {} BY <2>1, FoldExists
    <3> QED BY <3>1
  <2>3. ASSUME NEW s \in SUBSET R
        PROVE  i[s] = IF s = {} THEN <<>> ELSE rows[First(s)].samples \o i[s \ {First(s)}]
    <3>1. s # {} => First(s) \in R /\ s \ {First(s)} \in SUBSET R BY FirstIn
    <3> QED BY <2>2, <3>1 DEF Folds, g
  <2>4. i = [s \in SUBSET R |->
               IF s = {} THEN <<>> ELSE rows[First(s)].samples \o i[s \ {First(s)}]]
    BY <2>2, <2>3 DEF Folds
  <2> HIDE DEF rows
  <2>5. Joins(i, rows) BY <1>1, <2>4 DEF Joins, First
  <2> QED BY <2>5
<1>5. Adds(sum, hits, R)
  <2> HIDE DEF hits
  <2> QED BY <1>3, Summed
<1> HIDE DEF iter, sum
<1>6. \A s \in SUBSET R :
        /\ iter[s] = IF s = {} THEN <<>> ELSE rows[First(s)].samples \o iter[s \ {First(s)}]
        /\ sum[s] = IF s = {} THEN 0 ELSE hits[First(s)] + sum[s \ {First(s)}]
  <2> HIDE DEF rows, hits
  <2>1. \A s \in SUBSET R :
          iter[s] = IF s = {} THEN <<>> ELSE rows[First(s)].samples \o iter[s \ {First(s)}]
    BY <1>1, <1>4 DEF Joins, First
  <2>2. \A s \in SUBSET R : sum[s] = IF s = {} THEN 0 ELSE hits[First(s)] + sum[s \ {First(s)}]
    BY <1>5 DEF Adds, First
  <2> QED BY <2>1, <2>2
<1> HIDE DEF rows, hits
<1>7. ASSUME NEW T \in SUBSET R, \A x \in T : T \ {x} \in F PROVE T \in F
  <2>1. CASE T = {}
    <3>1. iter[T] = <<>> /\ sum[T] = 0 BY <1>6, <2>1
    <3>2. <<>> \in Seq(Nat) /\ Hits(<<>>, V) = {} BY DEF Hits
    <3> QED BY <3>1, <3>2, FS_EmptySet
  <2>2. CASE T # {}
    <3>1. PICK b \in R : b = First(T) /\ b \in T BY <2>2, FirstIn
    <3>2. PICK rest : rest = iter[T \ {b}] OBVIOUS
    <3>3. iter[T] = table[b].samples \o rest /\ sum[T] = hits[b] + sum[T \ {b}]
      BY <1>1, <1>6, <2>2, <3>1, <3>2
    <3>4. rest \in Seq(Nat) /\ Cardinality(Hits(rest, V)) = sum[T \ {b}] BY <1>7, <3>1, <3>2
    <3>5. iter[T] \in Seq(Nat) BY <3>3, <3>4, ConcatProperties
    <3>6. Cardinality(Hits(iter[T], V)) = hits[b] + Cardinality(Hits(rest, V))
      BY <1>3, <3>3, <3>4, HitsOfConcat
    <3> QED BY <3>3, <3>4, <3>5, <3>6
  <2> QED BY <2>1, <2>2
<1> HIDE DEF F
<1>8. SUBSET R \subseteq F BY <1>7, FiniteSetInduction
<1>9. iter[R] \in Seq(Nat) /\ Cardinality(Hits(iter[R], V)) = sum[R] BY <1>8 DEF F
<1> QED BY <1>2, <1>9 DEF Total, sum, hits

-----------------------------------------------------------------------------
(* What the rows list.                                                     *)

\* s lists what w says of the latest elements of A, at most SampleLimit of them,
\* in order: f[k] is the element at k.
Latest(s, A, w, f) ==
  /\ f \in [1..Len(s) -> A]
  /\ \A k \in 1..Len(s) : s[k] = w[f[k]]
  /\ \A j, k \in 1..Len(s) : j < k => f[j] < f[k]
  /\ \A i \in A : (\A k \in 1..Len(s) : f[k] # i) =>
                    Len(s) = SampleLimit /\ \A k \in 1..Len(s) : i < f[k]

Listed(s, A, w) == \E f : Latest(s, A, w, f)

\* appendSample lists the latest again when one more follows them.
LEMMA AppendListed ==
  ASSUME NEW n \in Nat, NEW A \in SUBSET (1..n), NEW s \in Seq(Nat), Len(s) <= SampleLimit,
         NEW took, Listed(s, A, took), NEW more, \A i \in 1..n : more[i] = took[i],
         NEW ms \in Nat, more[n + 1] = ms
  PROVE  Listed(appendSample(s, ms), A \cup {n + 1}, more)
<1>1. PICK f : Latest(s, A, took, f) BY DEF Listed
<1>2. PICK m \in Nat : m = Len(s) BY LenProperties
<1>3. /\ f \in [1..m -> A]
      /\ \A k \in 1..m : s[k] = took[f[k]] /\ f[k] \in 1..n
      /\ \A j, k \in 1..m : j < k => f[j] < f[k]
      /\ \A i \in A : (\A k \in 1..m : f[k] # i) => m = SampleLimit /\ \A k \in 1..m : i < f[k]
  BY <1>1, <1>2 DEF Latest
<1> DEFINE t == Append(s, ms)
           B == A \cup {n + 1}
           e == [k \in 1..(m + 1) |-> IF k = m + 1 THEN n + 1 ELSE f[k]]
<1>4. /\ t \in Seq(Nat) /\ Len(t) = m + 1 /\ t[m + 1] = ms /\ \A k \in 1..m : t[k] = s[k]
      /\ SampleLimit \in Nat \ {0} /\ m <= SampleLimit
  BY <1>2, StatisticsAssumption
<1>5. \A k \in 1..(m + 1) : k = m + 1 \/ k \in 1..m OBVIOUS
<1>6. \A k \in 1..(m + 1) : /\ e[k] = IF k = m + 1 THEN n + 1 ELSE f[k]
                            /\ e[k] \in B /\ e[k] \in Nat
  BY <1>3, <1>5
<1> HIDE DEF t, e
<1>7. \A k \in 1..(m + 1) : t[k] = more[e[k]]
  BY <1>3, <1>4, <1>5, <1>6
<1>8. \A j, k \in 1..(m + 1) : j < k => e[j] < e[k]
  <2> SUFFICES ASSUME NEW j \in 1..(m + 1), NEW k \in 1..(m + 1), j < k PROVE e[j] < e[k]
    OBVIOUS
  <2>1. j \in 1..m /\ e[j] = f[j] /\ f[j] \in 1..n BY <1>3, <1>6
  <2>2. CASE k = m + 1 BY <1>6, <2>1, <2>2
  <2>3. CASE k # m + 1 BY <1>3, <1>5, <1>6, <2>1, <2>3
  <2> QED BY <2>2, <2>3
<1>9. ASSUME NEW i \in B, \A k \in 1..(m + 1) : e[k] # i
      PROVE  i \in A /\ m = SampleLimit /\ \A k \in 1..(m + 1) : i < e[k]
  <2>1. i # n + 1
    <3>1. m + 1 \in 1..(m + 1) OBVIOUS
    <3> QED BY <1>6, <1>9, <3>1
  <2>2. \A k \in 1..m : f[k] # i /\ e[k] = f[k]
    <3>1. \A k \in 1..m : k \in 1..(m + 1) /\ k # m + 1 OBVIOUS
    <3> QED BY <1>6, <1>9, <3>1
  <2>3. i \in A /\ i \in 1..n BY <2>1
  <2>4. m = SampleLimit /\ \A k \in 1..m : i < f[k] BY <1>3, <2>2, <2>3
  <2> QED BY <1>5, <1>6, <2>2, <2>3, <2>4
<1>10. CASE m + 1 <= SampleLimit
  <2>1. appendSample(s, ms) = SubSeq(t, 1, m + 1)
    BY <1>4, <1>10 DEF appendSample, t
  <2>2. /\ Len(SubSeq(t, 1, m + 1)) = m + 1
        /\ \A k \in 1..(m + 1) : SubSeq(t, 1, m + 1)[k] = t[k]
    BY <1>4
  <2>3. PICK u : u = appendSample(s, ms) /\ Len(u) = m + 1 /\ \A k \in 1..(m + 1) : u[k] = t[k]
    BY <2>1, <2>2
  <2>4. e \in [1..(m + 1) -> B] BY <1>6 DEF e
  <2>5. ~ m = SampleLimit BY <1>4, <1>10
  <2>6. Latest(u, B, more, e) BY <1>7, <1>8, <1>9, <2>3, <2>4, <2>5 DEF Latest
  <2> QED BY <2>3, <2>6 DEF Listed
<1>11. CASE m = SampleLimit
  <2> DEFINE g == [k \in 1..m |-> e[k + 1]]
  <2>1. appendSample(s, ms) = SubSeq(t, 2, m + 1)
    <3>1. Len(t) > SampleLimit /\ Len(t) - SampleLimit + 1 = 2 BY <1>4, <1>11
    <3> QED BY <1>4, <3>1 DEF appendSample, t
  <2>2. /\ Len(SubSeq(t, 2, m + 1)) = m
        /\ \A k \in 1..m : SubSeq(t, 2, m + 1)[k] = t[k + 1]
    <3>1. 2 \in 1..(Len(t) + 1) /\ m + 1 \in 1..Len(t) /\ m >= 1 BY <1>4, <1>11
    <3>2. \A k \in 1..m : k \in 1..((m + 1) - 2 + 1) /\ 2 + k - 1 = k + 1 BY <3>1
    <3>3. (m + 1) - 2 + 1 = m BY <3>1
    <3> QED BY <1>4, <3>1, <3>2, <3>3, SubSeqProperties
  <2>3. PICK u : u = appendSample(s, ms) /\ Len(u) = m /\ \A k \in 1..m : u[k] = t[k + 1]
    BY <2>1, <2>2
  <2>4. \A k \in 1..m : k + 1 \in 1..(m + 1) /\ g[k] = e[k + 1] OBVIOUS
  <2>5. g \in [1..m -> B] BY <1>6, <2>4
  <2> HIDE DEF g
  <2>6. \A k \in 1..m : u[k] = more[g[k]] BY <1>7, <2>3, <2>4
  <2>7. \A j, k \in 1..m : j < k => g[j] < g[k]
    <3> SUFFICES ASSUME NEW j \in 1..m, NEW k \in 1..m, j < k PROVE g[j] < g[k] OBVIOUS
    <3>1. j + 1 < k + 1 OBVIOUS
    <3> QED BY <1>8, <2>4, <3>1
  <2>8. ASSUME NEW i \in B, \A k \in 1..m : g[k] # i PROVE \A k \in 1..m : i < g[k]
    <3>1. CASE i = e[1]
      <4>1. \A k \in 1..m : 1 < k + 1 /\ 1 \in 1..(m + 1) OBVIOUS
      <4> QED BY <1>8, <2>4, <3>1, <4>1
    <3>2. CASE i # e[1]
      <4>1. \A k \in 1..(m + 1) : k = 1 \/ (k - 1 \in 1..m /\ (k - 1) + 1 = k) OBVIOUS
      <4>2. ASSUME NEW k \in 1..(m + 1), k # 1 PROVE e[k] # i
        <5>1. PICK j \in 1..m : j + 1 = k BY <4>1, <4>2
        <5> QED BY <2>4, <2>8, <5>1
      <4>3. \A k \in 1..(m + 1) : e[k] # i BY <3>2, <4>2
      <4> QED BY <1>9, <2>4, <4>3
    <3> QED BY <3>1, <3>2
  <2>9. Latest(u, B, more, g) BY <1>11, <2>3, <2>5, <2>6, <2>7, <2>8 DEF Latest
  <2> QED BY <2>3, <2>9 DEF Listed
<1>12. m + 1 <= SampleLimit \/ m = SampleLimit BY <1>4
<1> QED BY <1>10, <1>11, <1>12

\* What is listed depends only on what is said of the elements of A.
LEMMA ListedSame ==
  ASSUME NEW s, NEW A, NEW w, Listed(s, A, w), NEW v, \A i \in A : v[i] = w[i]
  PROVE  Listed(s, A, v)
<1>1. PICK f : Latest(s, A, w, f) BY DEF Listed
<1>2. \A k \in 1..Len(s) : v[f[k]] = w[f[k]] BY <1>1 DEF Latest
<1>3. Latest(s, A, v, f) BY <1>1, <1>2 DEF Latest
<1> QED BY <1>3 DEF Listed

\* The latest SampleLimit elements of A.
Recent(A) == {i \in A : Cardinality({j \in A : j > i}) < SampleLimit}

\* Of what w says something in V.
Tells(A, w, V) == {i \in A : w[i] \in V}

\* A listing says as often that a value is in V as the latest elements do.
LEMMA ListedFacts ==
  ASSUME NEW A \in SUBSET Nat, IsFiniteSet(A), NEW s \in Seq(Nat), Len(s) <= SampleLimit,
         NEW w, Listed(s, A, w), NEW V
  PROVE  Cardinality(Hits(s, V)) = Cardinality(Tells(Recent(A), w, V))
<1>1. PICK f : Latest(s, A, w, f) BY DEF Listed
<1>2. PICK m \in Nat : m = Len(s) BY LenProperties
<1>3. /\ f \in [1..m -> A]
      /\ \A k \in 1..m : s[k] = w[f[k]] /\ f[k] \in Nat
      /\ \A j, k \in 1..m : j < k => f[j] < f[k]
      /\ \A i \in A : (\A k \in 1..m : f[k] # i) => m = SampleLimit /\ \A k \in 1..m : i < f[k]
  BY <1>1, <1>2 DEF Latest
<1>4. SampleLimit \in Nat /\ m <= SampleLimit BY <1>2, StatisticsAssumption
<1>5. \A j, k \in 1..m : f[j] = f[k] => j = k
  <2> SUFFICES ASSUME NEW j \in 1..m, NEW k \in 1..m, f[j] = f[k] PROVE j = k OBVIOUS
  <2>1. ~ (j < k) /\ ~ (k < j) BY <1>3
  <2> QED BY <2>1
<1>6. IsFiniteSet(1..m) /\ Cardinality(1..m) = m
  <2>1. 1 \in Int /\ m \in Int /\ (m = 0 \/ ~ (1 > m)) OBVIOUS
  <2>2. IsFiniteSet(1..m) BY <2>1, FS_Interval
  <2>3. Cardinality(1..m) = IF 1 > m THEN 0 ELSE m - 1 + 1 BY <2>1, FS_Interval
  <2>4. Cardinality(1..m) = m BY <2>1, <2>3
  <2> QED BY <2>2, <2>4
<1> DEFINE Named == {f[k] : k \in 1..m}
<1>7. IsFiniteSet(Named) /\ Cardinality(Named) = m
  <2>1. f \in [1..m -> Named] /\ \A b \in Named : \E k \in 1..m : f[k] = b BY <1>3
  <2> HIDE DEF Named
  <2> QED BY <1>5, <1>6, <2>1, SameSize
<1>8. Named \in SUBSET A BY <1>3
<1>9. \A i \in A : i \notin Named => m = SampleLimit /\ \A l \in Named : i < l BY <1>3
<1>10. \A k \in 1..m : f[k] \in Named OBVIOUS
<1>11. \A l \in Named : \E k \in 1..m : f[k] = l OBVIOUS
<1> HIDE DEF Named
<1>12. ASSUME NEW i \in A PROVE i \in Recent(A) <=> i \in Named
  <2> DEFINE After == {j \in A : j > i}
  <2>1. IsFiniteSet(After) /\ Cardinality(After) \in Nat
    <3>1. After \in SUBSET A OBVIOUS
    <3> HIDE DEF After
    <3> QED BY <3>1, FS_Subset, FS_CardinalityType
  <2>2. CASE i \in Named
    <3>1. After \in SUBSET (Named \ {i})
      <4> SUFFICES ASSUME NEW j \in A, j > i PROVE j \in Named /\ j # i OBVIOUS
      <4>1. i \in Nat /\ j \in Nat OBVIOUS
      <4>2. ~ (j < i) BY <4>1
      <4> QED BY <1>9, <2>2, <4>1, <4>2
    <3>2. IsFiniteSet(Named \ {i}) /\ Cardinality(Named \ {i}) = m - 1
      BY <1>7, <2>2, FS_RemoveElement
    <3> HIDE DEF After
    <3>3. Cardinality(After) <= m - 1 BY <3>1, <3>2, FS_Subset
    <3>4. Cardinality(After) < SampleLimit BY <1>4, <2>1, <3>3
    <3> QED BY <2>2, <3>4 DEF Recent, After
  <2>3. CASE i \notin Named
    <3>1. m = SampleLimit /\ \A l \in Named : i < l /\ l \in A BY <1>8, <1>9, <2>3
    <3>2. Named \in SUBSET After
      <4>1. \A l \in Named : l > i
        <5>1. \A l \in Named : l \in Nat /\ i < l BY <3>1
        <5> QED BY <5>1
      <4> QED BY <3>1, <4>1
    <3> HIDE DEF After
    <3>3. m <= Cardinality(After) BY <1>7, <2>1, <3>2, FS_Subset
    <3>4. ~ (Cardinality(After) < SampleLimit) BY <1>4, <2>1, <3>1, <3>3
    <3> QED BY <2>3, <3>4 DEF Recent, After
  <2> QED BY <2>2, <2>3
<1>13. Recent(A) = Named BY <1>8, <1>12 DEF Recent
<1> DEFINE X == Hits(s, V)
           Y == {i \in Named : w[i] \in V}
           h == [k \in X |-> f[k]]
<1>14. \A k : k \in X <=> k \in 1..m /\ s[k] \in V BY <1>2 DEF Hits
<1>15. IsFiniteSet(X)
  <2>1. X \in SUBSET (1..m) BY <1>14
  <2> QED BY <1>6, <2>1, FS_Subset
<1> HIDE DEF X
<1>16. h \in [X -> Y] BY <1>3, <1>10, <1>14
<1>17. \A a, b \in X : h[a] = h[b] => a = b BY <1>5, <1>14
<1>18. \A y \in Y : \E a \in X : h[a] = y
  <2> SUFFICES ASSUME NEW y \in Named, w[y] \in V PROVE \E a \in X : h[a] = y OBVIOUS
  <2>1. PICK k \in 1..m : f[k] = y BY <1>11
  <2>2. k \in X BY <1>3, <1>14, <2>1
  <2> QED BY <2>1, <2>2
<1> HIDE DEF Y, h
<1>19. Cardinality(Y) = Cardinality(X) BY <1>15, <1>16, <1>17, <1>18, SameSize
<1> QED BY <1>13, <1>19 DEF X, Y, Tells

-----------------------------------------------------------------------------
(* Which samples a row has.                                                *)

\* As long as the retention keeps it, the row of an hour's calls of upstream has
\* the durations of the latest of them, in the order in which they arrived.
SamplesExact(b) == b[2] = "MISS" /\ b[3] + Retention >= hour =>
                     Listed(table[b].samples, Of(b), Took)

PercentileInv == ExactInv /\ \A b \in Buckets : SamplesExact(b)

\* A step in which nothing arrives.
LEMMA SameSamples ==
  ASSUME TypeInv, ArrivedOK, UNCHANGED arrived,
         \A r \in Senders : pc[r] = "recorded" => entry'[r] = entry[r],
         NEW b, table'[b] = table[b], SamplesExact(b),
         b[3] + Retention >= hour' => b[3] + Retention >= hour
  PROVE  SamplesExact(b)'
<1>1. \A i \in DOMAIN arrived :
        arrived[i].sender \in Senders /\ pc[arrived[i].sender] = "recorded"
  BY ArrivedFacts DEF ArrivedOK
<1>2. \A i \in DOMAIN arrived : Seen(i)' = Seen(i) BY <1>1 DEF Seen
<1>3. \A i \in DOMAIN arrived : Place(i)' = Place(i) BY <1>2 DEF Place
<1>4. Of(b)' = Of(b) BY <1>3 DEF Of
<1>5. Took' = Took BY <1>2 DEF Took
<1> QED BY <1>4, <1>5 DEF SamplesExact, Listed, Latest

\* mergeRecord appends the duration to the row of its key and hour alone.
LEMMA RecordSamples ==
  ASSUME PercentileInv, NEW r \in Senders, Record(r), NEW b \in Buckets
  PROVE  SamplesExact(b)'
<1>1. PICK o, n, h : o = entry[r] /\ n = Len(arrived) /\ h = hour OBVIOUS
<1> DEFINE k == <<o.key, o.status, h>>
<1>2. /\ pc[r] = "sent" /\ entry' = entry /\ hour' = h
      /\ table' = [table EXCEPT ![k] = mergeRecord(table[k], o)]
      /\ arrived' = Append(arrived, [sender |-> r, hour |-> h])
  BY <1>1 DEF Record
<1>3. /\ TypeInv /\ ArrivedOK /\ SamplesExact(b) /\ RowOK(b)
      /\ table = [c \in Buckets |-> table[c]]
  BY DEF PercentileInv, ExactInv, TypeInv, StorageInv, RowsWatched
<1>4. h \in Hours /\ h \in Nat BY <1>1, <1>3, HourFacts DEF TypeInv, StorageInv, AlarmNear
<1>5. o \in Observations
  <2>1. o \in Observations \cup {NoEntry} /\ (pc[r] = "idle" <=> o = NoEntry)
    BY <1>1, <1>3 DEF TypeInv, SendersOK
  <2> QED BY <1>2, <2>1
<1>6. /\ n \in Nat /\ DOMAIN arrived = 1..n /\ DOMAIN arrived' = 1..(n + 1)
      /\ \A i \in 1..n : arrived'[i] = arrived[i]
      /\ arrived'[n + 1] = [sender |-> r, hour |-> h]
  BY <1>1, <1>2, <1>3, <1>4 DEF ArrivedOK
<1>7. /\ \A i \in 1..n : Seen(i)' = Seen(i) /\ Place(i)' = Place(i)
      /\ Seen(n + 1)' = o /\ Place(n + 1)' = k
  <2>1. \A i \in 1..n : Seen(i)' = Seen(i) BY <1>2, <1>6 DEF Seen
  <2>2. Seen(n + 1)' = o BY <1>1, <1>2, <1>6 DEF Seen
  <2> QED BY <1>6, <2>1, <2>2 DEF Place
<1>8. n + 1 \notin 1..n /\ 1..(n + 1) = 1..n \cup {n + 1} BY <1>6
<1> HIDE DEF k
<1>9. PICK old : old = Of(b) /\ old \in SUBSET (1..n)
                 /\ Of(b)' = IF b = k THEN old \cup {n + 1} ELSE old
  <2>1. \A c : /\ Of(c) \in SUBSET (1..n)
              /\ Of(c)' = IF c = k THEN Of(c) \cup {n + 1} ELSE Of(c)
    BY <1>6, <1>7, <1>8 DEF Of
  <2> QED BY <2>1
<1>10. PICK took, more : took = Took /\ more = Took' OBVIOUS
<1>11. more[n + 1] = o.ms /\ \A i \in 1..n : more[i] = took[i]
  <2>1. \A i \in 1..n : took[i] = Seen(i).ms BY <1>6, <1>10 DEF Took
  <2>2. \A i \in 1..(n + 1) : more[i] = Seen(i)'.ms BY <1>6, <1>10 DEF Took
  <2> QED BY <1>7, <1>8, <2>1, <2>2
<1>12. PICK s \in Seq(Nat) : s = table[b].samples /\ Len(s) <= SampleLimit
  BY <1>3 DEF RowOK, RowType
<1>13. SUFFICES ASSUME b[2] = "MISS", b[3] + Retention >= h
                PROVE  Listed(table'[b].samples, Of(b)', more)
  <2>1. SamplesExact(b)' <=> (b[2] = "MISS" /\ b[3] + Retention >= hour' =>
                                Listed(table'[b].samples, Of(b)', Took'))
    BY DEF SamplesExact, Listed, Latest
  <2> QED BY <1>2, <1>10, <2>1
<1>14. Listed(s, old, took) BY <1>1, <1>3, <1>9, <1>10, <1>12, <1>13 DEF SamplesExact
<1>15. CASE b # k
  <2>1. table'[b] = table[b] BY <1>2, <1>3, <1>15
  <2>2. \A i \in old : more[i] = took[i] BY <1>9, <1>11
  <2>3. Listed(s, old, more) BY <1>14, <2>2, ListedSame
  <2> QED BY <1>9, <1>12, <1>15, <2>1, <2>3
<1>16. CASE b = k
  <2>1. table'[b] = mergeRecord(table[b], o) BY <1>2, <1>3, <1>16
  <2>2. o.status = "MISS" /\ o.ms \in Nat
    BY <1>5, <1>13, <1>16, ObservationAssumption DEF k
  <2>3. table'[b].samples = appendSample(s, o.ms) BY <1>12, <2>1, <2>2 DEF mergeRecord
  <2>4. Listed(appendSample(s, o.ms), old \cup {n + 1}, more)
    BY <1>6, <1>9, <1>11, <1>12, <1>14, <2>2, AppendListed
  <2> QED BY <1>9, <1>16, <2>3, <2>4
<1> QED BY <1>15, <1>16

LEMMA PercentileNext == PercentileInv /\ [Next]_vars => PercentileInv'
<1> SUFFICES ASSUME PercentileInv, [Next]_vars PROVE PercentileInv' OBVIOUS
<1>1. ExactInv' /\ TypeInv /\ ArrivedOK /\ hour \in Nat
      /\ pc \in [Senders -> {"idle", "sent", "recorded", "lost"}]
      /\ \A b \in Buckets : b[3] \in Nat
  BY ExactNext, HourFacts
  DEF PercentileInv, ExactInv, TypeInv, StorageInv, AlarmNear, SendersOK
<1>2. ASSUME UNCHANGED arrived, hour' \in {hour, hour + 1},
             \A r \in Senders : pc[r] = "recorded" => entry'[r] = entry[r],
             \A b \in Buckets : b[3] + Retention >= hour' => table'[b] = table[b]
      PROVE  PercentileInv'
  <2>1. ASSUME NEW b \in Buckets PROVE SamplesExact(b)'
    <3>1. CASE b[3] + Retention >= hour'
      <4>1. table'[b] = table[b] /\ SamplesExact(b) BY <1>2, <3>1 DEF PercentileInv
      <4>2. b[3] + Retention >= hour BY <1>1, <1>2, <3>1, StatisticsAssumption
      <4> QED BY <1>1, <1>2, <4>1, <4>2, SameSamples
    <3>2. CASE ~ (b[3] + Retention >= hour') BY <3>2 DEF SamplesExact
    <3> QED BY <3>1, <3>2
  <2> QED BY <1>1, <2>1 DEF PercentileInv
<1>3. ASSUME NEW r \in Senders, NEW o \in Observations, Send(r, o) PROVE PercentileInv'
  BY <1>1, <1>2, <1>3 DEF Send
<1>4. ASSUME NEW r \in Senders, Record(r) PROVE PercentileInv'
  BY <1>1, <1>4, RecordSamples DEF PercentileInv
<1>5. ASSUME NEW r \in Senders, Lose(r) PROVE PercentileInv' BY <1>1, <1>2, <1>5 DEF Lose
<1>6. CASE Query BY <1>2, <1>6 DEF Query
<1>7. CASE Retain
  <2>1. /\ table' = DeletedBut(Kept) /\ UNCHANGED <<hour, pc, entry, arrived>>
    BY <1>7 DEF Retain
  <2>2. ASSUME NEW b \in Buckets, b[3] + Retention >= hour' PROVE table'[b] = table[b]
    <3>1. b[3] \in Kept BY <2>1, <2>2 DEF Kept, Buckets
    <3> QED BY <2>1, <3>1 DEF DeletedBut
  <2> QED BY <1>2, <2>1, <2>2
<1>8. CASE Evict BY <1>2, <1>8 DEF Evict
<1>9. CASE Tick BY <1>2, <1>9 DEF Tick
<1>10. CASE UNCHANGED vars BY <1>2, <1>10 DEF vars
<1> QED BY <1>3, <1>4, <1>5, <1>6, <1>7, <1>8, <1>9, <1>10 DEF Next

LEMMA PercentileInit == Init => PercentileInv
<1> SUFFICES ASSUME Init PROVE PercentileInv OBVIOUS
<1>1. ExactInv BY ExactInit
<1>2. ASSUME NEW b \in Buckets PROVE SamplesExact(b)
  <2>1. Of(b) = {} BY DEF Init, Of
  <2>2. table[b].samples = <<>> BY DEF Init, NoRow
  <2> DEFINE f == [k \in 1..0 |-> k]
  <2>3. Len(<<>>) = 0 /\ f \in [1..0 -> {}] /\ \A k \in 1..0 : FALSE OBVIOUS
  <2> HIDE DEF f
  <2>4. Latest(<<>>, {}, Took, f) BY <2>3 DEF Latest
  <2> QED BY <2>1, <2>2, <2>4 DEF SamplesExact, Listed
<1> QED BY <1>1, <1>2 DEF PercentileInv

-----------------------------------------------------------------------------
(* What a query lists.                                                     *)

\* The samples of an hour's rows are the durations of the latest calls of each key.
LEMMA SamplesShown ==
  ASSUME PercentileInv, NEW keys \in SUBSET Keys,
         NEW h \in {b[3] : b \in Rows(keys, MaxStatsHours)},
         NEW R, R = {b \in Rows(keys, MaxStatsHours) : b[3] = h}, NEW V
  PROVE  /\ Samples(R) \in Seq(Nat)
         /\ Cardinality(Hits(Samples(R), V)) =
              Cardinality({i \in Sampled(keys, h) : Seen(i).ms \in V})
<1>1. /\ ExactInv /\ TypeInv /\ ArrivedOK
      /\ \A b \in Buckets : RowOK(b) /\ SamplesExact(b)
      /\ hour \in Nat /\ MaxStatsHours \in Windows
  BY HourFacts, StatisticsAssumption
  DEF PercentileInv, ExactInv, TypeInv, StorageInv, AlarmNear, Windows
<1>2. PICK n \in Nat : n = Len(arrived) /\ DOMAIN arrived = 1..n BY <1>1, ArrivedFacts
<1>3. IsFiniteSet(R)
  <2>1. R \in SUBSET Rows(keys, MaxStatsHours) OBVIOUS
  <2> QED BY <1>1, <2>1, RowsCount
<1>4. ASSUME NEW b \in R
      PROVE  /\ b \in Buckets /\ b[1] \in keys /\ b[3] = h /\ b[2] \in {"HIT", "MISS"}
             /\ b = <<b[1], b[2], b[3]>>
             /\ InWindow(h, MaxStatsHours) /\ b[3] + Retention >= hour
             /\ table[b].samples \in Seq(Nat) /\ Len(table[b].samples) <= SampleLimit
             /\ b[2] = "HIT" => table[b].samples = <<>>
             /\ b[2] = "MISS" => Listed(table[b].samples, Of(b), Took)
  <2>1. b \in Buckets /\ b[1] \in keys /\ b[3] = h /\ InWindow(b[3], MaxStatsHours)
    BY DEF Rows
  <2>2. b[3] \in Nat BY <2>1, HourFacts
  <2>3. b[3] + Retention >= hour BY <1>1, <2>1, <2>2, StatisticsAssumption DEF InWindow
  <2>4. b[2] \in {"HIT", "MISS"} /\ b = <<b[1], b[2], b[3]>> BY <2>1 DEF Buckets, Status
  <2>5. RowOK(b) /\ SamplesExact(b) BY <1>1, <2>1
  <2>6. /\ table[b].samples \in Seq(Nat) /\ Len(table[b].samples) <= SampleLimit
        /\ b[2] = "HIT" => table[b].samples = <<>>
    BY <2>5 DEF RowOK, RowType
  <2>7. b[2] = "MISS" => Listed(table[b].samples, Of(b), Took)
    BY <2>3, <2>5 DEF SamplesExact
  <2> QED BY <2>1, <2>3, <2>4, <2>6, <2>7
<1>5. InWindow(h, MaxStatsHours)
  <2>1. \E b \in R : TRUE OBVIOUS
  <2> QED BY <1>4, <2>1
<1> DEFINE like(i) == {j \in DOMAIN arrived : /\ Seen(j).key = Seen(i).key
                                              /\ Seen(j).status = "MISS"
                                              /\ arrived[j].hour = h}
<1>6. PICK A : A = Sampled(keys, h) OBVIOUS
<1>7. ASSUME NEW i
      PROVE  i \in A <=> /\ i \in 1..n /\ Seen(i).key \in keys /\ Seen(i).status = "MISS"
                         /\ arrived[i].hour = h /\ i \in Recent(Of(Place(i)))
  <2>1. i \in A <=> /\ i \in 1..n /\ i \in like(i) /\ Seen(i).key \in keys
                    /\ Cardinality({j \in like(i) : j > i}) < SampleLimit
    BY <1>2, <1>6 DEF Sampled
  <2>2. i \in like(i) <=> i \in 1..n /\ Seen(i).status = "MISS" /\ arrived[i].hour = h
    BY <1>2
  <2>3. Seen(i).status = "MISS" /\ arrived[i].hour = h => Of(Place(i)) = like(i)
    <3> SUFFICES ASSUME Seen(i).status = "MISS", arrived[i].hour = h, NEW j \in DOMAIN arrived
                 PROVE  Place(j) = Place(i) <=>
                          /\ Seen(j).key = Seen(i).key /\ Seen(j).status = "MISS"
                          /\ arrived[j].hour = h
      BY DEF Of
    <3> QED BY DEF Place
  <2> HIDE DEF like
  <2> QED BY <2>1, <2>2, <2>3 DEF Recent
<1>8. ASSUME NEW i \in A PROVE Place(i) \in R /\ i \in 1..n /\ i \in Recent(Of(Place(i)))
                               /\ Place(i)[2] = "MISS"
  <2>1. i \in 1..n /\ Seen(i).key \in keys /\ arrived[i].hour = h BY <1>7
  <2>2. i \in Counted(keys, MaxStatsHours) BY <1>2, <1>5, <2>1 DEF Counted
  <2>3. Place(i) \in Rows(keys, MaxStatsHours) BY <1>1, <2>2, SeenInRows
  <2>4. Place(i)[3] = h /\ Place(i)[2] = "MISS" BY <1>7, <2>1 DEF Place
  <2> QED BY <1>7, <2>3, <2>4
<1> HIDE DEF like
<1>9. ASSUME NEW b \in R, b[2] = "MISS", NEW i
      PROVE  i \in Recent(Of(b)) <=> i \in A /\ Place(i) = b
  <2>1. i \in Recent(Of(b)) => i \in 1..n /\ Place(i) = b BY <1>2 DEF Recent, Of
  <2>2. Place(i) = b => Seen(i).key = b[1] /\ Seen(i).status = b[2] /\ arrived[i].hour = b[3]
    BY DEF Place
  <2>3. b[1] \in keys /\ b[3] = h BY <1>4
  <2> QED BY <1>7, <1>9, <2>1, <2>2, <2>3
<1> DEFINE B == {i \in A : Seen(i).ms \in V}
           class == [i \in B |-> Place(i)]
           hits == [b \in R |-> Cardinality(Hits(table[b].samples, V))]
<1>10. IsFiniteSet(B)
  <2>1. IsFiniteSet(1..n) BY <1>1, <1>2, ArrivedFacts
  <2>2. B \in SUBSET (1..n) BY <1>7
  <2> QED BY <2>1, <2>2, FS_Subset
<1>11. class \in [B -> R] BY <1>8
<1>12. ASSUME NEW b \in R
       PROVE  hits[b] = Cardinality({i \in B : class[i] = b}) /\ hits[b] \in Nat
  <2>1. hits[b] = Cardinality(Hits(table[b].samples, V)) OBVIOUS
  <2>2. \A i \in B : class[i] = Place(i) OBVIOUS
  <2> HIDE DEF hits, class
  <2>3. CASE b[2] = "MISS"
    <3>1. PICK S \in SUBSET Nat : S = Of(b) /\ IsFiniteSet(S)
      <4>1. IsFiniteSet(1..n) /\ Of(b) \in SUBSET (1..n) BY <1>1, <1>2, ArrivedFacts DEF Of
      <4>2. IsFiniteSet(Of(b)) /\ Of(b) \in SUBSET Nat BY <4>1, FS_Subset
      <4> QED BY <4>2
    <3>2. PICK s \in Seq(Nat) : s = table[b].samples /\ Len(s) <= SampleLimit BY <1>4
    <3>3. Listed(s, S, Took) BY <1>4, <2>3, <3>1, <3>2
    <3>4. Cardinality(Hits(s, V)) = Cardinality(Tells(Recent(S), Took, V))
      BY <3>1, <3>2, <3>3, ListedFacts
    <3>5. Tells(Recent(S), Took, V) = {i \in B : class[i] = b}
      <4>1. \A i \in 1..n : Took[i] = Seen(i).ms BY <1>2 DEF Took
      <4>2. \A i : i \in Recent(S) <=> i \in A /\ Place(i) = b BY <1>9, <2>3, <3>1
      <4>3. \A i \in A : i \in 1..n BY <1>8
      <4> QED BY <2>2, <4>1, <4>2, <4>3 DEF Tells
    <3> QED BY <2>1, <3>2, <3>4, <3>5, HitsOfConcat
  <2>4. CASE b[2] = "HIT"
    <3>1. PICK s : s = table[b].samples OBVIOUS
    <3>2. s = <<>> BY <1>4, <2>4, <3>1
    <3>3. Hits(s, V) = {} BY <3>2 DEF Hits
    <3>4. {i \in B : class[i] = b} = {} BY <1>8, <2>2, <2>4
    <3>5. hits[b] = 0 BY <2>1, <3>1, <3>3, FS_EmptySet
    <3>6. Cardinality({i \in B : class[i] = b}) = 0 BY <3>4, FS_EmptySet
    <3> HIDE DEF B
    <3> QED BY <3>5, <3>6
  <2>5. b[2] = "HIT" \/ b[2] = "MISS" BY <1>4
  <2> HIDE DEF B
  <2> QED BY <2>3, <2>4, <2>5
<1>13. hits \in [R -> Nat] BY <1>12
<1>14. \A b \in R : table[b].samples \in Seq(Nat) BY <1>4
<1>15. Samples(R) \in Seq(Nat) /\ Cardinality(Hits(Samples(R), V)) = Total(hits, R)
  BY <1>3, <1>14, SamplesHit
<1>16. PICK C : C = B OBVIOUS
<1> HIDE DEF B, class, hits
<1>17. Total(hits, R) = Cardinality(B) BY <1>3, <1>10, <1>11, <1>12, <1>13, TotalOfClasses
<1> QED BY <1>6, <1>15, <1>17 DEF B

\* Whatever retention has deleted: the percentiles of an hour are those of the
\* latest durations of each method and chain of the filter, however many rows
\* they come from and in whatever order the query reads the rows.
THEOREM PercentilesAreExact == Spec => []PercentilesExact
<1>1. PercentileInv => PercentilesExact
  <2> DEFINE periods(keys) == Stats(keys, MaxStatsHours).periods
             Right(sampled, v, p) ==
               LET n == Cardinality(sampled)
               IN IF n = 0 THEN v = 0
                  ELSE /\ 100 * Cardinality({i \in sampled : Seen(i).ms <= v}) >= p * n
                       /\ 100 * Cardinality({i \in sampled : Seen(i).ms < v}) < p * n
  <2> SUFFICES ASSUME PercentileInv, NEW keys \in SUBSET Keys,
                      NEW h \in DOMAIN periods(keys), NEW p \in {50, 95, 99}
               PROVE  Right(Sampled(keys, h), periods(keys)[h].rank[p], p)
    BY DEF PercentilesExact
  <2>1. PICK rows, R, s, A : /\ rows = Rows(keys, MaxStatsHours)
                             /\ R = {b \in rows : b[3] = h}
                             /\ s = Samples(R) /\ A = Sampled(keys, h)
    OBVIOUS
  <2>2. periods(keys) = [k \in {b[3] : b \in rows} |-> Period({b \in rows : b[3] = k})]
    BY <2>1 DEF Stats
  <2>3. h \in {b[3] : b \in rows} /\ periods(keys)[h] = Period(R) BY <2>1, <2>2
  <2>4. Period(R).rank[p] = Percentile(s, p) BY <2>1 DEF Period
  <2>5. PICK v : v = Percentile(s, p) OBVIOUS
  <2>6. periods(keys)[h].rank[p] = v BY <2>3, <2>4, <2>5
  <2> HIDE DEF periods
  <2>7. ASSUME NEW V
        PROVE  s \in Seq(Nat) /\ Cardinality(Hits(s, V)) = Cardinality({i \in A : Seen(i).ms \in V})
    BY <2>1, <2>3, SamplesShown
  <2>8. \A i \in A : Seen(i).ms \in Nat
    <3>1. TypeInv /\ ArrivedOK BY DEF PercentileInv, ExactInv
    <3>2. A \subseteq DOMAIN arrived BY <2>1 DEF Sampled
    <3> QED BY <3>1, <3>2, ArrivedFacts, ObservationAssumption
  <2>9. PICK n \in Nat : n = Len(s) BY <2>7, LenProperties
  <2>10. Cardinality(A) = n
    <3>1. Hits(s, Nat) = 1..n
      <4>1. \A i \in 1..n : s[i] \in Nat BY <2>7, <2>9, ElementOfSeq
      <4> QED BY <2>9, <4>1 DEF Hits
    <3>2. Cardinality(1..n) = n
      <4>1. 1 \in Int /\ n \in Int /\ (n = 0 \/ ~ (1 > n)) OBVIOUS
      <4>2. Cardinality(1..n) = IF 1 > n THEN 0 ELSE n - 1 + 1 BY <4>1, FS_Interval
      <4> QED BY <4>1, <4>2
    <3>3. {i \in A : Seen(i).ms \in Nat} = A BY <2>8
    <3> QED BY <2>7, <3>1, <3>2, <3>3
  <2>11. s \in Seq(Nat) BY <2>7
  <2>12. Ranked(s, p, v) BY <2>5, <2>11, PercentileFacts
  <2>13. CASE n = 0
    <3>1. v = 0 BY <2>9, <2>12, <2>13 DEF Ranked
    <3> QED BY <2>1, <2>6, <2>10, <2>13, <3>1
  <2>14. CASE n > 0
    <3>1. /\ v \in Nat
          /\ 100 * Cardinality(Hits(s, {x \in Nat : x <= v})) >= p * n
          /\ 100 * Cardinality(Hits(s, {x \in Nat : x < v})) < p * n
      BY <2>9, <2>12, <2>14 DEF Ranked
    <3>2. /\ {i \in A : Seen(i).ms \in {x \in Nat : x <= v}} = {i \in A : Seen(i).ms <= v}
          /\ {i \in A : Seen(i).ms \in {x \in Nat : x < v}} = {i \in A : Seen(i).ms < v}
      BY <2>8
    <3>3. /\ 100 * Cardinality({i \in A : Seen(i).ms <= v}) >= p * n
          /\ 100 * Cardinality({i \in A : Seen(i).ms < v}) < p * n
      BY <2>7, <3>1, <3>2
    <3> QED BY <2>1, <2>6, <2>10, <2>14, <3>3
  <2> QED BY <2>13, <2>14
<1> QED BY <1>1, PercentileInit, PercentileNext, PTL DEF Spec
=============================================================================
