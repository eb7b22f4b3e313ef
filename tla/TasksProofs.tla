---------------------------- MODULE TasksProofs ----------------------------
(***************************************************************************)
(* What is proved about a client's batches, its preheat and their          *)
(* collector, for any number of them, of any size, and any capacity of the *)
(* rings.                                                                  *)
(***************************************************************************)
EXTENDS Tasks, SetInduction, SequenceTheorems

-----------------------------------------------------------------------------
(* The collector.  The first n lines of a log l.                           *)

Since(l, n, kind) == {i \in 1..n : /\ l[i].kind = kind
                                   /\ \A j \in 1..n : l[j].kind = "reset" => j < i}

\* The ring has what was told, the newest just before next.
RingIs(ring, told, l) ==
  /\ ring \in Ring
  /\ ring.size = IF Cardinality(told) < Capacity THEN Cardinality(told) ELSE Capacity
  /\ ring.size < Capacity => ring.next = ring.size
  /\ \A i \in told : Newer(told, i) < Capacity =>
       ring.values[(ring.next + Capacity - 1 - Newer(told, i)) % Capacity] = l[i].entry.ms

OfMethod(told, l, m) == {i \in told : l[i].entry.method = m}

MethodIs(s, l, requests, fallbacks) ==
  /\ s \in MethodMetrics
  /\ s.count = Cardinality(requests)
  /\ s.errors = Cardinality({i \in requests : ~ l[i].entry.success})
  /\ s.hits = Cardinality({i \in requests : l[i].entry.cache = "hit"})
  /\ s.misses = Cardinality({i \in requests : l[i].entry.cache = "miss"})
  /\ s.fallbacks = Cardinality(fallbacks)
  /\ RingIs(s.ring, requests, l)

\* The state of the collector is that of the first n lines.
StateIs(s, l, n) ==
  LET requests == Since(l, n, "request")
      fallbacks == Since(l, n, "fallback")
  IN  /\ s \in PerformanceMetrics
      /\ RingIs(s.ring, requests, l)
      /\ s.fallbacks = Cardinality(fallbacks)
      /\ \A m \in Methods :
           MethodIs(s.methods[m], l, OfMethod(requests, l, m), OfMethod(fallbacks, l, m))

LEMMA Wrap ==
  \A x \in Nat : x < 2 * Capacity => x % Capacity = IF x < Capacity THEN x ELSE x - Capacity
<1> SUFFICES ASSUME NEW x \in Nat, x < 2 * Capacity
             PROVE  x % Capacity = IF x < Capacity THEN x ELSE x - Capacity
  OBVIOUS
<1>1. Capacity \in Nat \ {0} BY CollectorAssumption
<1> QED BY <1>1

\* Appending to a set of line numbers.
LEMMA Counted ==
  ASSUME NEW n \in Nat, NEW told \in SUBSET (1..n)
  PROVE  /\ IsFiniteSet(told) /\ Cardinality(told) \in Nat
         /\ Cardinality(told \cup {n + 1}) = Cardinality(told) + 1
<1>1. IsFiniteSet(told)
  <2>1. 1 \in Int /\ n \in Int OBVIOUS
  <2> QED BY <2>1, FS_Interval, FS_Subset
<1>2. n + 1 \notin told OBVIOUS
<1> QED BY <1>1, <1>2, FS_AddElement, FS_CardinalityType

LEMMA NewerThan ==
  ASSUME NEW n \in Nat, NEW told \in SUBSET (1..n)
  PROVE  /\ Newer(told \cup {n + 1}, n + 1) = 0
         /\ \A i \in told : /\ Newer(told, i) \in Nat
                            /\ Newer(told, i) < Cardinality(told)
                            /\ Newer(told \cup {n + 1}, i) = Newer(told, i) + 1
<1>1. {j \in told \cup {n + 1} : j > n + 1} = {}
  <2> SUFFICES ASSUME NEW j \in told \cup {n + 1} PROVE ~ (j > n + 1) OBVIOUS
  <2>1. j \in 1..n \/ j = n + 1 OBVIOUS
  <2> QED BY <2>1
<1>2. ASSUME NEW i \in told
      PROVE  /\ Newer(told, i) \in Nat
             /\ Newer(told, i) < Cardinality(told)
             /\ Newer(told \cup {n + 1}, i) = Newer(told, i) + 1
  <2> DEFINE T == {j \in told : j > i}
  <2>1. T \in SUBSET (1..n) /\ T \in SUBSET told /\ T # told
    <3>1. i \notin T OBVIOUS
    <3> QED BY <3>1
  <2>2. {j \in told \cup {n + 1} : j > i} = T \cup {n + 1} OBVIOUS
  <2> HIDE DEF T
  <2>3. Cardinality(T) \in Nat /\ Cardinality(T \cup {n + 1}) = Cardinality(T) + 1
    BY <2>1, Counted
  <2>4. IsFiniteSet(told) /\ Cardinality(told) \in Nat BY Counted
  <2>5. Cardinality(T) <= Cardinality(told) /\ Cardinality(T) # Cardinality(told)
    BY <2>1, <2>4, FS_Subset
  <2> QED BY <2>2, <2>3, <2>4, <2>5 DEF Newer, T
<1> QED BY <1>1, <1>2, FS_EmptySet DEF Newer

\* What Push does to the ring.
LEMMA Pushed ==
  ASSUME NEW l, NEW n \in Nat, NEW told \in SUBSET (1..n), NEW ring, RingIs(ring, told, l),
         l[n + 1].entry.ms \in Nat
  PROVE  RingIs(Push(ring, l[n + 1].entry.ms), told \cup {n + 1}, l)
<1> DEFINE ms == l[n + 1].entry.ms
           new == Push(ring, ms)
           all == told \cup {n + 1}
           C == Capacity
<1>1. /\ ring.values \in [0..C - 1 -> Nat] /\ ring.size \in 0..C /\ ring.next \in 0..C - 1
      /\ C \in Nat \ {0}
  BY CollectorAssumption DEF RingIs, Ring
<1>2. /\ new.values = [ring.values EXCEPT ![ring.next] = ms]
      /\ new.size = IF ring.size < C THEN ring.size + 1 ELSE C
      /\ new.next = IF ring.next = C - 1 THEN 0 ELSE ring.next + 1
  <2>1. ring.next + 1 \in Nat /\ ring.next + 1 < 2 * C BY <1>1
  <2>2. (ring.next + 1) % C = IF ring.next = C - 1 THEN 0 ELSE ring.next + 1
    BY <1>1, <2>1, Wrap
  <2> QED BY <2>2 DEF Push
<1>3. new \in Ring
  <2>1. new.size \in 0..C /\ new.next \in 0..C - 1 /\ new.values \in [0..C - 1 -> Nat]
    BY <1>1, <1>2
  <2>2. new = [values |-> new.values, size |-> new.size, next |-> new.next] BY DEF Push
  <2> HIDE DEF new
  <2> QED BY <2>1, <2>2 DEF Ring
<1> HIDE DEF new
<1>4. /\ Cardinality(told) \in Nat /\ Cardinality(all) = Cardinality(told) + 1
  BY Counted
<1>5. /\ new.size = IF Cardinality(all) < C THEN Cardinality(all) ELSE C
      /\ new.size < C => new.next = new.size
  BY <1>1, <1>2, <1>4 DEF RingIs
<1>6. ASSUME NEW i \in all, Newer(all, i) < C
      PROVE  new.values[(new.next + C - 1 - Newer(all, i)) % C] = l[i].entry.ms
  <2>1. CASE i = n + 1
    <3>1. Newer(all, i) = 0 BY <2>1, NewerThan
    <3>2. (new.next + C - 1) % C = ring.next
      <4> DEFINE v == new.next + C - 1
      <4>1. v \in Nat /\ v < 2 * C /\ ring.next = IF v < C THEN v ELSE v - C BY <1>1, <1>2
      <4> HIDE DEF v
      <4>2. v % C = ring.next BY <4>1, Wrap
      <4> QED BY <4>2 DEF v
    <3>3. new.next + C - 1 - 0 = new.next + C - 1 BY <1>1, <1>2
    <3> QED BY <1>1, <1>2, <2>1, <3>1, <3>2, <3>3
  <2>2. CASE i # n + 1
    <3>1. i \in told BY <2>2
    <3> DEFINE k == Newer(told, i)
               old == ring.next + C - 1 - k
    <3>2. k \in Nat /\ Newer(all, i) = k + 1 BY <3>1, NewerThan
    <3> HIDE DEF k
    <3>3. k + 1 < C BY <1>6, <3>2
    <3>4. ring.values[old % C] = l[i].entry.ms
      <4>1. k < C BY <1>1, <3>2, <3>3
      <4> QED BY <3>1, <4>1 DEF RingIs, k
    <3>5. /\ old \in Nat
          /\ old % C = IF old < C THEN old ELSE old - C
          /\ old % C \in 0..C - 1 /\ old % C # ring.next
      <4>1. old \in Nat /\ old < 2 * C BY <1>1, <3>2, <3>3
      <4>2. \A v : v = old => v % C = IF v < C THEN v ELSE v - C BY <4>1, Wrap
      <4>3. old % C = IF old < C THEN old ELSE old - C BY <4>2
      <4>4. CASE old < C
        <5>1. old \in 0..C - 1 BY <1>1, <4>1, <4>4
        <5>2. old # ring.next BY <1>1, <3>2, <3>3
        <5> QED BY <4>1, <4>3, <4>4, <5>1, <5>2
      <4>5. CASE ~ (old < C)
        <5>1. old - C \in 0..C - 1 BY <1>1, <3>2, <3>3, <4>1, <4>5
        <5>2. old - C # ring.next BY <1>1, <3>2, <3>3
        <5> QED BY <4>1, <4>3, <4>5, <5>1, <5>2
      <4> QED BY <4>4, <4>5
    <3>6. (new.next + C - 1 - (k + 1)) % C = old % C
      <4>1. CASE ring.next = C - 1
        <5>1. new.next + C - 1 - (k + 1) = old - C /\ old - C \in 0..C - 1
          <6> DEFINE v == new.next
          <6>1. v = 0 BY <1>1, <1>2, <4>1
          <6> HIDE DEF v
          <6>2. v + C - 1 - (k + 1) = old - C BY <1>1, <3>2, <4>1, <6>1
          <6>3. old - C \in 0..C - 1 BY <1>1, <3>2, <3>3, <4>1
          <6> QED BY <6>2, <6>3 DEF v
        <5>2. (old - C) % C = old - C
          <6>1. old - C \in Nat /\ old - C < C /\ old - C < 2 * C BY <1>1, <5>1
          <6> QED BY <6>1, Wrap
        <5>3. ~ (old < C) BY <1>1, <3>5, <5>1
        <5> QED BY <3>5, <5>1, <5>2, <5>3
      <4>2. CASE ring.next # C - 1
        <5>1. new.next + C - 1 - (k + 1) = old BY <1>1, <1>2, <3>2, <4>2
        <5> QED BY <5>1
      <4> QED BY <4>1, <4>2
    <3>7. new.values[old % C] = ring.values[old % C] BY <1>1, <1>2, <3>5
    <3> QED BY <3>2, <3>4, <3>6, <3>7
  <2> QED BY <2>1, <2>2
<1> QED BY <1>3, <1>5, <1>6 DEF RingIs, new

\* What ToArray shows is the last lines, from the oldest to the newest.
LEMMA Shown ==
  ASSUME NEW l, NEW n \in Nat, NEW told \in SUBSET (1..n), NEW ring, RingIs(ring, told, l)
  PROVE  /\ ring.size = Min({Cardinality(told), Capacity})
         /\ \A i \in told : Newer(told, i) < Capacity =>
              ToArray(ring)[ring.size - Newer(told, i)] = l[i].entry.ms
<1> DEFINE C == Capacity
<1>1. /\ ring.size \in 0..C /\ ring.next \in 0..C - 1
      /\ C \in Nat \ {0} /\ Cardinality(told) \in Nat
  BY CollectorAssumption, Counted DEF RingIs, Ring
<1>2. ring.size = Min({Cardinality(told), C})
  <2> DEFINE a == Cardinality(told)
  <2> HIDE DEF a
  <2>1. a \in Nat BY <1>1 DEF a
  <2>2. Min({a, C}) = IF a < C THEN a ELSE C BY <1>1, <2>1 DEF Min
  <2> QED BY <2>2 DEF RingIs, a
<1>3. ASSUME NEW i \in told, Newer(told, i) < C
      PROVE  ToArray(ring)[ring.size - Newer(told, i)] = l[i].entry.ms
  <2> DEFINE k == Newer(told, i)
             place == ring.size - k
  <2>1. k \in Nat /\ k < Cardinality(told) BY NewerThan
  <2>2. ring.values[(ring.next + C - 1 - k) % C] = l[i].entry.ms BY <1>3 DEF RingIs
  <2> HIDE DEF k
  <2>3. k < C BY <1>3 DEF k
  <2>4. place \in 1..ring.size BY <1>1, <2>1, <2>3 DEF RingIs
  <2>5. CASE ring.size < C
    <3>1. ring.next = ring.size BY <2>5 DEF RingIs
    <3>2. ToArray(ring)[place] = ring.values[(0 + place - 1) % C] BY <2>4, <2>5 DEF ToArray
    <3>3. place - 1 \in 0..C - 1 /\ 0 + place - 1 = place - 1 BY <1>1, <2>1, <2>4
    <3>4. (ring.next + C - 1 - k) % C = place - 1
      <4> DEFINE v == ring.next + C - 1 - k
      <4>1. v \in Nat /\ v < 2 * C /\ ~ (v < C) /\ v - C = place - 1
        BY <1>1, <2>1, <2>4, <3>1
      <4> HIDE DEF v
      <4>2. v % C = place - 1 BY <4>1, Wrap
      <4> QED BY <4>2 DEF v
    <3>5. (0 + place - 1) % C = place - 1
      <4>1. place - 1 \in Nat /\ place - 1 < C /\ place - 1 < 2 * C BY <1>1, <3>3
      <4> QED BY <3>3, <4>1, Wrap
    <3> QED BY <2>2, <3>2, <3>4, <3>5 DEF k
  <2>6. CASE ~ (ring.size < C)
    <3>1. ring.size = C BY <1>1, <2>6
    <3>2. ToArray(ring)[place] = ring.values[(ring.next + place - 1) % C] BY <2>4, <2>6 DEF ToArray
    <3>3. ring.next + place - 1 = ring.next + C - 1 - k BY <1>1, <2>1, <3>1
    <3> QED BY <2>2, <3>2, <3>3 DEF k
  <2> QED BY <2>5, <2>6 DEF k
<1> QED BY <1>2, <1>3

LEMMA RingNat ==
  ASSUME NEW l, NEW told, NEW ring, RingIs(ring, told, l)
  PROVE  ring \in Ring
BY DEF RingIs

\* A line that is no reset adds itself to the lines of its kind.
LEMMA SinceGrows ==
  ASSUME NEW l, NEW n \in Nat, NEW kind, l[n + 1].kind # "reset"
  PROVE  /\ Since(l, n, kind) \in SUBSET (1..n)
         /\ Since(l, n + 1, kind) = IF l[n + 1].kind = kind THEN Since(l, n, kind) \cup {n + 1}
                                                            ELSE Since(l, n, kind)
<1>1. 1..(n + 1) = (1..n) \cup {n + 1} OBVIOUS
<1>2. \A i \in 1..n : i < n + 1 /\ i # n + 1 OBVIOUS
<1> QED BY <1>1, <1>2 DEF Since

\* How many lines of a set have a property: one more, if the next line has it.
LEMMA CountGrows ==
  ASSUME NEW n \in Nat, NEW told \in SUBSET (1..n), NEW has
  PROVE  Cardinality({i \in told \cup {n + 1} : has[i]})
           = Cardinality({i \in told : has[i]}) + One(has[n + 1])
<1> DEFINE old == {i \in told : has[i]}
<1>1. n + 1 \notin told OBVIOUS
<1>2. {i \in told \cup {n + 1} : has[i]} = IF has[n + 1] THEN old \cup {n + 1} ELSE old
  BY <1>1
<1>3. old \in SUBSET (1..n) OBVIOUS
<1> HIDE DEF old
<1>4. Cardinality(old) \in Nat /\ Cardinality(old \cup {n + 1}) = Cardinality(old) + 1
  BY <1>3, Counted
<1> QED BY <1>2, <1>4 DEF One, old

\* What RecordIn does, field by field.
LEMMA RecordInIs ==
  ASSUME NEW s \in PerformanceMetrics, NEW e, e.method \in Methods
  PROVE  LET t == RecordIn(s, e)
             old == s.methods[e.method]
             new == t.methods[e.method]
         IN  /\ t.ring = Push(s.ring, e.ms) /\ t.fallbacks = s.fallbacks
             /\ \A m \in Methods : m # e.method => t.methods[m] = s.methods[m]
             /\ new.count = old.count + 1 /\ new.errors = old.errors + One(~ e.success)
             /\ new.hits = old.hits + One(e.cache = "hit")
             /\ new.misses = old.misses + One(e.cache = "miss")
             /\ new.fallbacks = old.fallbacks /\ new.ring = Push(old.ring, e.ms)
             /\ t.ring \in Ring /\ new.ring \in Ring => t \in PerformanceMetrics
<1> DEFINE t == RecordIn(s, e)
           old == s.methods[e.method]
           new == RecordMethod(old, e)
<1>1. s \in [methods : [Methods -> MethodMetrics], ring : Ring, fallbacks : Nat]
  BY DEF PerformanceMetrics
<1>2. /\ t.methods = [s.methods EXCEPT ![e.method] = new]
      /\ t.ring = Push(s.ring, e.ms) /\ t.fallbacks = s.fallbacks
      /\ t = [methods |-> t.methods, ring |-> t.ring, fallbacks |-> t.fallbacks]
  BY <1>1 DEF RecordIn
<1>3. old \in MethodMetrics BY <1>1
<1> HIDE DEF t, old
<1>4. /\ new.count = old.count + 1 /\ new.errors = old.errors + One(~ e.success)
      /\ new.hits = old.hits + One(e.cache = "hit")
      /\ new.misses = old.misses + One(e.cache = "miss")
      /\ new.fallbacks = old.fallbacks /\ new.ring = Push(old.ring, e.ms)
      /\ new = [count |-> new.count, errors |-> new.errors, fallbacks |-> new.fallbacks,
                hits |-> new.hits, misses |-> new.misses, ring |-> new.ring]
  BY DEF RecordMethod
<1> HIDE DEF new
<1>5. One(~ e.success) \in Nat /\ One(e.cache = "hit") \in Nat /\ One(e.cache = "miss") \in Nat
  BY DEF One
<1>6. new.ring \in Ring => new \in MethodMetrics
  <2>1. /\ new.count \in Nat /\ new.errors \in Nat /\ new.hits \in Nat /\ new.misses \in Nat
        /\ new.fallbacks \in Nat
    BY <1>3, <1>4, <1>5 DEF MethodMetrics
  <2> QED BY <1>4, <2>1 DEF MethodMetrics
<1>7. /\ t.methods[e.method] = new
      /\ \A m \in Methods : m # e.method => t.methods[m] = s.methods[m]
  BY <1>1, <1>2
<1>8. t.ring \in Ring /\ new.ring \in Ring => t \in PerformanceMetrics
  <2> SUFFICES ASSUME t.ring \in Ring, new.ring \in Ring PROVE t \in PerformanceMetrics OBVIOUS
  <2>1. t.methods \in [Methods -> MethodMetrics] BY <1>1, <1>2, <1>6
  <2> QED BY <1>1, <1>2, <2>1 DEF PerformanceMetrics
<1> QED BY <1>2, <1>4, <1>7, <1>8 DEF t, old

LEMMA MethodGrows ==
  ASSUME NEW l, NEW n \in Nat, NEW requests \in SUBSET (1..n), NEW fallbacks, NEW s,
         MethodIs(s, l, requests, fallbacks), l[n + 1].entry.ms \in Nat
  PROVE  /\ RecordMethod(s, l[n + 1].entry).ring \in Ring
         /\ RecordMethod(s, l[n + 1].entry) \in MethodMetrics =>
              MethodIs(RecordMethod(s, l[n + 1].entry), l, requests \cup {n + 1}, fallbacks)
<1> DEFINE e == l[n + 1].entry
           t == RecordMethod(s, e)
           all == requests \cup {n + 1}
           errors == [i \in 1..(n + 1) |-> ~ l[i].entry.success]
           hits == [i \in 1..(n + 1) |-> l[i].entry.cache = "hit"]
           misses == [i \in 1..(n + 1) |-> l[i].entry.cache = "miss"]
<1>1. Cardinality(all) = Cardinality(requests) + 1 BY Counted
<1>2. \A i \in all : i \in 1..(n + 1) OBVIOUS
<1>3. /\ errors[n + 1] = ~ e.success /\ hits[n + 1] = (e.cache = "hit")
      /\ misses[n + 1] = (e.cache = "miss")
  OBVIOUS
<1>4. /\ {i \in requests : errors[i]} = {i \in requests : ~ l[i].entry.success}
      /\ {i \in requests : hits[i]} = {i \in requests : l[i].entry.cache = "hit"}
      /\ {i \in requests : misses[i]} = {i \in requests : l[i].entry.cache = "miss"}
      /\ {i \in all : errors[i]} = {i \in all : ~ l[i].entry.success}
      /\ {i \in all : hits[i]} = {i \in all : l[i].entry.cache = "hit"}
      /\ {i \in all : misses[i]} = {i \in all : l[i].entry.cache = "miss"}
  BY <1>2
<1> HIDE DEF errors, hits, misses
<1>5. /\ Cardinality({i \in all : errors[i]}) = Cardinality({i \in requests : errors[i]}) + One(errors[n + 1])
      /\ Cardinality({i \in all : hits[i]}) = Cardinality({i \in requests : hits[i]}) + One(hits[n + 1])
      /\ Cardinality({i \in all : misses[i]}) = Cardinality({i \in requests : misses[i]}) + One(misses[n + 1])
  BY CountGrows
<1>6. RingIs(t.ring, all, l)
  <2>1. RingIs(s.ring, requests, l) BY DEF MethodIs
  <2>2. t.ring = Push(s.ring, e.ms) BY DEF RecordMethod
  <2> QED BY <2>1, <2>2, Pushed
<1>7. /\ t.count = Cardinality(all)
      /\ t.errors = Cardinality({i \in all : ~ l[i].entry.success})
  BY <1>1, <1>3, <1>4, <1>5 DEF MethodIs, RecordMethod
<1>8. /\ t.hits = Cardinality({i \in all : l[i].entry.cache = "hit"})
      /\ t.misses = Cardinality({i \in all : l[i].entry.cache = "miss"})
      /\ t.fallbacks = Cardinality(fallbacks)
  BY <1>3, <1>4, <1>5 DEF MethodIs, RecordMethod
<1>9. t.ring \in Ring BY <1>6, RingNat
<1> HIDE DEF t, all
<1> QED BY <1>6, <1>7, <1>8, <1>9 DEF MethodIs, t, all

\* record.
LEMMA RecordOK ==
  ASSUME NEW l, NEW n \in Nat, NEW s, StateIs(s, l, n), l[n + 1].kind = "request",
         l[n + 1].entry.method \in Methods, l[n + 1].entry.ms \in Nat
  PROVE  StateIs(RecordIn(s, l[n + 1].entry), l, n + 1)
<1> DEFINE e == l[n + 1].entry
           t == RecordIn(s, e)
           R == Since(l, n, "request")
           F == Since(l, n, "fallback")
           Rm(m) == OfMethod(R, l, m)
           Fm(m) == OfMethod(F, l, m)
<1>1. /\ s \in PerformanceMetrics /\ RingIs(s.ring, R, l) /\ s.fallbacks = Cardinality(F)
      /\ \A m \in Methods : MethodIs(s.methods[m], l, Rm(m), Fm(m))
  BY DEF StateIs
<1>2. /\ R \in SUBSET (1..n) /\ Since(l, n + 1, "request") = R \cup {n + 1}
      /\ F \in SUBSET (1..n) /\ Since(l, n + 1, "fallback") = F
  BY SinceGrows
<1> HIDE DEF R, F
<1>3. /\ OfMethod(R \cup {n + 1}, l, e.method) = Rm(e.method) \cup {n + 1}
      /\ \A m \in Methods : m # e.method => OfMethod(R \cup {n + 1}, l, m) = Rm(m)
      /\ Rm(e.method) \in SUBSET (1..n)
  BY <1>2 DEF OfMethod
<1> HIDE DEF e, Rm, Fm
<1>4. e.method \in Methods BY DEF e
<1>5. /\ t.ring = Push(s.ring, e.ms) /\ t.fallbacks = s.fallbacks
      /\ \A m \in Methods : m # e.method => t.methods[m] = s.methods[m]
      /\ t.methods[e.method] = RecordMethod(s.methods[e.method], e)
      /\ t.ring \in Ring /\ t.methods[e.method].ring \in Ring => t \in PerformanceMetrics
  <2>1. t.methods[e.method] = RecordMethod(s.methods[e.method], e)
    BY <1>1, <1>4 DEF RecordIn, PerformanceMetrics
  <2> QED BY <1>1, <1>4, <2>1, RecordInIs
<1> HIDE DEF t
<1>6. RingIs(t.ring, R \cup {n + 1}, l) BY <1>1, <1>2, <1>5, Pushed DEF e
<1>7. MethodIs(s.methods[e.method], l, Rm(e.method), Fm(e.method)) BY <1>1, <1>4
<1>8. t.methods[e.method].ring \in Ring
  <2>1. RecordMethod(s.methods[e.method], e).ring \in Ring BY <1>3, <1>7, MethodGrows DEF e
  <2> QED BY <1>5, <2>1
<1>9. t \in PerformanceMetrics BY <1>5, <1>6, <1>8, RingNat
<1>10. MethodIs(t.methods[e.method], l, Rm(e.method) \cup {n + 1}, Fm(e.method))
  <2>1. t.methods[e.method] \in MethodMetrics BY <1>4, <1>9 DEF PerformanceMetrics
  <2>2. RecordMethod(s.methods[e.method], e) \in MethodMetrics BY <1>5, <2>1
  <2>3. MethodIs(RecordMethod(s.methods[e.method], e), l, Rm(e.method) \cup {n + 1}, Fm(e.method))
    BY <1>3, <1>7, <2>2, MethodGrows DEF e
  <2> QED BY <1>5, <2>3
<1>11. \A m \in Methods : MethodIs(t.methods[m], l, OfMethod(R \cup {n + 1}, l, m), Fm(m))
  BY <1>1, <1>3, <1>5, <1>10
<1> QED BY <1>1, <1>2, <1>5, <1>6, <1>9, <1>11 DEF StateIs, t, e, Fm

\* recordFallback.
LEMMA FallbackOK ==
  ASSUME NEW l, NEW n \in Nat, NEW s, StateIs(s, l, n), l[n + 1].kind = "fallback",
         l[n + 1].entry.method \in Methods
  PROVE  StateIs([methods |-> [s.methods EXCEPT ![l[n + 1].entry.method].fallbacks = @ + 1],
                  ring |-> s.ring, fallbacks |-> s.fallbacks + 1], l, n + 1)
<1> DEFINE e == l[n + 1].entry
           R == Since(l, n, "request")
           F == Since(l, n, "fallback")
           old == s.methods[e.method]
           new == [old EXCEPT !.fallbacks = @ + 1]
           t == [methods |-> [s.methods EXCEPT ![e.method].fallbacks = @ + 1],
                 ring |-> s.ring, fallbacks |-> s.fallbacks + 1]
<1>1. /\ s \in PerformanceMetrics /\ RingIs(s.ring, R, l) /\ s.fallbacks = Cardinality(F)
      /\ \A m \in Methods : MethodIs(s.methods[m], l, OfMethod(R, l, m), OfMethod(F, l, m))
  BY DEF StateIs
<1>2. /\ R \in SUBSET (1..n) /\ Since(l, n + 1, "request") = R
      /\ F \in SUBSET (1..n) /\ Since(l, n + 1, "fallback") = F \cup {n + 1}
  BY SinceGrows
<1> HIDE DEF R, F
<1>3. /\ OfMethod(F \cup {n + 1}, l, e.method) = OfMethod(F, l, e.method) \cup {n + 1}
      /\ \A m \in Methods : m # e.method => OfMethod(F \cup {n + 1}, l, m) = OfMethod(F, l, m)
      /\ OfMethod(F, l, e.method) \in SUBSET (1..n)
  BY <1>2 DEF OfMethod
<1> HIDE DEF e
<1>4. e.method \in Methods BY DEF e
<1>5. s = [methods |-> s.methods, ring |-> s.ring, fallbacks |-> s.fallbacks]
      /\ s.methods \in [Methods -> MethodMetrics] /\ s.ring \in Ring /\ s.fallbacks \in Nat
  BY <1>1 DEF PerformanceMetrics
<1>6. t = [methods |-> [s.methods EXCEPT ![e.method] = new],
           ring |-> s.ring, fallbacks |-> s.fallbacks + 1]
  OBVIOUS
<1>7. MethodIs(new, l, OfMethod(R, l, e.method), OfMethod(F, l, e.method) \cup {n + 1})
  <2>1. MethodIs(old, l, OfMethod(R, l, e.method), OfMethod(F, l, e.method)) BY <1>1, <1>4
  <2>2. old \in MethodMetrics BY <2>1 DEF MethodIs
  <2>3. /\ new \in MethodMetrics /\ new.fallbacks = old.fallbacks + 1
        /\ new.count = old.count /\ new.errors = old.errors /\ new.hits = old.hits
        /\ new.misses = old.misses /\ new.ring = old.ring
    BY <2>2 DEF MethodMetrics
  <2> HIDE DEF old, new
  <2>4. Cardinality(OfMethod(F, l, e.method) \cup {n + 1}) = Cardinality(OfMethod(F, l, e.method)) + 1
    BY <1>3, Counted
  <2> QED BY <2>1, <2>3, <2>4 DEF MethodIs
<1>8. new \in MethodMetrics BY <1>7 DEF MethodIs
<1> HIDE DEF new, t
<1>9. t \in PerformanceMetrics
  <2>1. [s.methods EXCEPT ![e.method] = new] \in [Methods -> MethodMetrics] BY <1>5, <1>8
  <2>2. s.fallbacks + 1 \in Nat BY <1>5
  <2> QED BY <1>5, <1>6, <2>1, <2>2 DEF PerformanceMetrics
<1>10. \A m \in Methods :
         MethodIs(t.methods[m], l, OfMethod(R, l, m), OfMethod(F \cup {n + 1}, l, m))
  BY <1>1, <1>3, <1>4, <1>5, <1>6, <1>7
<1>11. t.fallbacks = Cardinality(F \cup {n + 1}) /\ t.ring = s.ring
  BY <1>1, <1>2, <1>6, Counted
<1> QED BY <1>1, <1>2, <1>9, <1>10, <1>11 DEF StateIs, t, e

\* reset, and the beginning.
LEMMA FreshOK ==
  ASSUME NEW l, NEW n, Since(l, n, "request") = {}, Since(l, n, "fallback") = {}
  PROVE  StateIs(Fresh, l, n)
<1>1. Cardinality({}) = 0 /\ Capacity \in Nat \ {0} BY FS_EmptySet, CollectorAssumption
<1>2. EmptyRing \in Ring BY <1>1 DEF EmptyRing, Ring
<1>3. RingIs(EmptyRing, {}, l)
  <2>1. EmptyRing.size = 0 /\ EmptyRing.next = 0 BY DEF EmptyRing
  <2> QED BY <1>1, <1>2, <2>1 DEF RingIs
<1>4. NoMetrics \in MethodMetrics BY <1>2 DEF NoMetrics, MethodMetrics
<1>5. Fresh \in PerformanceMetrics BY <1>2, <1>4 DEF Fresh, PerformanceMetrics
<1>6. MethodIs(NoMetrics, l, {}, {})
  <2>1. /\ NoMetrics.count = 0 /\ NoMetrics.errors = 0 /\ NoMetrics.fallbacks = 0
        /\ NoMetrics.hits = 0 /\ NoMetrics.misses = 0 /\ NoMetrics.ring = EmptyRing
    BY DEF NoMetrics
  <2>2. /\ {i \in {} : ~ l[i].entry.success} = {} /\ {i \in {} : l[i].entry.cache = "hit"} = {}
        /\ {i \in {} : l[i].entry.cache = "miss"} = {}
    OBVIOUS
  <2> QED BY <1>1, <1>3, <1>4, <2>1, <2>2 DEF MethodIs
<1>7. /\ Fresh.ring = EmptyRing /\ Fresh.fallbacks = 0
      /\ \A m \in Methods : Fresh.methods[m] = NoMetrics
  BY DEF Fresh
<1>8. \A m \in Methods : OfMethod({}, l, m) = {} BY DEF OfMethod
<1> QED BY <1>1, <1>3, <1>5, <1>6, <1>7, <1>8 DEF StateIs

LEMMA ResetOK ==
  ASSUME NEW l, NEW n \in Nat, l[n + 1].kind = "reset"
  PROVE  StateIs(Fresh, l, n + 1)
<1>1. n + 1 \in 1..(n + 1) /\ \A i \in 1..(n + 1) : ~ (n + 1 < i) OBVIOUS
<1>2. Since(l, n + 1, "request") = {} /\ Since(l, n + 1, "fallback") = {} BY <1>1 DEF Since
<1> QED BY <1>2, FreshOK

\* Only the first n lines matter.
LEMMA SameLines ==
  ASSUME NEW s, NEW k, NEW l, NEW n \in Nat, StateIs(s, k, n), \A i \in 1..n : l[i] = k[i]
  PROVE  StateIs(s, l, n)
<1> DEFINE R == Since(k, n, "request")
           F == Since(k, n, "fallback")
<1>1. Since(l, n, "request") = R /\ Since(l, n, "fallback") = F BY DEF Since
<1>2. R \in SUBSET (1..n) /\ F \in SUBSET (1..n) BY DEF Since
<1>3. /\ s \in PerformanceMetrics /\ RingIs(s.ring, R, k) /\ s.fallbacks = Cardinality(F)
      /\ \A m \in Methods : MethodIs(s.methods[m], k, OfMethod(R, k, m), OfMethod(F, k, m))
  BY DEF StateIs
<1> HIDE DEF R, F
<1>4. ASSUME NEW told \in SUBSET (1..n), NEW ring, RingIs(ring, told, k)
      PROVE  RingIs(ring, told, l)
  <2>1. \A i \in told : l[i] = k[i] OBVIOUS
  <2> QED BY <1>4, <2>1 DEF RingIs
<1>5. ASSUME NEW m \in Methods
      PROVE  /\ OfMethod(R, l, m) = OfMethod(R, k, m) /\ OfMethod(F, l, m) = OfMethod(F, k, m)
             /\ MethodIs(s.methods[m], l, OfMethod(R, k, m), OfMethod(F, k, m))
  <2>1. OfMethod(R, l, m) = OfMethod(R, k, m) /\ OfMethod(F, l, m) = OfMethod(F, k, m)
    BY <1>2 DEF OfMethod
  <2> DEFINE told == OfMethod(R, k, m)
             u == s.methods[m]
  <2>2. told \in SUBSET (1..n) BY <1>2 DEF OfMethod
  <2>3. MethodIs(u, k, told, OfMethod(F, k, m)) BY <1>3, <1>5
  <2> HIDE DEF told, u
  <2>4. /\ {i \in told : ~ l[i].entry.success} = {i \in told : ~ k[i].entry.success}
        /\ {i \in told : l[i].entry.cache = "hit"} = {i \in told : k[i].entry.cache = "hit"}
        /\ {i \in told : l[i].entry.cache = "miss"} = {i \in told : k[i].entry.cache = "miss"}
    BY <2>2
  <2>5. RingIs(u.ring, told, l) BY <1>4, <2>2, <2>3 DEF MethodIs
  <2>6. MethodIs(u, l, told, OfMethod(F, k, m)) BY <2>3, <2>4, <2>5 DEF MethodIs
  <2> QED BY <2>1, <2>6 DEF told, u
<1>6. RingIs(s.ring, R, l) BY <1>2, <1>3, <1>4
<1> QED BY <1>1, <1>3, <1>5, <1>6 DEF StateIs

-----------------------------------------------------------------------------
(* The log.                                                                *)

Sources == ({"batch"} \X Batches \X Nat) \cup ({"preheat"} \X Nat) \cup {<<"single">>}

MetricsEntry == [from : Sources, method : Methods, success : BOOLEAN, ms : Nat,
                 cache : {"hit", "miss", "unknown"}]

Line == [kind : {"request", "fallback"}, entry : MetricsEntry] \cup [kind : {"reset"}]

Request(e) == [kind |-> "request", entry |-> e]

\* What a step adds to the log.
Logged(l, new, grown) ==
  /\ grown \in Seq(Line)
  /\ Len(grown) = Len(l) + Len(new)
  /\ DOMAIN grown = 1..(Len(l) + Len(new))
  /\ \A i \in 1..Len(l) : grown[i] = l[i]
  /\ \A i \in 1..Len(new) : grown[Len(l) + i] = new[i]

LEMMA LogGrows ==
  ASSUME NEW l \in Seq(Line), NEW entries \in Seq(MetricsEntry)
  PROVE  Logged(l, [i \in DOMAIN entries |-> Request(entries[i])],
                l \o [i \in DOMAIN entries |-> Request(entries[i])])
<1> DEFINE new == [i \in DOMAIN entries |-> Request(entries[i])]
<1>1. DOMAIN entries = 1..Len(entries) /\ Len(entries) \in Nat OBVIOUS
<1>2. \A i \in DOMAIN entries : Request(entries[i]) \in Line BY DEF Request, Line
<1>3. new \in Seq(Line) /\ Len(new) = Len(entries) BY <1>1, <1>2
<1> HIDE DEF new
<1>4. l \o new \in Seq(Line) /\ Len(l \o new) = Len(l) + Len(new) BY <1>3
<1>5. \A i \in 1..Len(l) : (l \o new)[i] = l[i] BY <1>3
<1>6. \A i \in 1..Len(new) : (l \o new)[Len(l) + i] = new[i] BY <1>3
<1> QED BY <1>4, <1>5, <1>6 DEF Logged, new

LEMMA LogAppends ==
  ASSUME NEW l \in Seq(Line), NEW line \in Line
  PROVE  Logged(l, <<line>>, Append(l, line))
BY DEF Logged

LEMMA PushType ==
  ASSUME NEW ring \in Ring, NEW ms \in Nat
  PROVE  Push(ring, ms) \in Ring
<1> DEFINE x == ring.next + 1
<1>1. /\ ring.values \in [0..Capacity - 1 -> Nat] /\ ring.size \in 0..Capacity
      /\ ring.next \in 0..Capacity - 1 /\ Capacity \in Nat \ {0}
  BY CollectorAssumption DEF Ring
<1>2. x \in Nat /\ x < 2 * Capacity /\ x <= Capacity BY <1>1
<1> HIDE DEF x
<1>3. x % Capacity \in 0..Capacity - 1 BY <1>1, <1>2, Wrap
<1> QED BY <1>1, <1>3 DEF Push, Ring, x

\* record, for one entry after the other.
LEMMA RecordAllOK ==
  ASSUME NEW entries \in Seq(MetricsEntry), log \in Seq(Line), StateIs(metrics, log, Len(log)),
         RecordAll(entries)
  PROVE  /\ StateIs(metrics', log', Len(log'))
         /\ Logged(log, [i \in DOMAIN entries |-> Request(entries[i])], log')
<1> DEFINE N == Len(entries)
           n == Len(log)
           Follows(f) == f = [i \in 0..N |-> IF i = 0 THEN metrics
                                                      ELSE RecordIn(f[i - 1], entries[i])]
           after == CHOOSE f : Follows(f)
           PM == PerformanceMetrics
<1>1. N \in Nat /\ n \in Nat /\ DOMAIN entries = 1..N
      /\ \A i \in 1..N : entries[i] \in MetricsEntry
  OBVIOUS
<1>2. Logged(log, [i \in DOMAIN entries |-> Request(entries[i])], log')
  BY LogGrows DEF RecordAll, Request
<1>3. metrics' = after[N] BY DEF RecordAll
<1>4. \E f : Follows(f)
  <2> DEFINE step == [i \in Nat |-> [s \in PM |-> IF i < N THEN RecordIn(s, entries[i + 1]) ELSE s]]
  <2>1. ASSUME NEW s \in PM, NEW i \in Nat, i < N PROVE RecordIn(s, entries[i + 1]) \in PM
    <3> DEFINE e == entries[i + 1]
    <3>1. e \in MetricsEntry BY <1>1, <2>1
    <3> HIDE DEF e
    <3>2. e.method \in Methods /\ e.ms \in Nat BY <3>1 DEF MetricsEntry
    <3>3. s.ring \in Ring /\ s.methods[e.method].ring \in Ring
      BY <3>2 DEF PerformanceMetrics, MethodMetrics
    <3>4. Push(s.ring, e.ms) \in Ring /\ Push(s.methods[e.method].ring, e.ms) \in Ring
      BY <3>2, <3>3, PushType
    <3>5. RecordIn(s, e) \in PM BY <3>2, <3>4, RecordInIs
    <3> QED BY <3>5 DEF e
  <2>2. step \in [Nat -> [PM -> PM]] BY <2>1
  <2>3. metrics \in PM BY DEF StateIs
  <2>4. PICK g \in [Nat -> PM] : Iterates(g, metrics, step)
    <3> HIDE DEF step, PM
    <3> QED BY <2>2, <2>3, NatRecursion
  <2> DEFINE f == [i \in 0..N |-> g[i]]
  <2>5. f[0] = metrics BY <1>1, <2>4 DEF Iterates
  <2>6. ASSUME NEW i \in 1..N PROVE f[i] = RecordIn(f[i - 1], entries[i])
    <3> DEFINE j == i - 1
    <3>1. j \in Nat /\ j < N /\ j + 1 = i /\ j \in 0..N /\ i \in 0..N BY <1>1
    <3> HIDE DEF j
    <3>2. g[j + 1] = step[j][g[j]] /\ g[j] \in PM BY <2>4, <3>1 DEF Iterates
    <3>3. g[i] = RecordIn(g[j], entries[i]) BY <3>1, <3>2
    <3> QED BY <3>1, <3>3 DEF j
  <2>7. f = [i \in 0..N |-> IF i = 0 THEN metrics ELSE RecordIn(f[i - 1], entries[i])]
    <3>1. \A i \in 0..N : i # 0 => i \in 1..N BY <1>1
    <3> HIDE DEF f
    <3>2. \A i \in 0..N : f[i] = IF i = 0 THEN metrics ELSE RecordIn(f[i - 1], entries[i])
      BY <2>5, <2>6, <3>1
    <3>3. f = [i \in 0..N |-> f[i]] BY DEF f
    <3> QED BY <3>2, <3>3
  <2> HIDE DEF f
  <2> QED BY <2>7
<1>5. Follows(after) BY <1>4
<1> HIDE DEF after
<1>6. after[0] = metrics BY <1>1, <1>5
<1>7. ASSUME NEW i \in Nat, i < N PROVE after[i + 1] = RecordIn(after[i], entries[i + 1])
  <2>1. i + 1 \in 0..N /\ i + 1 # 0 /\ (i + 1) - 1 = i BY <1>1, <1>7
  <2> QED BY <1>5, <2>1
<1> DEFINE T == {i \in Nat : i <= N => StateIs(after[i], log', n + i)}
<1>8. 0 \in T
  <2>1. \A i \in 1..n : log'[i] = log[i] BY <1>2 DEF Logged
  <2>2. StateIs(metrics, log', n) BY <1>1, <2>1, SameLines
  <2> QED BY <1>1, <1>6, <2>2
<1>9. ASSUME NEW i \in Nat, i \in T PROVE i + 1 \in T
  <2> SUFFICES ASSUME i + 1 <= N PROVE StateIs(after[i + 1], log', n + (i + 1)) OBVIOUS
  <2> DEFINE e == entries[i + 1]
  <2>1. i < N /\ i + 1 \in 1..N /\ n + i \in Nat /\ n + (i + 1) = (n + i) + 1 BY <1>1
  <2>2. StateIs(after[i], log', n + i) BY <1>9, <2>1
  <2>3. e \in MetricsEntry BY <1>1, <2>1
  <2>4. log'[(n + i) + 1] = Request(e)
    <3> DEFINE new == [k \in DOMAIN entries |-> Request(entries[k])]
    <3>1. Len(new) = N BY <1>1
    <3>2. new[i + 1] = Request(e) BY <1>1, <2>1
    <3> HIDE DEF new
    <3>3. log'[n + (i + 1)] = new[i + 1] BY <1>2, <2>1, <3>1 DEF Logged, new
    <3> QED BY <2>1, <3>2, <3>3
  <2> HIDE DEF e
  <2>5. /\ log'[(n + i) + 1].kind = "request" /\ log'[(n + i) + 1].entry = e
        /\ e.method \in Methods /\ e.ms \in Nat
    BY <2>3, <2>4 DEF Request, MetricsEntry
  <2>6. StateIs(RecordIn(after[i], e), log', (n + i) + 1) BY <2>1, <2>2, <2>5, RecordOK
  <2>7. after[i + 1] = RecordIn(after[i], e) BY <1>7, <2>1 DEF e
  <2> QED BY <2>1, <2>6, <2>7
<1> HIDE DEF T
<1>10. N \in T BY <1>1, <1>8, <1>9, NatSetInduction
<1>11. Len(log') = n + N
  <2>1. Len([i \in DOMAIN entries |-> Request(entries[i])]) = N BY <1>1
  <2> QED BY <1>2, <2>1 DEF Logged
<1> QED BY <1>1, <1>2, <1>3, <1>10, <1>11 DEF T

-----------------------------------------------------------------------------
(* The snapshot.                                                           *)

Counts(field) == [m \in Methods |-> metrics.methods[m][field]]

LEMMA SnapshotIsTotal ==
  \A field \in {"count", "errors", "hits", "misses", "fallbacks"} :
    Snapshot(field) = Total(Counts(field), Methods)
BY DEF Snapshot, FoldFunctionOnSet, MapThenFoldSet, Total, Adds, Counts

LEMMA SumOfMethods ==
  ASSUME NEW A, IsFiniteSet(A), \A i \in A : log[i].entry.method \in Methods,
         NEW f \in [Methods -> Nat], \A m \in Methods : f[m] = Cardinality(OfMethod(A, log, m))
  PROVE  Total(f, Methods) = Cardinality(A)
<1> DEFINE class == [i \in A |-> log[i].entry.method]
<1>1. class \in [A -> Methods] OBVIOUS
<1>2. \A m \in Methods : {i \in A : class[i] = m} = OfMethod(A, log, m) BY DEF OfMethod
<1>3. \A m \in Methods : f[m] = Cardinality({i \in A : class[i] = m}) BY <1>2
<1> HIDE DEF class
<1>4. IsFiniteSet(Methods) BY CollectorAssumption
<1> QED BY <1>1, <1>3, <1>4, TotalOfClasses

\* The sums over the methods count every line once.
LEMMA SnapshotOf ==
  ASSUME log \in Seq(Line), StateIs(metrics, log, Len(log))
  PROVE  SnapshotExact
<1> DEFINE n == Len(log)
           R == Told("request")
           F == Told("fallback")
           errors == {i \in R : ~ log[i].entry.success}
           hits == {i \in R : log[i].entry.cache = "hit"}
           misses == {i \in R : log[i].entry.cache = "miss"}
<1>1. n \in Nat /\ DOMAIN log = 1..n /\ \A i \in 1..n : log[i] \in Line OBVIOUS
<1>2. /\ Since(log, n, "request") = R /\ Since(log, n, "fallback") = F
      /\ R \in SUBSET (1..n) /\ F \in SUBSET (1..n)
  BY <1>1 DEF Told, Since
<1>3. \A i \in R \cup F : log[i].entry.method \in Methods
  <2> SUFFICES ASSUME NEW i \in R \cup F PROVE log[i].entry.method \in Methods OBVIOUS
  <2>1. log[i] \in Line /\ log[i].kind \in {"request", "fallback"} BY <1>1 DEF Told
  <2>2. log[i] \in [kind : {"request", "fallback"}, entry : MetricsEntry] BY <2>1 DEF Line
  <2> QED BY <2>2 DEF MetricsEntry
<1>4. /\ RingIs(metrics.ring, R, log) /\ metrics.fallbacks = Cardinality(F)
      /\ \A m \in Methods :
           MethodIs(metrics.methods[m], log, OfMethod(R, log, m), OfMethod(F, log, m))
  BY <1>2 DEF StateIs
<1> HIDE DEF R, F
<1>5. /\ IsFiniteSet(R) /\ IsFiniteSet(F)
      /\ IsFiniteSet(errors) /\ IsFiniteSet(hits) /\ IsFiniteSet(misses)
  <2>1. IsFiniteSet(R) /\ IsFiniteSet(F) BY <1>1, <1>2, Counted
  <2> QED BY <2>1, FS_Subset
<1>6. ASSUME NEW m \in Methods
      PROVE  /\ {i \in OfMethod(R, log, m) : ~ log[i].entry.success} = OfMethod(errors, log, m)
             /\ {i \in OfMethod(R, log, m) : log[i].entry.cache = "hit"} = OfMethod(hits, log, m)
             /\ {i \in OfMethod(R, log, m) : log[i].entry.cache = "miss"} = OfMethod(misses, log, m)
  BY DEF OfMethod
<1>7. ASSUME NEW m \in Methods
      PROVE  /\ Counts("count")[m] \in Nat /\ Counts("errors")[m] \in Nat
             /\ Counts("hits")[m] \in Nat /\ Counts("misses")[m] \in Nat
             /\ Counts("fallbacks")[m] \in Nat
             /\ Counts("count")[m] = Cardinality(OfMethod(R, log, m))
             /\ Counts("errors")[m] = Cardinality(OfMethod(errors, log, m))
             /\ Counts("hits")[m] = Cardinality(OfMethod(hits, log, m))
             /\ Counts("misses")[m] = Cardinality(OfMethod(misses, log, m))
             /\ Counts("fallbacks")[m] = Cardinality(OfMethod(F, log, m))
  <2> DEFINE s == metrics.methods[m]
  <2>1. MethodIs(s, log, OfMethod(R, log, m), OfMethod(F, log, m)) BY <1>4
  <2>2. /\ s["count"] = s.count /\ s["errors"] = s.errors /\ s["hits"] = s.hits
        /\ s["misses"] = s.misses /\ s["fallbacks"] = s.fallbacks
    OBVIOUS
  <2>3. \A field : Counts(field)[m] = s[field] BY DEF Counts
  <2> HIDE DEF s, errors, hits, misses
  <2>4. /\ s.count \in Nat /\ s.errors \in Nat /\ s.hits \in Nat /\ s.misses \in Nat
        /\ s.fallbacks \in Nat
    BY <2>1 DEF MethodIs, MethodMetrics
  <2>5. /\ s.count = Cardinality(OfMethod(R, log, m))
        /\ s.errors = Cardinality(OfMethod(errors, log, m))
        /\ s.hits = Cardinality(OfMethod(hits, log, m))
        /\ s.misses = Cardinality(OfMethod(misses, log, m))
        /\ s.fallbacks = Cardinality(OfMethod(F, log, m))
    BY <1>6, <2>1 DEF MethodIs
  <2> QED BY <2>2, <2>3, <2>4, <2>5
<1> DEFINE Fields == {"count", "errors", "hits", "misses", "fallbacks"}
<1>8. \A field \in Fields : Counts(field) \in [Methods -> Nat]
  <2>1. \A field \in Fields : Counts(field) = [m \in Methods |-> Counts(field)[m]]
    BY DEF Counts
  <2> QED BY <1>7, <2>1
<1>9. \A i \in errors \cup hits \cup misses : log[i].entry.method \in Methods BY <1>3
<1> HIDE DEF errors, hits, misses
<1>10. /\ Total(Counts("count"), Methods) = Cardinality(R)
       /\ Total(Counts("fallbacks"), Methods) = Cardinality(F)
  BY <1>3, <1>5, <1>7, <1>8, SumOfMethods
<1>11. /\ Total(Counts("errors"), Methods) = Cardinality(errors)
       /\ Total(Counts("hits"), Methods) = Cardinality(hits)
       /\ Total(Counts("misses"), Methods) = Cardinality(misses)
  BY <1>5, <1>7, <1>8, <1>9, SumOfMethods
<1>12. ASSUME NEW told \in SUBSET (1..n), NEW ring, RingIs(ring, told, log)
       PROVE  Recent(ring, told)
  <2> HIDE DEF n
  <2> QED BY <1>1, <1>12, Shown DEF Recent
<1>13. ASSUME NEW m \in Methods
       PROVE  Recent(metrics.methods[m].ring, {i \in R : log[i].entry.method = m})
  <2>1. OfMethod(R, log, m) \in SUBSET (1..n) BY <1>2 DEF OfMethod
  <2>2. RingIs(metrics.methods[m].ring, OfMethod(R, log, m), log) BY <1>4 DEF MethodIs
  <2>3. Recent(metrics.methods[m].ring, OfMethod(R, log, m)) BY <1>12, <2>1, <2>2
  <2> QED BY <2>3 DEF OfMethod
<1>14. Recent(metrics.ring, R) BY <1>2, <1>4, <1>12
<1> QED BY <1>4, <1>10, <1>11, <1>13, <1>14, SnapshotIsTotal
        DEF SnapshotExact, R, F, errors, hits, misses

-----------------------------------------------------------------------------
(* Invariants.                                                             *)

\* The collector's state is that of the log.
CollectorInv == log \in Seq(Line) /\ StateIs(metrics, log, Len(log))

N == Len(Preheats)
From(j) == log[j].entry.from
Free(i) == \A w \in Workers : worker[w] # i

\* The requests before the cursor are under way, in one worker each, ...
PoolInv ==
  /\ cursor \in 1..N + 1 /\ worker \in [Workers -> 0..N + 1]
  /\ fired = [i \in Preheated |-> One(i < cursor)]
  /\ cursor = 1 => \A w \in Workers : worker[w] = Idle
  /\ cursor > 1 => \A w \in Workers : worker[w] # Idle
  /\ \A w \in Workers : worker[w] \in Preheated => worker[w] < cursor
  /\ \A w \in Workers : worker[w] = Finished => cursor = N + 1
  /\ \A v, w \in Workers : worker[v] = worker[w] /\ v # w => worker[v] \notin Preheated

\* ... or reported, in one line each.
ReportInv ==
  /\ \A j \in Reported : \E i \in Preheated : From(j) = <<"preheat", i>> /\ i < cursor /\ Free(i)
  /\ \A j, k \in Reported : From(j) = From(k) => j = k
  /\ \A i \in Preheated : i < cursor /\ Free(i) => \E j \in Reported : From(j) = <<"preheat", i>>
  /\ failed = Cardinality({j \in Reported : ~ log[j].entry.success})

PreheatInv == PoolInv /\ ReportInv

BatchResult == [id : Ids, of : Nat, as : Methods \cup {"raw"}, ok : BOOLEAN,
                outcome : {"value", "bad", "error"}]

DecodedResult(b, i, outcome) ==
  [id |-> Items[b][i].id, of |-> i, as |-> Items[b][i].action,
   ok |-> outcome = "value", outcome |-> outcome]

RawList(b, list) == \A i \in 1..Len(list) : /\ list[i] = Result(b, i, list[i].outcome)
                                            /\ list[i].outcome \in Outcomes(b, i)

DecodedList(b, list) == \A i \in 1..Len(list) : /\ list[i] = DecodedResult(b, i, list[i].outcome)
                                                /\ list[i].outcome \in Outcomes(b, i)

Once(b, i) == \E j \in DOMAIN log : Entries(b, i) = {j}

NotCounted(b) == \A i \in Index(b) : Entries(b, i) = {}

Phases == {"idle", "posting", "backoff", "serial", "native", "done"}
Paths == {"none", "post", "serial", "native"}
Served == {"value", "bad", "error", "running"}

\* Where a batch is says which of its items are answered, and counted.
BatchInv(b) ==
  /\ at[b] \in Phases /\ tries[b] \in 0..Attempts /\ path[b] \in Paths
  /\ served[b] \in [Index(b) -> Served]
  /\ \A i \in Index(b) : served[b][i] \in Outcomes(b, i) \cup {"running"}
  /\ results[b] \in Seq(BatchResult)
  /\ at[b] \in {"idle", "posting", "backoff"} => results[b] = <<>> /\ NotCounted(b)
  /\ at[b] = "idle" => tries[b] = 0
  /\ at[b] = "backoff" => tries[b] < Attempts
  /\ at[b] \in {"posting", "backoff"} => Len(Items[b]) > 0
  /\ at[b] \in {"serial", "native"} => Len(results[b]) < Len(Items[b])
  /\ at[b] = "serial" =>
       /\ RawList(b, results[b])
       /\ \A i \in Index(b) : IF i <= Len(results[b]) THEN Once(b, i) ELSE Entries(b, i) = {}
       /\ \A i \in Index(b) : \A j \in Entries(b, i) :
            log[j].entry.success = (results[b][i].outcome # "error")
  /\ at[b] = "native" => DecodedList(b, results[b]) /\ NotCounted(b)
  /\ at[b] # "done" => path[b] = "none"
  /\ at[b] = "done" =>
       /\ Len(results[b]) = Len(Items[b]) /\ DecodedList(b, results[b])
       /\ path[b] = "none" => Items[b] = <<>>
       /\ path[b] = "native" => NotCounted(b)
       /\ path[b] \in {"serial", "post"} => \A i \in Index(b) : Once(b, i)
       /\ path[b] = "serial" =>
            \A i \in Index(b) : \A j \in Entries(b, i) :
              log[j].entry.success = (results[b][i].outcome # "error")
       /\ path[b] = "post" =>
            \A i \in Index(b) : \A j \in Entries(b, i) :
              log[j].entry.success = ById(results[b], Items[b][i].id).ok

\* The variables of the batches are functions.
BatchFunctions == /\ at = [b \in Batches |-> at[b]]
             /\ tries = [b \in Batches |-> tries[b]]
             /\ served = [b \in Batches |-> served[b]]
             /\ results = [b \in Batches |-> results[b]]
             /\ path = [b \in Batches |-> path[b]]

TasksInv == /\ CollectorInv /\ PreheatInv
            /\ BatchFunctions /\ \A b \in Batches : BatchInv(b)
            /\ single \in {"idle", "failed", "done"} /\ resets \in 0..MaxResets

-----------------------------------------------------------------------------
(* Steps of the collector.                                                 *)

\* What is in the log stays there.
Kept == \A j \in DOMAIN log : j \in DOMAIN log' /\ log'[j] = log[j]

\* A step adds one line.
OneLine(line) == /\ Kept
                 /\ DOMAIN log' = DOMAIN log \cup {Len(log) + 1}
                 /\ Len(log) + 1 \notin DOMAIN log
                 /\ log'[Len(log) + 1] = line

LEMMA LoggedOne ==
  ASSUME log \in Seq(Line), NEW line, NEW new, DOMAIN new = 1..1, Len(new) = 1, new[1] = line,
         Logged(log, new, log')
  PROVE  OneLine(line)
<1>1. DOMAIN log = 1..Len(log) /\ Len(log) \in Nat OBVIOUS
<1>2. DOMAIN log' = 1..(Len(log) + 1) /\ log'[Len(log) + 1] = line BY <1>1 DEF Logged
<1>3. 1..(Len(log) + 1) = 1..Len(log) \cup {Len(log) + 1} BY <1>1
<1> QED BY <1>1, <1>2, <1>3 DEF OneLine, Kept, Logged

LEMMA RecordOneOK ==
  ASSUME CollectorInv, NEW e \in MetricsEntry, RecordAll(<<e>>)
  PROVE  CollectorInv' /\ OneLine(Request(e))
<1> DEFINE new == [i \in DOMAIN <<e>> |-> Request(<<e>>[i])]
<1>1. <<e>> \in Seq(MetricsEntry) OBVIOUS
<1>2. StateIs(metrics', log', Len(log')) /\ Logged(log, new, log')
  BY <1>1, RecordAllOK DEF CollectorInv
<1>3. DOMAIN new = 1..1 /\ Len(new) = 1 /\ new[1] = Request(e) OBVIOUS
<1> HIDE DEF new
<1> QED BY <1>2, <1>3, LoggedOne DEF CollectorInv, Logged

LEMMA FallbackStep ==
  ASSUME CollectorInv, NEW e \in MetricsEntry, RecordFallback(e)
  PROVE  CollectorInv' /\ OneLine([kind |-> "fallback", entry |-> e])
<1> DEFINE line == [kind |-> "fallback", entry |-> e]
           n == Len(log)
<1>1. line \in Line /\ log \in Seq(Line) /\ n \in Nat /\ log' = Append(log, line)
  BY DEF Line, RecordFallback, CollectorInv
<1>2. Logged(log, <<line>>, log') BY <1>1, LogAppends
<1>3. OneLine(line) BY <1>1, <1>2, LoggedOne
<1>4. Len(log') = n + 1 /\ log' \in Seq(Line) /\ \A i \in 1..n : log'[i] = log[i]
  BY <1>1, <1>2 DEF Logged
<1>5. StateIs(metrics, log', n) BY <1>1, <1>4, SameLines DEF CollectorInv
<1>6. log'[n + 1].kind = "fallback" /\ log'[n + 1].entry = e /\ e.method \in Methods
  BY <1>3 DEF OneLine, MetricsEntry
<1>7. StateIs(metrics', log', n + 1) BY <1>1, <1>5, <1>6, FallbackOK DEF RecordFallback
<1> QED BY <1>3, <1>4, <1>7 DEF CollectorInv

LEMMA ResetStep ==
  ASSUME CollectorInv, Reset
  PROVE  CollectorInv' /\ OneLine([kind |-> "reset"])
<1> DEFINE line == [kind |-> "reset"]
           n == Len(log)
<1>1. line \in Line /\ log \in Seq(Line) /\ n \in Nat /\ log' = Append(log, line)
  BY DEF Line, Reset, CollectorInv
<1>2. Logged(log, <<line>>, log') BY <1>1, LogAppends
<1>3. OneLine(line) BY <1>1, <1>2, LoggedOne
<1>4. Len(log') = n + 1 /\ log' \in Seq(Line) BY <1>1, <1>2 DEF Logged
<1>5. log'[n + 1].kind = "reset" BY <1>3 DEF OneLine
<1>6. StateIs(metrics', log', n + 1) BY <1>1, <1>5, ResetOK DEF Reset
<1> QED BY <1>3, <1>4, <1>6 DEF CollectorInv

-----------------------------------------------------------------------------
(* The preheat.                                                            *)

LEMMA Pool ==
  /\ N \in Nat /\ Preheated = 1..N /\ Finished = N + 1 /\ Idle = 0
  /\ \A i \in Preheated : Preheats[i] \in Methods
  /\ \E k \in 0..N : Workers = 1..k /\ Cardinality(Workers) = k /\ (N > 0 => k > 0)
<1>1. N \in Nat /\ Preheated = 1..N /\ \A i \in Preheated : Preheats[i] \in Methods
  BY PreheatAssumption DEF Preheated, N
<1> DEFINE k == Min({Concurrency, N})
<1>2. k = IF Concurrency <= N THEN Concurrency ELSE N
  <2>1. Concurrency \in Nat BY PreheatAssumption
  <2> QED BY <1>1, <2>1 DEF Min
<1>3. k \in 0..N /\ (N > 0 => k > 0) BY <1>1, <1>2, PreheatAssumption
<1>4. Workers = 1..k BY DEF Workers, N
<1> HIDE DEF k
<1>5. Cardinality(1..k) = k
  <2>1. 1 \in Int /\ k \in Int /\ k >= 0 BY <1>1, <1>3
  <2>2. Cardinality(1..k) = IF 1 > k THEN 0 ELSE k - 1 + 1 BY <2>1, FS_Interval
  <2> QED BY <2>1, <2>2
<1> QED BY <1>1, <1>3, <1>4, <1>5 DEF Finished, Idle, N

\* A line of somebody else.
LEMMA ReportedSame ==
  ASSUME NEW line, OneLine(line), line.kind = "request" => line.entry.from[1] # "preheat"
  PROVE  Reported' = Reported /\ \A j \in Reported : log'[j] = log[j]
BY DEF OneLine, Kept, Reported

LEMMA PreheatFrame ==
  ASSUME PreheatInv, UNCHANGED preheatVars, Reported' = Reported,
         \A j \in Reported : log'[j] = log[j]
  PROVE  PreheatInv'
<1>1. \A j \in Reported : From(j)' = From(j) BY DEF From
<1>2. \A i : Free(i)' <=> Free(i) BY DEF Free, preheatVars
<1>3. {j \in Reported' : ~ log'[j].entry.success} = {j \in Reported : ~ log[j].entry.success}
  OBVIOUS
<1>4. PoolInv' BY DEF PreheatInv, PoolInv, preheatVars
<1>5. ReportInv'
  <2>1. \A j \in Reported' : \E i \in Preheated : From(j)' = <<"preheat", i>> /\ i < cursor' /\ Free(i)'
    BY <1>1, <1>2 DEF PreheatInv, ReportInv, preheatVars
  <2>2. \A j, k \in Reported' : From(j)' = From(k)' => j = k
    BY <1>1 DEF PreheatInv, ReportInv
  <2>3. \A i \in Preheated : i < cursor' /\ Free(i)' => \E j \in Reported' : From(j)' = <<"preheat", i>>
    BY <1>1, <1>2 DEF PreheatInv, ReportInv, preheatVars
  <2>4. failed' = Cardinality({j \in Reported' : ~ log'[j].entry.success})
    BY <1>3 DEF PreheatInv, ReportInv, preheatVars
  <2> QED BY <2>1, <2>2, <2>3, <2>4 DEF ReportInv
<1> QED BY <1>4, <1>5 DEF PreheatInv

LEMMA ReportedFinite ==
  ASSUME log \in Seq(Line)
  PROVE  Reported \in SUBSET (1..Len(log)) /\ Len(log) \in Nat /\ IsFiniteSet(Reported)
<1>1. Reported \in SUBSET (1..Len(log)) /\ Len(log) \in Nat BY DEF Reported
<1> QED BY <1>1, Counted

LEMMA StartPreheatOK ==
  ASSUME CollectorInv, PreheatInv, StartPreheat
  PROVE  PreheatInv'
<1>1. PICK k \in 0..N : Workers = 1..k /\ Cardinality(Workers) = k BY Pool
<1>2. /\ cursor' = k + 1 /\ worker' = [w \in Workers |-> w] /\ failed' = failed
      /\ fired' = [i \in Preheated |-> One(i \in Workers)] /\ log' = log /\ k > 0
  BY <1>1 DEF StartPreheat
<1>3. cursor = 1
  <2>1. \A w \in Workers : worker[w] = Idle BY DEF StartPreheat
  <2>2. 1 \in Workers BY <1>1, <1>2, Pool
  <2>3. cursor \in 1..N + 1 /\ (cursor > 1 => \A w \in Workers : worker[w] # Idle)
    BY DEF PreheatInv, PoolInv
  <2> QED BY <2>1, <2>2, <2>3, Pool
<1>4. Reported = {}
  <2> SUFFICES ASSUME NEW j \in Reported PROVE FALSE OBVIOUS
  <2>1. PICK i \in Preheated : i < cursor BY DEF PreheatInv, ReportInv
  <2> QED BY <1>3, <2>1, Pool
<1>5. Reported' = {} BY <1>2, <1>4 DEF Reported
<1>6. \A i \in Preheated : i < k + 1 <=> i \in Workers BY <1>1, Pool
<1>7. \A i \in Workers : ~ Free(i)' BY <1>2 DEF Free
<1>8. failed' = Cardinality({j \in Reported' : ~ log'[j].entry.success})
  <2>1. {j \in Reported' : ~ log'[j].entry.success} = {}
        /\ {j \in Reported : ~ log[j].entry.success} = {}
    BY <1>4, <1>5
  <2> QED BY <1>2, <2>1 DEF PreheatInv, ReportInv
<1>9. /\ cursor' \in 1..N + 1 /\ worker' \in [Workers -> 0..N + 1]
      /\ fired' = [i \in Preheated |-> One(i < cursor')]
      /\ \A w \in Workers : worker'[w] # Idle /\ worker'[w] # Finished /\ worker'[w] < cursor'
      /\ cursor' # 1
  BY <1>1, <1>2, <1>6, Pool
<1>10. \A v, w \in Workers : v # w => worker'[v] # worker'[w] BY <1>2
<1>11. \A i \in Preheated : i < cursor' => ~ Free(i)' BY <1>2, <1>6, <1>7
<1>12. PoolInv' BY <1>9, <1>10 DEF PoolInv
<1>13. ReportInv' BY <1>5, <1>8, <1>11 DEF ReportInv
<1> QED BY <1>12, <1>13 DEF PreheatInv

PreheatEntry(w, success, ms, cache) ==
  [from |-> <<"preheat", worker[w]>>, method |-> Preheats[worker[w]],
   success |-> success, ms |-> ms, cache |-> cache]

\* What Take does, whether or not there is a next request.
Takes(w, next) ==
  /\ next \in 1..N + 1 /\ cursor <= next
  /\ worker' = [worker EXCEPT ![w] = next]
  /\ cursor' \in 1..N + 1 /\ cursor <= cursor'
  /\ \A i \in Preheated : i < cursor' <=> i < cursor \/ i = next
  /\ fired' = [i \in Preheated |-> One(i < cursor')]
  /\ IF next = N + 1 THEN cursor' = N + 1 ELSE next < cursor'

LEMMA Taken ==
  ASSUME PoolInv, NEW w \in Workers, Take(w)
  PROVE  \E next : Takes(w, next)
<1>1. cursor \in 1..N + 1 /\ fired = [i \in Preheated |-> One(i < cursor)] /\ N \in Nat
  BY Pool DEF PoolInv
<1>2. CASE cursor <= N
  <2>1. /\ worker' = [worker EXCEPT ![w] = cursor] /\ cursor' = cursor + 1
        /\ fired' = [fired EXCEPT ![cursor] = @ + 1]
    BY <1>2 DEF Take, N
  <2>2. ASSUME NEW i \in Preheated PROVE fired'[i] = One(i < cursor')
    <3>1. i \in Nat BY Pool
    <3>2. CASE i = cursor
      <4>1. ~ (i < cursor) /\ i < cursor + 1 BY <1>1, <3>2
      <4>2. fired[i] = 0 BY <1>1, <4>1 DEF One
      <4>3. fired'[i] = fired[i] + 1 BY <1>1, <2>1, <3>2
      <4> QED BY <2>1, <4>1, <4>2, <4>3 DEF One
    <3>3. CASE i # cursor
      <4>1. i < cursor <=> i < cursor + 1 BY <1>1, <3>1, <3>3
      <4>2. fired'[i] = fired[i] BY <1>1, <2>1, <3>3
      <4> QED BY <1>1, <2>1, <4>1, <4>2 DEF One
    <3> QED BY <3>2, <3>3
  <2>3. fired' = [i \in Preheated |-> One(i < cursor')]
    <3>1. fired' = [i \in Preheated |-> fired'[i]] BY <1>1, <2>1
    <3> QED BY <2>2, <3>1
  <2>4. \A i \in Preheated : i < cursor' <=> i < cursor \/ i = cursor BY <1>1, <2>1, Pool
  <2>5. cursor' \in 1..N + 1 /\ cursor <= cursor' /\ cursor # N + 1 /\ cursor < cursor'
        /\ cursor <= cursor
    BY <1>1, <1>2, <2>1
  <2>6. Takes(w, cursor) BY <1>1, <2>1, <2>3, <2>4, <2>5 DEF Takes
  <2> QED BY <2>6
<1>3. CASE ~ (cursor <= N)
  <2>1. worker' = [worker EXCEPT ![w] = Finished] /\ cursor' = cursor /\ fired' = fired
    BY <1>3 DEF Take, N
  <2>2. cursor = N + 1 /\ Finished = N + 1 /\ N + 1 \in 1..N + 1 /\ N + 1 <= N + 1
    BY <1>1, <1>3, Pool
  <2>3. \A i \in Preheated : i # N + 1 BY <1>1, Pool
  <2>4. Takes(w, N + 1) BY <1>1, <2>1, <2>2, <2>3 DEF Takes
  <2> QED BY <2>4
<1> QED BY <1>2, <1>3

LEMMA PreheatOK ==
  ASSUME CollectorInv, PreheatInv, NEW w \in Workers, Preheat(w)
  PROVE  /\ CollectorInv' /\ PreheatInv'
         /\ \E e \in MetricsEntry : e.from[1] = "preheat" /\ OneLine(Request(e))
<1>0. PICK i0, n : i0 = worker[w] /\ n = Len(log) OBVIOUS
<1>1. i0 \in Preheated /\ Take(w) BY <1>0 DEF Preheat
<1>2. PICK e \in MetricsEntry :
        /\ e.from = <<"preheat", i0>> /\ RecordAll(<<e>>) /\ failed' = failed + One(~ e.success)
  <2>1. PICK success \in BOOLEAN, ms \in PreheatTimes : \E cache \in CacheStatus(success) :
          /\ RecordAll(<<PreheatEntry(w, success, ms, cache)>>)
          /\ failed' = failed + One(~ success)
    BY DEF Preheat, PreheatEntry
  <2>2. PICK cache \in CacheStatus(success) :
          /\ RecordAll(<<PreheatEntry(w, success, ms, cache)>>)
          /\ failed' = failed + One(~ success)
    BY <2>1
  <2> DEFINE e == PreheatEntry(w, success, ms, cache)
  <2>3. ms \in Nat /\ cache \in {"hit", "miss", "unknown"} BY PreheatAssumption DEF CacheStatus
  <2>4. Preheats[i0] \in Methods /\ <<"preheat", i0>> \in Sources BY <1>1, Pool DEF Sources
  <2>5. e \in MetricsEntry BY <1>0, <2>3, <2>4 DEF PreheatEntry, MetricsEntry
  <2>6. e.from = <<"preheat", i0>> /\ e.success = success BY <1>0 DEF PreheatEntry
  <2> HIDE DEF e
  <2> QED BY <2>2, <2>5, <2>6 DEF e
<1>3. CollectorInv' /\ OneLine(Request(e)) BY <1>2, RecordOneOK
<1>4. PoolInv /\ ReportInv BY DEF PreheatInv
<1>5. PICK next : Takes(w, next) BY <1>1, <1>4, Taken
<1>6. /\ N \in Nat /\ Preheated = 1..N /\ Finished = N + 1 /\ Idle = 0
      /\ cursor \in 1..N + 1 /\ worker \in [Workers -> 0..N + 1]
      /\ i0 < cursor /\ cursor > 1
  BY <1>0, <1>1, <1>4, Pool DEF PoolInv
<1>7. /\ next \in 1..N + 1 /\ cursor <= next /\ cursor' \in 1..N + 1 /\ cursor <= cursor'
      /\ worker' \in [Workers -> 0..N + 1] /\ worker'[w] = next
      /\ \A v \in Workers : v # w => worker'[v] = worker[v]
  BY <1>5, <1>6 DEF Takes
<1>8. \A v \in Workers : v # w => worker[v] # i0 BY <1>0, <1>1, <1>4 DEF PoolInv
<1>9. PoolInv'
  <2>1. fired' = [i \in Preheated |-> One(i < cursor')] BY <1>5 DEF Takes
  <2>2. cursor' > 1 /\ cursor' # 1 BY <1>6, <1>7
  <2>3. \A v \in Workers : worker'[v] # Idle
    <3>1. \A v \in Workers : worker[v] # Idle BY <1>4, <1>6 DEF PoolInv
    <3> QED BY <1>6, <1>7, <3>1
  <2>4. \A v \in Workers : worker'[v] \in Preheated => worker'[v] < cursor'
    <3> SUFFICES ASSUME NEW v \in Workers, worker'[v] \in Preheated PROVE worker'[v] < cursor'
      OBVIOUS
    <3>1. CASE v = w BY <1>5, <1>6, <1>7, <3>1 DEF Takes
    <3>2. CASE v # w
      <4>1. worker[v] < cursor BY <1>4, <1>7, <3>2 DEF PoolInv
      <4> QED BY <1>6, <1>7, <3>2, <4>1
    <3> QED BY <3>1, <3>2
  <2>5. \A v \in Workers : worker'[v] = Finished => cursor' = N + 1
    <3> SUFFICES ASSUME NEW v \in Workers, worker'[v] = Finished PROVE cursor' = N + 1
      OBVIOUS
    <3>1. CASE v = w BY <1>5, <1>6, <1>7, <3>1 DEF Takes
    <3>2. CASE v # w
      <4>1. cursor = N + 1 BY <1>4, <1>7, <3>2 DEF PoolInv
      <4> QED BY <1>6, <1>7, <4>1
    <3> QED BY <3>1, <3>2
  <2>6. \A v \in Workers : v # w /\ worker[v] \in Preheated => worker[v] # next
    <3> SUFFICES ASSUME NEW v \in Workers, worker[v] \in Preheated PROVE worker[v] # next
      OBVIOUS
    <3>1. worker[v] < cursor BY <1>4 DEF PoolInv
    <3> QED BY <1>6, <1>7, <3>1
  <2>7. \A v, x \in Workers : worker'[v] = worker'[x] /\ v # x => worker'[v] \notin Preheated
    <3>1. \A v, x \in Workers : worker[v] = worker[x] /\ v # x => worker[v] \notin Preheated
      BY <1>4 DEF PoolInv
    <3> QED BY <1>7, <2>6, <3>1
  <2> QED BY <1>7, <2>1, <2>2, <2>3, <2>4, <2>5, <2>7 DEF PoolInv
\* The request is free now; the one that is taken was not reported.
<1>10. ASSUME NEW i \in Preheated
       PROVE  i < cursor' /\ Free(i)' <=> i = i0 \/ (i < cursor /\ Free(i))
  <2>1. Free(i) <=> i # i0 /\ \A v \in Workers : v # w => worker[v] # i BY <1>0 DEF Free
  <2>2. Free(i)' <=> i # next /\ \A v \in Workers : v # w => worker[v] # i
    BY <1>7 DEF Free
  <2>3. i < cursor' <=> i < cursor \/ i = next BY <1>5 DEF Takes
  <2>4. i < cursor => i # next BY <1>6, <1>7
  <2> QED BY <1>6, <1>8, <2>1, <2>2, <2>3, <2>4
<1>11. /\ Reported' = Reported \cup {n + 1} /\ n + 1 \notin Reported
       /\ \A j \in Reported : log'[j] = log[j]
       /\ log'[n + 1] = Request(e)
  <2>1. /\ Kept /\ DOMAIN log' = DOMAIN log \cup {n + 1} /\ n + 1 \notin DOMAIN log
        /\ log'[n + 1] = Request(e)
    BY <1>0, <1>3 DEF OneLine
  <2>2. Request(e).kind = "request" /\ Request(e).entry.from[1] = "preheat" BY <1>2 DEF Request
  <2>3. \A j \in DOMAIN log : log'[j] = log[j] BY <2>1 DEF Kept
  <2>4. Reported' = {j \in DOMAIN log \cup {n + 1} :
                       log'[j].kind = "request" /\ log'[j].entry.from[1] = "preheat"}
    BY <2>1 DEF Reported
  <2>5. Reported' = Reported \cup {n + 1} BY <2>1, <2>2, <2>3, <2>4 DEF Reported
  <2> QED BY <2>1, <2>3, <2>5 DEF Reported
<1>12. From(n + 1)' = <<"preheat", i0>> /\ \A j \in Reported : From(j)' = From(j)
  BY <1>2, <1>11 DEF From, Request
<1>13. \A j \in Reported : From(j) # <<"preheat", i0>>
  <2> SUFFICES ASSUME NEW j \in Reported, From(j) = <<"preheat", i0>> PROVE FALSE OBVIOUS
  <2>1. PICK i \in Preheated : From(j) = <<"preheat", i>> /\ Free(i) BY <1>4 DEF ReportInv
  <2>2. i = i0 BY <2>1
  <2> QED BY <1>0, <2>1, <2>2 DEF Free
<1>14. ReportInv'
  <2>1. \A j \in Reported' :
          \E i \in Preheated : From(j)' = <<"preheat", i>> /\ i < cursor' /\ Free(i)'
    <3>1. From(n + 1)' = <<"preheat", i0>> /\ i0 \in Preheated /\ i0 < cursor' /\ Free(i0)'
      BY <1>1, <1>10, <1>12
    <3>2. ASSUME NEW j \in Reported
          PROVE  \E i \in Preheated : From(j)' = <<"preheat", i>> /\ i < cursor' /\ Free(i)'
      <4>1. PICK i \in Preheated : From(j) = <<"preheat", i>> /\ i < cursor /\ Free(i)
        BY <1>4 DEF ReportInv
      <4> QED BY <1>10, <1>12, <4>1
    <3> QED BY <1>11, <3>1, <3>2
  <2>2. \A j, k \in Reported' : From(j)' = From(k)' => j = k
    <3>1. \A j, k \in Reported : From(j) = From(k) => j = k BY <1>4 DEF ReportInv
    <3> QED BY <1>11, <1>12, <1>13, <3>1
  <2>3. ASSUME NEW i \in Preheated, i < cursor', Free(i)'
        PROVE  \E j \in Reported' : From(j)' = <<"preheat", i>>
    <3>1. CASE i = i0 BY <1>11, <1>12, <3>1
    <3>2. CASE i # i0
      <4>1. PICK j \in Reported : From(j) = <<"preheat", i>>
        BY <1>4, <1>10, <2>3, <3>2 DEF ReportInv
      <4> QED BY <1>11, <1>12, <4>1
    <3> QED BY <3>1, <3>2
  <2>4. failed' = Cardinality({j \in Reported' : ~ log'[j].entry.success})
    <3> DEFINE old == {j \in Reported : ~ log[j].entry.success}
               new == {j \in Reported' : ~ log'[j].entry.success}
    <3>1. Request(e).entry = e BY DEF Request
    <3>2. new = IF e.success THEN old ELSE old \cup {n + 1} BY <1>11, <3>1
    <3>3. IsFiniteSet(old)
      <4>1. IsFiniteSet(Reported) BY ReportedFinite DEF CollectorInv
      <4> QED BY <4>1, FS_Subset
    <3>4. n + 1 \notin old BY <1>11
    <3>5. failed = Cardinality(old) BY <1>4 DEF ReportInv
    <3> HIDE DEF old, new
    <3>6. Cardinality(old) \in Nat /\ Cardinality(old \cup {n + 1}) = Cardinality(old) + 1
      BY <3>3, <3>4, FS_AddElement, FS_CardinalityType
    <3>7. failed' = Cardinality(new) BY <1>2, <3>2, <3>5, <3>6 DEF One
    <3> QED BY <3>7 DEF new
  <2> QED BY <2>1, <2>2, <2>3, <2>4 DEF ReportInv
<1>15. e.from[1] = "preheat" BY <1>2
<1> QED BY <1>3, <1>9, <1>14, <1>15 DEF PreheatInv

\* What the pool's invariant says when a worker, or the pool, is finished.
LEMMA PreheatShown ==
  ASSUME CollectorInv, PreheatInv
  PROVE  PreheatTypeOK /\ PreheatExact
<1>1. PoolInv /\ ReportInv BY DEF PreheatInv
<1>2. /\ N \in Nat /\ Preheated = 1..N /\ Finished = N + 1
      /\ cursor \in 1..N + 1 /\ fired = [i \in Preheated |-> One(i < cursor)]
  BY <1>1, Pool DEF PoolInv
<1>3. PICK k \in 0..N : Workers = 1..k /\ (N > 0 => k > 0) BY Pool
<1> DEFINE bad == {j \in Reported : ~ log[j].entry.success}
<1>4. failed = Cardinality(bad) BY <1>1 DEF ReportInv
<1>5. failed \in 0..N
  <2> DEFINE f == [j \in bad |-> From(j)[2]]
  <2>1. ASSUME NEW j \in bad PROVE f[j] \in Preheated /\ From(j) = <<"preheat", f[j]>>
    <3>1. PICK i \in Preheated : From(j) = <<"preheat", i>> BY <1>1 DEF ReportInv
    <3> QED BY <3>1
  <2>2. f \in Injection(bad, Preheated)
    <3>1. f \in [bad -> Preheated]
      <4>1. \A j \in bad : From(j)[2] \in Preheated BY <2>1
      <4> QED BY <4>1
    <3>2. \A j, l \in bad : f[j] = f[l] => j = l
      <4>1. \A j, l \in bad : f[j] = f[l] => From(j) = From(l) BY <2>1
      <4> QED BY <1>1, <4>1 DEF ReportInv
    <3> HIDE DEF f, bad
    <3> QED BY <3>1, <3>2 DEF Injection, IsInjective
  <2> HIDE DEF f, bad
  <2>3. 1 \in Int /\ N \in Int BY <1>2
  <2>4. IsFiniteSet(Preheated) /\ Cardinality(Preheated) = N
    <3>1. IsFiniteSet(1..N) /\ Cardinality(1..N) = IF 1 > N THEN 0 ELSE N - 1 + 1
      BY <2>3, FS_Interval
    <3> QED BY <1>2, <3>1
  <2>5. IsFiniteSet(bad) /\ Cardinality(bad) <= N BY <2>2, <2>4, FS_Injection
  <2> QED BY <1>2, <1>4, <2>5, FS_CardinalityType
<1>6. fired \in [Preheated -> Nat] /\ \A i \in Preheated : fired[i] <= 1 BY <1>2 DEF One
<1>7. PreheatTypeOK
  BY <1>1, <1>2, <1>5, <1>6 DEF PreheatTypeOK, PoolInv, N
<1>8. Fired = {i \in Preheated : i < cursor} BY <1>2 DEF Fired, One
<1>9. \A w \in Workers : worker[w] = Finished => cursor = N + 1 BY <1>1 DEF PoolInv
<1>10. cursor = N + 1 => Fired = Preheated BY <1>2, <1>8
<1>11. ASSUME \A w \in Workers : worker[w] = Finished
       PROVE  {log[j].entry.from[2] : j \in Reported} = Preheated
  <2>1. \A i \in Preheated : Free(i) BY <1>2, <1>11 DEF Free
  <2>2. ASSUME NEW i \in Preheated PROVE i \in {log[j].entry.from[2] : j \in Reported}
    <3>1. 1 \in Workers BY <1>2, <1>3
    <3>2. i < cursor BY <1>2, <1>9, <1>11, <3>1
    <3>3. PICK j \in Reported : From(j) = <<"preheat", i>> BY <1>1, <2>1, <3>2 DEF ReportInv
    <3> QED BY <3>3 DEF From
  <2>3. ASSUME NEW j \in Reported PROVE log[j].entry.from[2] \in Preheated
    <3>1. PICK i \in Preheated : From(j) = <<"preheat", i>> BY <1>1 DEF ReportInv
    <3> QED BY <3>1 DEF From
  <2> QED BY <2>2, <2>3
<1>12. \A v, w \in Workers : worker[v] = worker[w] /\ v # w => worker[v] \notin Preheated
  BY <1>1 DEF PoolInv
<1> QED BY <1>4, <1>6, <1>7, <1>9, <1>10, <1>11, <1>12 DEF PreheatExact

-----------------------------------------------------------------------------
(* The batches.                                                            *)

LEMMA Batched ==
  ASSUME NEW b \in Batches
  PROVE  /\ Items[b] \in Seq([id : Ids, action : Methods])
         /\ Len(Items[b]) \in Nat /\ Index(b) = 1..Len(Items[b])
         /\ \A i \in Index(b) : /\ Items[b][i].id \in Ids /\ Items[b][i].action \in Methods
                                /\ Outcomes(b, i) \subseteq {"value", "bad", "error"}
                                /\ "running" \notin Outcomes(b, i)
<1>1. Items[b] \in Seq([id : Ids, action : Methods]) BY BatchAssumption
<1>2. Len(Items[b]) \in Nat /\ Index(b) = 1..Len(Items[b]) BY <1>1 DEF Index
<1>3. \A i \in Index(b) : Items[b][i] \in [id : Ids, action : Methods]
  BY <1>1, <1>2, ElementOfSeq
<1> QED BY <1>1, <1>2, <1>3 DEF Outcomes

\* The log has no new line of a batch, and none is lost.
EntriesKept(b) == Kept /\ \A i \in Index(b) : Entries(b, i)' = Entries(b, i)

LEMMA EntriesSame ==
  ASSUME NEW line, OneLine(line), line.kind = "request" => line.entry.from[1] # "batch"
  PROVE  \A b \in Batches : EntriesKept(b)
BY DEF OneLine, Kept, Entries, EntriesKept

LEMMA EntriesUnchanged ==
  ASSUME UNCHANGED log
  PROVE  \A b \in Batches : EntriesKept(b)
BY DEF Kept, Entries, EntriesKept

BatchUnchanged(b) == /\ at'[b] = at[b] /\ tries'[b] = tries[b] /\ served'[b] = served[b]
                     /\ results'[b] = results[b] /\ path'[b] = path[b]

LEMMA EntriesFrame ==
  ASSUME NEW b \in Batches, EntriesKept(b)
  PROVE  /\ NotCounted(b)' <=> NotCounted(b)
         /\ \A i \in Index(b) : /\ Entries(b, i)' = Entries(b, i)
                                /\ Once(b, i)' <=> Once(b, i)
                                /\ \A j \in Entries(b, i) : log'[j] = log[j]
<1>1. \A i \in Index(b) : Entries(b, i)' = Entries(b, i) BY DEF EntriesKept
<1>2. \A i \in Index(b) : \A j \in Entries(b, i) : j \in DOMAIN log /\ j \in DOMAIN log' /\ log'[j] = log[j]
  BY DEF EntriesKept, Entries, Kept
<1>3. \A i \in Index(b) : Once(b, i)' <=> Once(b, i) BY <1>1, <1>2 DEF Once
<1> QED BY <1>1, <1>2, <1>3 DEF NotCounted

LEMMA BatchFrame ==
  ASSUME NEW b \in Batches, BatchInv(b), BatchUnchanged(b), EntriesKept(b)
  PROVE  BatchInv(b)'
BY EntriesFrame DEF BatchInv, BatchUnchanged

Others(b) == \A c \in Batches : c # b => BatchUnchanged(c)

\* What a step of a batch leaves to the others.
StepOf(b) == BatchFunctions' /\ Others(b)

\* A step of a batch that the log does not see.
LEMMA StartBatchOK ==
  ASSUME BatchFunctions, NEW b \in Batches, BatchInv(b), StartBatch(b)
  PROVE  StepOf(b) /\ BatchInv(b)'
<1>1. UNCHANGED <<results, path, log>> BY DEF StartBatch
<1>2. at[b] = "idle" /\ tries[b] = 0 BY DEF StartBatch, BatchInv
<1>3. EntriesKept(b) BY <1>1, EntriesUnchanged
<1>4. NotCounted(b)' BY <1>2, <1>3 DEF EntriesKept, NotCounted, BatchInv
<1>5. Len(Items[b]) \in Nat /\ (Items[b] = <<>> <=> Len(Items[b]) = 0)
  BY Batched
<1>6. Attempts \in Nat \ {0} BY BatchAssumption
<1>7. CASE Items[b] = <<>>
  <2>1. at' = [at EXCEPT ![b] = "done"] /\ UNCHANGED <<tries, served>>
    BY <1>7 DEF StartBatch
  <2>2. StepOf(b) BY <1>1, <2>1 DEF StepOf, BatchFunctions, Others, BatchUnchanged
  <2>3. at'[b] = "done" BY <2>1 DEF BatchFunctions
  <2>4. \A i : i \notin Index(b) BY <1>7 DEF Index
  <2>5. results[b] = <<>> /\ Len(<<>>) = 0 BY <1>2 DEF BatchInv
  <2>6. DecodedList(b, <<>>) BY DEF DecodedList
  <2> QED BY <1>1, <1>2, <1>4, <1>7, <2>1, <2>2, <2>3, <2>4, <2>5, <2>6 DEF BatchInv, Phases
<1>8. CASE Items[b] # <<>> /\ Post(b)
  <2>1. /\ at' = [at EXCEPT ![b] = "posting"] /\ tries' = [tries EXCEPT ![b] = @ + 1]
        /\ UNCHANGED served
    BY <1>8 DEF Post
  <2>2. StepOf(b) BY <1>1, <2>1 DEF StepOf, BatchFunctions, Others, BatchUnchanged
  <2>3. at'[b] = "posting" /\ tries'[b] = 1 BY <1>2, <2>1 DEF BatchFunctions
  <2> QED BY <1>1, <1>2, <1>4, <1>5, <1>6, <1>8, <2>1, <2>2, <2>3 DEF BatchInv, Phases
<1>9. CASE Items[b] # <<>> /\ at' = [at EXCEPT ![b] = "native"] /\ UNCHANGED <<tries, served>>
  <2>1. StepOf(b) BY <1>1, <1>9 DEF StepOf, BatchFunctions, Others, BatchUnchanged
  <2>2. at'[b] = "native" BY <1>9 DEF BatchFunctions
  <2>3. results[b] = <<>> /\ Len(<<>>) = 0 BY <1>2 DEF BatchInv
  <2>4. DecodedList(b, <<>>) BY DEF DecodedList
  <2> QED BY <1>1, <1>2, <1>4, <1>5, <1>9, <2>1, <2>2, <2>3, <2>4 DEF BatchInv, Phases
<1> QED BY <1>7, <1>8, <1>9 DEF StartBatch

LEMMA SettleOK ==
  ASSUME BatchFunctions, NEW b \in Batches, BatchInv(b), NEW i \in Index(b), Settle(b, i)
  PROVE  StepOf(b) /\ BatchInv(b)'
<1>1. UNCHANGED <<at, tries, results, path, log>> BY DEF Settle
<1>2. PICK outcome \in Outcomes(b, i) : served' = [served EXCEPT ![b][i] = outcome]
  BY DEF Settle
<1>3. at[b] = "posting" BY DEF Settle
<1>4. StepOf(b) BY <1>1, <1>2 DEF StepOf, BatchFunctions, Others, BatchUnchanged
<1>5. served'[b] = [served[b] EXCEPT ![i] = outcome] BY <1>2 DEF BatchFunctions
<1>6. outcome \in Served BY Batched DEF Served
<1>7. /\ served'[b] \in [Index(b) -> Served]
      /\ \A k \in Index(b) : served'[b][k] \in Outcomes(b, k) \cup {"running"}
  BY <1>5, <1>6 DEF BatchInv
<1>8. NotCounted(b)'
  BY <1>1, <1>3, EntriesUnchanged DEF EntriesKept, NotCounted, BatchInv
<1> QED BY <1>1, <1>3, <1>4, <1>7, <1>8 DEF BatchInv

LEMMA UnservedOK ==
  ASSUME NEW b \in Batches
  PROVE  /\ Unserved(b) \in [Index(b) -> Served]
         /\ \A i \in Index(b) : Unserved(b)[i] \in Outcomes(b, i) \cup {"running"}
BY DEF Unserved, Served

\* PostFails, PostRefused.
LEMMA PostLostOK ==
  ASSUME BatchFunctions, NEW b \in Batches, BatchInv(b), PostFails(b) \/ PostRefused(b)
  PROVE  StepOf(b) /\ BatchInv(b)'
<1>1. /\ UNCHANGED <<tries, results, path, log>> /\ at[b] = "posting"
      /\ served' = [served EXCEPT ![b] = Unserved(b)]
  BY DEF PostFails, PostRefused, Forget
<1>2. PICK phase \in {"backoff", "serial"} :
        at' = [at EXCEPT ![b] = phase] /\ (phase = "backoff" => tries[b] < Attempts)
  BY DEF PostFails, PostRefused
<1>3. StepOf(b) BY <1>1, <1>2 DEF StepOf, BatchFunctions, Others, BatchUnchanged
<1>4. at'[b] = phase /\ served'[b] = Unserved(b) BY <1>1, <1>2 DEF BatchFunctions
<1>5. NotCounted(b)' /\ \A i \in Index(b) : Entries(b, i)' = {}
  BY <1>1, EntriesUnchanged DEF EntriesKept, NotCounted, BatchInv
<1>6. results[b] = <<>> /\ Len(<<>>) = 0 /\ Len(Items[b]) > 0 BY <1>1 DEF BatchInv
<1>7. RawList(b, <<>>) BY DEF RawList
<1>8. \A i \in Index(b) : ~ (i <= 0) BY Batched
<1> QED
  BY <1>1, <1>2, <1>3, <1>4, <1>5, <1>6, <1>7, <1>8, UnservedOK DEF BatchInv, Phases

LEMMA WakeBatchOK ==
  ASSUME BatchFunctions, NEW b \in Batches, BatchInv(b), WakeBatch(b)
  PROVE  StepOf(b) /\ BatchInv(b)'
<1>1. /\ at' = [at EXCEPT ![b] = "posting"] /\ tries' = [tries EXCEPT ![b] = @ + 1]
      /\ UNCHANGED <<served, results, path, log>> /\ at[b] = "backoff"
  BY DEF WakeBatch, Post
<1>2. StepOf(b) BY <1>1 DEF StepOf, BatchFunctions, Others, BatchUnchanged
<1>3. at'[b] = "posting" /\ tries'[b] = tries[b] + 1 BY <1>1 DEF BatchFunctions
<1>4. tries'[b] \in 0..Attempts
  <2>1. tries[b] \in 0..Attempts /\ tries[b] < Attempts /\ Attempts \in Nat
    BY <1>1, BatchAssumption DEF BatchInv
  <2> QED BY <1>3, <2>1
<1>5. NotCounted(b)'
  BY <1>1, EntriesUnchanged DEF EntriesKept, NotCounted, BatchInv
<1> QED BY <1>1, <1>2, <1>3, <1>4, <1>5 DEF BatchInv, Phases

LEMMA NormalizedAt ==
  ASSUME NEW b \in Batches, NEW list, NEW i \in DOMAIN list, NEW outcome,
         list[i] = Result(b, i, outcome), outcome \in {"value", "bad", "error"}
  PROVE  Normalized(b, list)[i] = DecodedResult(b, i, outcome)
<1>1. PICK ok \in BOOLEAN : ok = (list[i].ok /\ list[i].outcome # "bad")
  <2>1. (list[i].ok /\ list[i].outcome # "bad") \in BOOLEAN OBVIOUS
  <2> QED BY <2>1
<1>2. Normalized(b, list)[i] = [list[i] EXCEPT !.as = Items[b][i].action, !.ok = ok]
  BY <1>1 DEF Normalized
<1>3. PICK sent \in BOOLEAN : sent = (outcome # "error")
  <2>1. (outcome # "error") \in BOOLEAN OBVIOUS
  <2> QED BY <2>1
<1>4. list[i] = [id |-> Items[b][i].id, of |-> i, as |-> "raw", ok |-> sent, outcome |-> outcome]
  BY <1>3 DEF Result
<1>5. ok = (outcome = "value")
  <2>1. list[i].ok = sent /\ list[i].outcome = outcome BY <1>4
  <2> QED BY <1>1, <1>3, <2>1
<1>6. Normalized(b, list)[i] = [id |-> Items[b][i].id, of |-> i, as |-> Items[b][i].action,
                                ok |-> ok, outcome |-> outcome]
  <2>1. Normalized(b, list)[i] = [[list[i] EXCEPT !.as = Items[b][i].action] EXCEPT !.ok = ok]
    BY <1>2
  <2>2. [list[i] EXCEPT !.as = Items[b][i].action]
          = [id |-> Items[b][i].id, of |-> i, as |-> Items[b][i].action,
             ok |-> sent, outcome |-> outcome]
    BY <1>4
  <2> QED BY <2>1, <2>2
<1> QED BY <1>5, <1>6 DEF DecodedResult

LEMMA ResultTypes ==
  ASSUME NEW b \in Batches, NEW i \in Index(b), NEW outcome \in Outcomes(b, i)
  PROVE  /\ Result(b, i, outcome) \in BatchResult /\ DecodedResult(b, i, outcome) \in BatchResult
         /\ outcome \in {"value", "bad", "error"}
<1>1. /\ Items[b][i].id \in Ids /\ Items[b][i].action \in Methods
      /\ outcome \in {"value", "bad", "error"} /\ i \in Nat
  BY Batched
<1> QED BY <1>1 DEF Result, DecodedResult, BatchResult

LEMMA NormalizedIs ==
  ASSUME NEW b \in Batches, NEW list \in Seq(BatchResult), Len(list) <= Len(Items[b]),
         RawList(b, list)
  PROVE  /\ Normalized(b, list) \in Seq(BatchResult) /\ Len(Normalized(b, list)) = Len(list)
         /\ DecodedList(b, Normalized(b, list))
         /\ \A i \in 1..Len(list) : Normalized(b, list)[i].outcome = list[i].outcome
<1> DEFINE new == Normalized(b, list)
<1>1. DOMAIN list = 1..Len(list) /\ Len(list) \in Nat OBVIOUS
<1>2. ASSUME NEW i \in 1..Len(list)
      PROVE  /\ new[i] = DecodedResult(b, i, list[i].outcome)
             /\ list[i].outcome \in Outcomes(b, i) /\ i \in Index(b)
             /\ new[i] \in BatchResult /\ new[i].outcome = list[i].outcome
  <2>1. i \in Index(b) /\ i \in DOMAIN list BY <1>1, Batched
  <2>2. list[i] = Result(b, i, list[i].outcome) /\ list[i].outcome \in Outcomes(b, i)
    BY DEF RawList
  <2>3. new[i] = DecodedResult(b, i, list[i].outcome) BY <2>1, <2>2, ResultTypes, NormalizedAt
  <2>4. new[i] \in BatchResult BY <2>1, <2>2, <2>3, ResultTypes
  <2>5. new[i].outcome = list[i].outcome BY <2>3 DEF DecodedResult
  <2> QED BY <2>1, <2>2, <2>3, <2>4, <2>5
<1>3. new = [i \in 1..Len(list) |-> new[i]] BY <1>1 DEF Normalized
<1> HIDE DEF new
<1>4. new \in Seq(BatchResult) /\ Len(new) = Len(list) BY <1>1, <1>2, <1>3
<1>5. DecodedList(b, new) BY <1>2, <1>4 DEF DecodedList
<1> QED BY <1>2, <1>4, <1>5 DEF new

\* The next item of a batch: one more result.
LEMMA ExtendedIs ==
  ASSUME NEW b \in Batches, results[b] \in Seq(BatchResult), Len(results[b]) < Len(Items[b]),
         NEW outcome \in Outcomes(b, Turn(b))
  PROVE  /\ Turn(b) \in Index(b) /\ Turn(b) = Len(results[b]) + 1
         /\ Extended(b, outcome) \in Seq(BatchResult) /\ Len(Extended(b, outcome)) = Turn(b)
         /\ \A i \in 1..Len(results[b]) : Extended(b, outcome)[i] = results[b][i]
         /\ Extended(b, outcome)[Turn(b)] = Result(b, Turn(b), outcome)
<1>1. Turn(b) \in Index(b) /\ Turn(b) = Len(results[b]) + 1 BY Batched DEF Turn
<1>2. Result(b, Turn(b), outcome) \in BatchResult BY <1>1, ResultTypes
<1> QED BY <1>1, <1>2, AppendProperties DEF Extended

LEMMA NativeItemOK ==
  ASSUME BatchFunctions, NEW b \in Batches, BatchInv(b), NativeItem(b)
  PROVE  StepOf(b) /\ BatchInv(b)'
<1>1. at[b] = "native" /\ UNCHANGED <<tries, served, log>> BY DEF NativeItem
<1>2. PICK k : k = Turn(b) OBVIOUS
<1>3. PICK outcome \in Outcomes(b, k) :
        results' = [results EXCEPT ![b] = Append(@, Normalized(b, Extended(b, outcome))[k])]
  BY <1>2 DEF NativeItem
<1>4. /\ results[b] \in Seq(BatchResult) /\ Len(results[b]) < Len(Items[b])
      /\ DecodedList(b, results[b]) /\ NotCounted(b) /\ path[b] = "none"
  BY <1>1 DEF BatchInv
<1>5. /\ k \in Index(b) /\ k = Len(results[b]) + 1
      /\ k \in DOMAIN Extended(b, outcome)
      /\ Extended(b, outcome)[k] = Result(b, k, outcome)
  <2>1. /\ k \in Index(b) /\ k = Len(results[b]) + 1
        /\ Extended(b, outcome) \in Seq(BatchResult) /\ Len(Extended(b, outcome)) = k
        /\ Extended(b, outcome)[k] = Result(b, k, outcome)
    BY <1>2, <1>4, ExtendedIs
  <2> QED BY <2>1, Batched
<1> DEFINE r == DecodedResult(b, k, outcome)
           new == Append(results[b], r)
<1>6. Normalized(b, Extended(b, outcome))[k] = r /\ r \in BatchResult
  BY <1>5, ResultTypes, NormalizedAt
<1>7. r.outcome = outcome BY DEF DecodedResult
<1> HIDE DEF r
<1>8. results' = [results EXCEPT ![b] = new] /\ results'[b] = new
  BY <1>3, <1>6 DEF BatchFunctions
<1>9. /\ new \in Seq(BatchResult) /\ Len(new) = k
      /\ \A i \in 1..Len(results[b]) : new[i] = results[b][i]
      /\ new[k] = r
  BY <1>4, <1>5, <1>6, AppendProperties
<1> HIDE DEF new
<1>10. DecodedList(b, new)
  <2> SUFFICES ASSUME NEW i \in 1..k
               PROVE  /\ new[i] = DecodedResult(b, i, new[i].outcome)
                      /\ new[i].outcome \in Outcomes(b, i)
    BY <1>9 DEF DecodedList
  <2>1. CASE i = k BY <1>7, <1>9, <2>1 DEF r
  <2>2. CASE i # k
    <3>1. i \in 1..Len(results[b]) BY <1>4, <1>5, <2>2
    <3> QED BY <1>4, <1>9, <3>1 DEF DecodedList
  <2> QED BY <2>1, <2>2
<1>11. NotCounted(b)' BY <1>1, <1>4, EntriesUnchanged, EntriesFrame
<1>12. k = Len(Items[b]) <=> Ending(b) BY <1>2 DEF Ending
<1>13. CASE Ending(b)
  <2>1. at' = [at EXCEPT ![b] = "done"] /\ path' = [path EXCEPT ![b] = "native"]
    BY <1>13 DEF NativeItem, Done
  <2>2. StepOf(b) BY <1>1, <1>8, <2>1 DEF StepOf, BatchFunctions, Others, BatchUnchanged
  <2>3. at'[b] = "done" /\ path'[b] = "native" BY <2>1 DEF BatchFunctions
  <2> QED BY <1>1, <1>8, <1>9, <1>10, <1>11, <1>12, <1>13, <2>2, <2>3 DEF BatchInv, Phases, Paths
<1>14. CASE ~ Ending(b)
  <2>1. at' = at /\ path' = path BY <1>14 DEF NativeItem
  <2>2. StepOf(b) BY <1>1, <1>8, <2>1 DEF StepOf, BatchFunctions, Others, BatchUnchanged
  <2>3. k < Len(Items[b]) BY <1>5, <1>12, <1>14, Batched
  <2> QED BY <1>1, <1>4, <1>8, <1>9, <1>10, <1>11, <2>1, <2>2, <2>3 DEF BatchInv
<1> QED BY <1>13, <1>14

\* What a step of a batch that records may add: lines of its own items.
OwnLines(b) == /\ CollectorInv'
               /\ \A c \in Batches : c # b => EntriesKept(c)
               /\ Reported' = Reported /\ \A j \in Reported : log'[j] = log[j]

LEMMA EntryType ==
  ASSUME NEW b \in Batches, NEW i \in Index(b), NEW success \in BOOLEAN, NEW ms \in Times,
         NEW cache \in {"hit", "miss", "unknown"}
  PROVE  Entry(b, i, success, ms, cache) \in MetricsEntry
<1>1. Items[b][i].action \in Methods /\ i \in Nat BY Batched
<1>2. <<"batch", b, i>> \in Sources BY <1>1 DEF Sources
<1> QED BY <1>1, <1>2, BatchAssumption DEF Entry, MetricsEntry

\* One line for one item.
LEMMA ItemRecorded ==
  ASSUME CollectorInv, NEW b \in Batches, NEW k \in Index(b), NEW e \in MetricsEntry,
         e.from = <<"batch", b, k>>, RecordAll(<<e>>)
  PROVE  /\ OwnLines(b) /\ Kept
         /\ \A i \in Index(b) : i # k => Entries(b, i)' = Entries(b, i)
         /\ \E n \in DOMAIN log' : /\ Entries(b, k)' = Entries(b, k) \cup {n}
                                   /\ log'[n].entry = e
<1>1. PICK n : n = Len(log) + 1 OBVIOUS
<1>2. CollectorInv' /\ OneLine(Request(e)) BY RecordOneOK
<1>3. /\ Request(e).kind = "request" /\ Request(e).entry = e /\ e.from[1] # "preheat"
      /\ \A c, i : e.from = <<"batch", c, i>> <=> c = b /\ i = k
  BY DEF Request
<1>4. /\ Kept /\ DOMAIN log' = DOMAIN log \cup {n} /\ n \notin DOMAIN log
      /\ log'[n] = Request(e)
  BY <1>1, <1>2 DEF OneLine
<1>5. \A c, i : Entries(c, i)' = IF c = b /\ i = k THEN Entries(c, i) \cup {n} ELSE Entries(c, i)
  BY <1>3, <1>4 DEF Entries, Kept
<1>6. \A c \in Batches : c # b => EntriesKept(c) BY <1>4, <1>5 DEF EntriesKept
<1>7. Reported' = Reported /\ \A j \in Reported : log'[j] = log[j] BY <1>2, <1>3, ReportedSame
<1>8. n \in DOMAIN log' /\ log'[n].entry = e BY <1>3, <1>4
<1>9. Entries(b, k)' = Entries(b, k) \cup {n} /\ \A i : i # k => Entries(b, i)' = Entries(b, i)
  BY <1>5
<1> QED BY <1>2, <1>4, <1>6, <1>7, <1>8, <1>9 DEF OwnLines

\* A serial batch: the items before the turn are answered and counted.
LEMMA SerialItemOK ==
  ASSUME CollectorInv, BatchFunctions, NEW b \in Batches, BatchInv(b), SerialItem(b)
  PROVE  StepOf(b) /\ BatchInv(b)' /\ OwnLines(b)
<1>1. at[b] = "serial" /\ UNCHANGED <<tries, served>> BY DEF SerialItem
<1>2. PICK k : k = Turn(b) OBVIOUS
<1>3. PICK outcome \in Outcomes(b, k), ms \in Times : \E cache \in CacheStatus(outcome # "error") :
        /\ RecordAll(<<Entry(b, k, outcome # "error", ms, cache)>>)
        /\ results' = [results EXCEPT ![b] =
                         LET list == Extended(b, outcome)
                         IN  IF Ending(b) THEN Normalized(b, list) ELSE list]
  BY <1>2 DEF SerialItem
<1>4. PICK cache \in CacheStatus(outcome # "error") :
        /\ RecordAll(<<Entry(b, k, outcome # "error", ms, cache)>>)
        /\ results' = [results EXCEPT ![b] =
                         LET list == Extended(b, outcome)
                         IN  IF Ending(b) THEN Normalized(b, list) ELSE list]
  BY <1>3
<1>5. PICK raw : raw = Extended(b, outcome) OBVIOUS
<1>6. /\ results[b] \in Seq(BatchResult) /\ Len(results[b]) < Len(Items[b])
      /\ RawList(b, results[b]) /\ path[b] = "none"
      /\ \A i \in Index(b) : IF i <= Len(results[b]) THEN Once(b, i) ELSE Entries(b, i) = {}
      /\ \A i \in Index(b) : \A j \in Entries(b, i) :
           log[j].entry.success = (results[b][i].outcome # "error")
  BY <1>1 DEF BatchInv
<1>7. /\ k \in Index(b) /\ k = Len(results[b]) + 1
      /\ raw \in Seq(BatchResult) /\ Len(raw) = k
      /\ \A i \in 1..Len(results[b]) : raw[i] = results[b][i]
      /\ raw[k] = Result(b, k, outcome)
  BY <1>2, <1>5, <1>6, ExtendedIs
<1>8. /\ Len(results[b]) \in Nat /\ k \in Nat /\ Index(b) = 1..Len(Items[b])
      /\ Len(Items[b]) \in Nat /\ k <= Len(Items[b])
  BY <1>6, <1>7, Batched
<1>9. RawList(b, raw)
  <2> SUFFICES ASSUME NEW i \in 1..k
               PROVE  /\ raw[i] = Result(b, i, raw[i].outcome)
                      /\ raw[i].outcome \in Outcomes(b, i)
    BY <1>7 DEF RawList
  <2>1. CASE i = k
    <3>1. Result(b, k, outcome).outcome = outcome BY DEF Result
    <3> QED BY <1>7, <2>1, <3>1
  <2>2. CASE i # k
    <3>1. i \in 1..Len(results[b]) BY <1>7, <1>8, <2>2
    <3> QED BY <1>6, <1>7, <3>1 DEF RawList
  <2> QED BY <2>1, <2>2
<1>10. PICK new : new = IF Ending(b) THEN Normalized(b, raw) ELSE raw OBVIOUS
<1>11. results' = [results EXCEPT ![b] = new] /\ results'[b] = new
  BY <1>4, <1>5, <1>10 DEF BatchFunctions
<1>12. /\ new \in Seq(BatchResult) /\ Len(new) = k
       /\ \A i \in 1..k : new[i].outcome = raw[i].outcome
       /\ IF Ending(b) THEN DecodedList(b, new) ELSE RawList(b, new)
  BY <1>7, <1>8, <1>9, <1>10, NormalizedIs
<1>13. PICK e \in MetricsEntry : /\ e.from = <<"batch", b, k>> /\ RecordAll(<<e>>)
                                 /\ e.success = (outcome # "error")
  <2> DEFINE e == Entry(b, k, outcome # "error", ms, cache)
  <2>1. cache \in {"hit", "miss", "unknown"} BY DEF CacheStatus
  <2>2. (outcome # "error") \in BOOLEAN OBVIOUS
  <2>3. e \in MetricsEntry BY <1>7, <2>1, <2>2, EntryType
  <2>4. e.from = <<"batch", b, k>> /\ e.success = (outcome # "error") BY DEF Entry
  <2> HIDE DEF e
  <2> QED BY <1>4, <2>3, <2>4 DEF e
<1>14. /\ OwnLines(b) /\ Kept
       /\ \A i \in Index(b) : i # k => Entries(b, i)' = Entries(b, i)
       /\ \E n \in DOMAIN log' : Entries(b, k)' = Entries(b, k) \cup {n} /\ log'[n].entry = e
  BY <1>7, <1>13, ItemRecorded
<1>15. PICK n \in DOMAIN log' : Entries(b, k)' = {n} /\ log'[n].entry = e
  <2>1. ~ (k <= Len(results[b])) BY <1>7, <1>8
  <2> QED BY <1>6, <1>7, <1>14, <2>1
<1>16. ASSUME NEW i \in Index(b)
       PROVE  /\ IF i <= k THEN Once(b, i)' ELSE Entries(b, i)' = {}
              /\ \A j \in Entries(b, i)' : log'[j].entry.success = (new[i].outcome # "error")
  <2>1. CASE i = k
    <3>1. new[k].outcome = outcome
      <4>1. k \in 1..k /\ Result(b, k, outcome).outcome = outcome BY <1>7, <1>8 DEF Result
      <4> QED BY <1>7, <1>12, <4>1
    <3> QED BY <1>8, <1>13, <1>15, <2>1, <3>1 DEF Once
  <2>2. CASE i # k
    <3>1. Entries(b, i)' = Entries(b, i) BY <1>14, <2>2
    <3>2. \A j \in Entries(b, i) : j \in DOMAIN log /\ j \in DOMAIN log' /\ log'[j] = log[j]
      BY <1>14 DEF Entries, Kept
    <3>3. CASE i <= Len(results[b])
      <4>1. i \in 1..Len(results[b]) /\ i \in 1..k /\ i <= k BY <1>7, <1>8, <3>3
      <4>2. new[i].outcome = results[b][i].outcome BY <1>7, <1>12, <4>1
      <4>3. Once(b, i)' BY <1>6, <3>1, <3>2, <3>3 DEF Once
      <4> QED BY <1>6, <3>1, <3>2, <4>1, <4>2, <4>3
    <3>4. CASE ~ (i <= Len(results[b]))
      <4>1. ~ (i <= k) BY <1>7, <1>8, <2>2, <3>4
      <4> QED BY <1>6, <3>1, <3>4, <4>1
    <3> QED BY <3>3, <3>4
  <2> QED BY <2>1, <2>2
<1>17. k = Len(Items[b]) <=> Ending(b) BY <1>2 DEF Ending
<1>18. CASE Ending(b)
  <2>1. at' = [at EXCEPT ![b] = "done"] /\ path' = [path EXCEPT ![b] = "serial"]
    BY <1>18 DEF SerialItem, Done
  <2>2. StepOf(b) BY <1>1, <1>11, <2>1 DEF StepOf, BatchFunctions, Others, BatchUnchanged
  <2>3. at'[b] = "done" /\ path'[b] = "serial" BY <2>1 DEF BatchFunctions
  <2>4. \A i \in Index(b) : i <= k BY <1>8, <1>17, <1>18
  <2>5. \A i \in Index(b) : Once(b, i)' BY <1>16, <2>4
  <2> QED BY <1>1, <1>11, <1>12, <1>14, <1>16, <1>17, <1>18, <2>2, <2>3, <2>5
          DEF BatchInv, Phases, Paths
<1>19. CASE ~ Ending(b)
  <2>1. at' = at /\ path' = path BY <1>19 DEF SerialItem
  <2>2. StepOf(b) BY <1>1, <1>11, <2>1 DEF StepOf, BatchFunctions, Others, BatchUnchanged
  <2>3. k < Len(Items[b]) BY <1>8, <1>17, <1>19
  <2> QED BY <1>1, <1>6, <1>11, <1>12, <1>14, <1>16, <1>19, <2>1, <2>2, <2>3 DEF BatchInv
<1> QED BY <1>18, <1>19

\* ById finds a result: among those with the id there is a last one.
LEMMA ByIdFinds ==
  ASSUME NEW S, NEW list \in Seq(S), NEW id, NEW i \in 1..Len(list), list[i].id = id
  PROVE  \E k \in 1..Len(list) :
           ById(list, id) = list[k] /\ list[k].id = id /\ i <= k
<1> DEFINE n == Len(list)
           T == {n - j : j \in {j \in 1..n : list[j].id = id}}
<1>1. n \in Nat /\ DOMAIN list = 1..n OBVIOUS
<1>2. T \in SUBSET Nat /\ n - i \in T BY <1>1
<1>3. PICK m \in T : \A x \in T : m <= x
  <2> HIDE DEF T
  <2> QED BY <1>2, Least
<1>4. PICK j \in 1..n : m = n - j /\ list[j].id = id BY <1>3
<1>5. \A x \in 1..n : list[x].id = id => x <= j
  <2> SUFFICES ASSUME NEW x \in 1..n, list[x].id = id PROVE x <= j OBVIOUS
  <2>1. n - j <= n - x BY <1>3, <1>4
  <2> QED BY <1>1, <2>1
<1> DEFINE last == CHOOSE x \in DOMAIN list :
                     /\ list[x].id = id
                     /\ \A y \in DOMAIN list : list[y].id = id => y <= x
<1>6. /\ last \in DOMAIN list /\ list[last].id = id
      /\ \A y \in DOMAIN list : list[y].id = id => y <= last
  BY <1>1, <1>4, <1>5
<1>7. ById(list, id) = list[last] BY DEF ById
<1> HIDE DEF last
<1> QED BY <1>1, <1>6, <1>7

\* One line for each item of a batch.
LEMMA ListRecorded ==
  ASSUME CollectorInv, NEW b \in Batches, NEW entries \in Seq(MetricsEntry),
         Len(entries) = Len(Items[b]), RecordAll(entries),
         \A i \in Index(b) : entries[i].from = <<"batch", b, i>>
  PROVE  /\ OwnLines(b)
         /\ \A i \in Index(b) : \E n \in DOMAIN log' :
              /\ Entries(b, i)' = Entries(b, i) \cup {n}
              /\ log'[n].entry = entries[i]
<1>1. PICK n, len : n = Len(log) /\ len = Len(entries) OBVIOUS
<1> DEFINE new == [i \in DOMAIN entries |-> Request(entries[i])]
<1>2. /\ n \in Nat /\ DOMAIN log = 1..n /\ len \in Nat /\ DOMAIN entries = 1..len
      /\ Index(b) = 1..len /\ Len(new) = len
  <2>1. log \in Seq(Line) BY DEF CollectorInv
  <2>2. DOMAIN entries = 1..len /\ len \in Nat BY <1>1
  <2> QED BY <1>1, <2>1, <2>2, Batched
<1>3. StateIs(metrics', log', Len(log')) /\ Logged(log, new, log')
  BY RecordAllOK DEF CollectorInv
<1>4. CollectorInv' BY <1>3 DEF CollectorInv, Logged
<1>5. /\ DOMAIN log' = 1..(n + len) /\ \A i \in 1..n : log'[i] = log[i]
      /\ \A i \in 1..len : log'[n + i] = new[i]
  BY <1>1, <1>2, <1>3 DEF Logged
<1>6. \A i \in 1..len : /\ log'[n + i].kind = "request"
                        /\ log'[n + i].entry = entries[i]
                        /\ log'[n + i].entry.from = <<"batch", b, i>>
  <2> SUFFICES ASSUME NEW i \in 1..len
               PROVE  /\ log'[n + i].kind = "request"
                      /\ log'[n + i].entry = entries[i]
                      /\ log'[n + i].entry.from = <<"batch", b, i>>
    OBVIOUS
  <2>1. log'[n + i] = Request(entries[i]) BY <1>2, <1>5
  <2> QED BY <1>2, <2>1 DEF Request
<1> HIDE DEF new
\* A line is an old one or that of an item.
<1>7. \A j : j \in DOMAIN log' <=> j \in DOMAIN log \/ \E i \in 1..len : j = n + i
  <2>1. \A j \in 1..(n + len) : ~ (j \in 1..n) => j - n \in 1..len /\ j = n + (j - n)
    BY <1>2
  <2>2. \A i \in 1..len : n + i \in 1..(n + len) BY <1>2
  <2>3. \A j \in 1..n : j \in 1..(n + len) BY <1>2
  <2> QED BY <1>2, <1>5, <2>1, <2>2, <2>3
<1>8. \A i \in 1..len : n + i \notin DOMAIN log BY <1>2
<1>9. ASSUME NEW c \in Batches, NEW i \in Index(c)
      PROVE  Entries(c, i)' = IF c = b THEN Entries(c, i) \cup {n + i} ELSE Entries(c, i)
  <2> DEFINE E(j) == log'[j].kind = "request" /\ log'[j].entry.from = <<"batch", c, i>>
  <2>1. ASSUME NEW j \in DOMAIN log
        PROVE  j \in DOMAIN log' /\ (E(j) <=> j \in Entries(c, i))
    BY <1>2, <1>5, <1>7, <2>1 DEF Entries
  <2>2. ASSUME NEW k \in 1..len PROVE E(n + k) <=> c = b /\ i = k BY <1>6
  <2>3. c = b => i \in 1..len BY <1>2
  <2>4. Entries(c, i)' = {j \in DOMAIN log' : E(j)} BY DEF Entries
  <2>5. \A j \in Entries(c, i) : j \in DOMAIN log BY DEF Entries
  <2> HIDE DEF E
  <2>6. ASSUME NEW j
        PROVE  j \in Entries(c, i)' <=> j \in Entries(c, i) \/ (c = b /\ j = n + i)
    <3>1. CASE j \in DOMAIN log BY <1>8, <2>1, <2>3, <2>4, <3>1
    <3>2. CASE j \notin DOMAIN log BY <1>7, <2>2, <2>3, <2>4, <2>5, <3>2
    <3> QED BY <3>1, <3>2
  <2> QED BY <2>6
<1>10. Kept BY <1>2, <1>5, <1>7 DEF Kept
<1>11. \A c \in Batches : c # b => EntriesKept(c) BY <1>9, <1>10 DEF EntriesKept
<1>12. Reported' = Reported /\ \A j \in Reported : log'[j] = log[j]
  <2>1. \A j \in DOMAIN log : j \in DOMAIN log' /\ log'[j] = log[j] BY <1>10 DEF Kept
  <2>2. \A i \in 1..len : log'[n + i].entry.from[1] # "preheat" BY <1>6
  <2>3. \A j \in DOMAIN log' : j \notin DOMAIN log => log'[j].entry.from[1] # "preheat"
    BY <1>7, <2>2
  <2> QED BY <2>1, <2>3 DEF Reported
<1>13. ASSUME NEW i \in Index(b)
       PROVE  \E x \in DOMAIN log' : /\ Entries(b, i)' = Entries(b, i) \cup {x}
                                     /\ log'[x].entry = entries[i]
  <2>1. n + i \in DOMAIN log' BY <1>2, <1>7
  <2> QED BY <1>2, <1>6, <1>9, <2>1
<1> QED BY <1>4, <1>11, <1>12, <1>13 DEF OwnLines

LEMMA PostAnsweredOK ==
  ASSUME CollectorInv, BatchFunctions, NEW b \in Batches, BatchInv(b), PostAnswered(b)
  PROVE  StepOf(b) /\ BatchInv(b)' /\ OwnLines(b)
<1>1. PICK raw : raw = Answered(b) OBVIOUS
<1>2. PICK list : list = Normalized(b, raw) OBVIOUS
<1>3. /\ at[b] = "posting" /\ UNCHANGED tries
      /\ \A i \in Index(b) : served[b][i] # "running"
      /\ results' = [results EXCEPT ![b] = list]
      /\ RecordBatch(b, list)
      /\ at' = [at EXCEPT ![b] = "done"] /\ path' = [path EXCEPT ![b] = "post"]
      /\ served' = [served EXCEPT ![b] = Unserved(b)]
  BY <1>1, <1>2 DEF PostAnswered, Done, Forget
<1>4. Index(b) = 1..Len(Items[b]) /\ Len(Items[b]) \in Nat BY Batched
<1>5. /\ raw = [i \in 1..Len(Items[b]) |-> raw[i]]
      /\ \A i \in Index(b) : /\ raw[i] = Result(b, i, served[b][i])
                             /\ served[b][i] \in Outcomes(b, i)
  BY <1>1, <1>3, <1>4 DEF Answered, BatchInv
<1>6. raw \in Seq(BatchResult) /\ Len(raw) = Len(Items[b])
  <2>1. \A i \in 1..Len(Items[b]) : raw[i] \in BatchResult BY <1>4, <1>5, ResultTypes
  <2> QED BY <1>4, <1>5, <2>1
<1>7. RawList(b, raw)
  <2>1. ASSUME NEW i \in Index(b) PROVE raw[i].outcome = served[b][i]
    <3>1. Result(b, i, served[b][i]).outcome = served[b][i] BY DEF Result
    <3> QED BY <1>5, <3>1
  <2> QED BY <1>4, <1>5, <1>6, <2>1 DEF RawList
<1>8. list \in Seq(BatchResult) /\ Len(list) = Len(Items[b]) /\ DecodedList(b, list)
  BY <1>2, <1>4, <1>6, <1>7, NormalizedIs
<1>9. PICK ms \in Times :
        RecordAll([i \in Index(b) |-> Entry(b, i, ById(list, Items[b][i].id).ok, ms, "miss")])
  BY <1>3 DEF RecordBatch
<1>10. PICK entries :
         entries = [i \in Index(b) |-> Entry(b, i, ById(list, Items[b][i].id).ok, ms, "miss")]
  OBVIOUS
<1>11. ASSUME NEW i \in Index(b) PROVE ById(list, Items[b][i].id).ok \in BOOLEAN
  <2>1. list[i].id = Items[b][i].id
    <3>1. list[i] = DecodedResult(b, i, list[i].outcome) BY <1>4, <1>8 DEF DecodedList
    <3>2. DecodedResult(b, i, list[i].outcome).id = Items[b][i].id BY DEF DecodedResult
    <3> QED BY <3>1, <3>2
  <2>2. PICK k \in 1..Len(list) : ById(list, Items[b][i].id) = list[k]
    BY <1>4, <1>8, <2>1, ByIdFinds
  <2>3. list[k] \in BatchResult BY <1>8, <2>2, ElementOfSeq
  <2> QED BY <2>2, <2>3 DEF BatchResult
<1>12. ASSUME NEW i \in Index(b)
       PROVE  /\ entries[i] \in MetricsEntry /\ entries[i].from = <<"batch", b, i>>
              /\ entries[i].success = ById(list, Items[b][i].id).ok
  <2>1. entries[i] = Entry(b, i, ById(list, Items[b][i].id).ok, ms, "miss") BY <1>10
  <2>2. entries[i] \in MetricsEntry BY <1>11, <2>1, EntryType
  <2> QED BY <2>1, <2>2 DEF Entry
<1>13. entries \in Seq(MetricsEntry) /\ Len(entries) = Len(Items[b])
  <2>1. entries = [i \in 1..Len(Items[b]) |-> entries[i]] BY <1>4, <1>10
  <2>2. \A i \in 1..Len(Items[b]) : entries[i] \in MetricsEntry BY <1>4, <1>12
  <2> QED BY <1>4, <2>1, <2>2
<1>14. RecordAll(entries) BY <1>9, <1>10
<1>15. /\ OwnLines(b)
       /\ \A i \in Index(b) : \E n \in DOMAIN log' :
            Entries(b, i)' = Entries(b, i) \cup {n} /\ log'[n].entry = entries[i]
  BY <1>12, <1>13, <1>14, ListRecorded
<1>16. ASSUME NEW i \in Index(b)
       PROVE  /\ Once(b, i)'
              /\ \A j \in Entries(b, i)' :
                   log'[j].entry.success = ById(list, Items[b][i].id).ok
  <2>1. Entries(b, i) = {} BY <1>3 DEF BatchInv, NotCounted
  <2>2. PICK n \in DOMAIN log' : Entries(b, i)' = {n} /\ log'[n].entry = entries[i]
    BY <1>15, <2>1
  <2> QED BY <1>12, <2>2 DEF Once
<1>17. StepOf(b) BY <1>3 DEF StepOf, BatchFunctions, Others, BatchUnchanged
<1>18. /\ at'[b] = "done" /\ path'[b] = "post" /\ results'[b] = list
       /\ served'[b] = Unserved(b) /\ tries'[b] = tries[b]
  BY <1>3 DEF BatchFunctions
<1> QED BY <1>8, <1>15, <1>16, <1>17, <1>18, UnservedOK DEF BatchInv, Phases, Paths

-----------------------------------------------------------------------------
(* All of them together.                                                   *)

\* A step that leaves the batches alone.
LEMMA BatchesFrame ==
  ASSUME TasksInv, UNCHANGED batchVars, \A b \in Batches : EntriesKept(b)
  PROVE  BatchFunctions' /\ \A b \in Batches : BatchInv(b)'
<1>1. UNCHANGED <<at, tries, served, results, path>> BY DEF batchVars
<1>2. BatchFunctions' BY <1>1 DEF TasksInv, BatchFunctions
<1>3. \A b \in Batches : BatchUnchanged(b) BY <1>1 DEF BatchUnchanged
<1> QED BY <1>2, <1>3, BatchFrame DEF TasksInv

\* A step of a batch, whether or not it records.
LEMMA BatchStepOK ==
  ASSUME TasksInv, NEW b \in Batches, BatchNext(b), UNCHANGED <<preheatVars, single, resets>>
  PROVE  TasksInv'
<1>1. CollectorInv /\ PreheatInv /\ BatchFunctions /\ \A c \in Batches : BatchInv(c)
  BY DEF TasksInv
<1>2. StepOf(b) /\ BatchInv(b)' /\ OwnLines(b)
  <2>1. ASSUME UNCHANGED <<metrics, log>> PROVE OwnLines(b)
    <3>1. CollectorInv' BY <1>1, <2>1 DEF CollectorInv, StateIs
    <3>2. \A c \in Batches : EntriesKept(c) BY <2>1, EntriesUnchanged
    <3>3. Reported' = Reported BY <2>1 DEF Reported
    <3> QED BY <2>1, <3>1, <3>2, <3>3 DEF OwnLines
  <2>2. CASE StartBatch(b) BY <1>1, <2>1, <2>2, StartBatchOK DEF StartBatch
  <2>3. CASE \E i \in Index(b) : Settle(b, i) BY <1>1, <2>1, <2>3, SettleOK DEF Settle
  <2>4. CASE PostAnswered(b) BY <1>1, <2>4, PostAnsweredOK
  <2>5. CASE PostFails(b) \/ PostRefused(b)
    BY <1>1, <2>1, <2>5, PostLostOK DEF PostFails, PostRefused
  <2>6. CASE WakeBatch(b) BY <1>1, <2>1, <2>6, WakeBatchOK DEF WakeBatch
  <2>7. CASE SerialItem(b) BY <1>1, <2>7, SerialItemOK
  <2>8. CASE NativeItem(b) BY <1>1, <2>1, <2>8, NativeItemOK DEF NativeItem
  <2> QED BY <2>2, <2>3, <2>4, <2>5, <2>6, <2>7, <2>8 DEF BatchNext
<1>3. ASSUME NEW c \in Batches, c # b PROVE BatchInv(c)'
  <2>1. BatchUnchanged(c) /\ EntriesKept(c) BY <1>2, <1>3 DEF StepOf, Others, OwnLines
  <2> QED BY <1>1, <2>1, BatchFrame
<1>4. PreheatInv' BY <1>1, <1>2, PreheatFrame DEF OwnLines
<1>5. single' = single /\ resets' = resets OBVIOUS
<1> QED BY <1>2, <1>3, <1>4, <1>5 DEF TasksInv, StepOf, OwnLines

LEMMA PreheatStepOK ==
  ASSUME TasksInv, PreheatNext, UNCHANGED <<batchVars, single, resets>>
  PROVE  TasksInv'
<1>1. CollectorInv /\ PreheatInv BY DEF TasksInv
<1>2. UNCHANGED batchVars /\ single' = single /\ resets' = resets OBVIOUS
<1>3. CASE StartPreheat
  <2>1. UNCHANGED <<metrics, log>> BY <1>3 DEF StartPreheat
  <2>2. CollectorInv' BY <1>1, <2>1 DEF CollectorInv, StateIs
  <2>3. PreheatInv' BY <1>1, <1>3, StartPreheatOK
  <2>4. \A b \in Batches : EntriesKept(b) BY <2>1, EntriesUnchanged
  <2>5. BatchFunctions' /\ \A b \in Batches : BatchInv(b)' BY <1>2, <2>4, BatchesFrame
  <2> QED BY <1>2, <2>2, <2>3, <2>5 DEF TasksInv
<1>4. CASE \E w \in Workers : Preheat(w)
  <2>1. PICK w \in Workers : Preheat(w) BY <1>4
  <2>2. CollectorInv' /\ PreheatInv' BY <1>1, <2>1, PreheatOK
  <2>3. PICK e \in MetricsEntry : e.from[1] = "preheat" /\ OneLine(Request(e))
    BY <1>1, <2>1, PreheatOK
  <2>4. Request(e).entry = e BY DEF Request
  <2>5. \A b \in Batches : EntriesKept(b) BY <2>3, <2>4, EntriesSame
  <2>6. BatchFunctions' /\ \A b \in Batches : BatchInv(b)' BY <1>2, <2>5, BatchesFrame
  <2> QED BY <1>2, <2>2, <2>6 DEF TasksInv
<1> QED BY <1>3, <1>4 DEF PreheatNext

\* The single action and resetMetrics add a line that is nobody else's.
LEMMA OtherStepsOK ==
  ASSUME TasksInv, SingleFails \/ SingleFallsBack \/ ResetMetrics
  PROVE  TasksInv'
<1>1. CollectorInv /\ PreheatInv BY DEF TasksInv
<1>2. UNCHANGED <<batchVars, preheatVars>> BY DEF SingleFails, SingleFallsBack, ResetMetrics
<1>3. Failure \in MetricsEntry /\ Failure.from[1] = "single"
  <2>1. Action \in Methods /\ <<"single">> \in Sources BY TasksAssumption DEF Sources
  <2> QED BY <2>1 DEF Failure, MetricsEntry
<1>4. ASSUME NEW line, OneLine(line), CollectorInv',
             line.kind = "request" => line.entry.from[1] = "single"
      PROVE  /\ CollectorInv' /\ PreheatInv'
             /\ BatchFunctions' /\ \A b \in Batches : BatchInv(b)'
  <2>1. Reported' = Reported /\ \A j \in Reported : log'[j] = log[j] BY <1>4, ReportedSame
  <2>2. \A b \in Batches : EntriesKept(b) BY <1>4, EntriesSame
  <2>3. PreheatInv' BY <1>1, <1>2, <2>1, PreheatFrame
  <2>4. BatchFunctions' /\ \A b \in Batches : BatchInv(b)' BY <1>2, <2>2, BatchesFrame
  <2> QED BY <1>4, <2>3, <2>4
<1>5. CASE SingleFails
  <2>1. RecordAll(<<Failure>>) /\ single' = "failed" /\ resets' = resets
    BY <1>5 DEF SingleFails
  <2>2. CollectorInv' /\ OneLine(Request(Failure)) BY <1>1, <1>3, <2>1, RecordOneOK
  <2>3. Request(Failure).entry = Failure BY DEF Request
  <2>4. /\ PreheatInv' /\ BatchFunctions' /\ \A b \in Batches : BatchInv(b)'
    BY <1>3, <1>4, <2>2, <2>3
  <2> QED BY <2>1, <2>2, <2>4 DEF TasksInv
<1>6. CASE SingleFallsBack
  <2> DEFINE line == [kind |-> "fallback", entry |-> Failure]
  <2>1. RecordFallback(Failure) /\ single' = "done" /\ resets' = resets
    BY <1>6 DEF SingleFallsBack
  <2>2. CollectorInv' /\ OneLine(line) BY <1>1, <1>3, <2>1, FallbackStep
  <2>3. line.kind # "request" OBVIOUS
  <2> HIDE DEF line
  <2>4. /\ PreheatInv' /\ BatchFunctions' /\ \A b \in Batches : BatchInv(b)'
    BY <1>4, <2>2, <2>3
  <2> QED BY <2>1, <2>2, <2>4 DEF TasksInv
<1>7. CASE ResetMetrics
  <2> DEFINE line == [kind |-> "reset"]
  <2>1. Reset /\ single' = single /\ resets < MaxResets /\ resets' = resets + 1
    BY <1>7 DEF ResetMetrics
  <2>2. CollectorInv' /\ OneLine(line) BY <1>1, <2>1, ResetStep
  <2>3. line.kind # "request" OBVIOUS
  <2> HIDE DEF line
  <2>4. /\ PreheatInv' /\ BatchFunctions' /\ \A b \in Batches : BatchInv(b)'
    BY <1>4, <2>2, <2>3
  <2>5. resets' \in 0..MaxResets BY <2>1, TasksAssumption DEF TasksInv
  <2> QED BY <2>1, <2>2, <2>4, <2>5 DEF TasksInv
<1> QED BY <1>5, <1>6, <1>7

LEMMA TasksInit ==
  ASSUME Init
  PROVE  TasksInv
<1>1. /\ metrics = Fresh /\ log = <<>> /\ cursor = 1 /\ worker = [w \in Workers |-> 0]
      /\ failed = 0 /\ fired = [i \in Preheated |-> 0]
      /\ single = "idle" /\ resets = 0
  BY DEF Init, CollectorInit, PreheatInit, Idle
<1>2. Len(<<>>) = 0 /\ DOMAIN <<>> = {} /\ <<>> \in Seq(Line) /\ <<>> \in Seq(BatchResult)
  OBVIOUS
<1>3. CollectorInv
  <2>1. Since(log, 0, "request") = {} /\ Since(log, 0, "fallback") = {} BY DEF Since
  <2>2. StateIs(Fresh, log, 0) BY <2>1, FreshOK
  <2> QED BY <1>1, <1>2, <2>2 DEF CollectorInv
<1>4. Reported = {} BY <1>1, <1>2 DEF Reported
<1>5. \A i \in Preheated : ~ (i < 1) BY Pool
<1>6. PoolInv
  <2>1. \A w \in Workers : worker[w] = 0 /\ worker[w] \notin Preheated /\ worker[w] # Finished
    BY <1>1, Pool
  <2>2. cursor \in 1..N + 1 /\ ~ (cursor > 1) /\ worker \in [Workers -> 0..N + 1]
    BY <1>1, Pool
  <2>3. fired = [i \in Preheated |-> One(i < cursor)] BY <1>1, <1>5 DEF One
  <2> QED BY <1>1, <2>1, <2>2, <2>3, Pool DEF PoolInv, Idle
<1>7. ReportInv
  <2>1. {j \in Reported : ~ log[j].entry.success} = {} BY <1>4
  <2>2. failed = Cardinality({j \in Reported : ~ log[j].entry.success})
    BY <1>1, <2>1, FS_EmptySet
  <2> QED BY <1>1, <1>4, <1>5, <2>2 DEF ReportInv
<1>8. ASSUME NEW b \in Batches PROVE BatchInv(b)
  <2>1. /\ at[b] = "idle" /\ tries[b] = 0 /\ served[b] = Unserved(b) /\ results[b] = <<>>
        /\ path[b] = "none"
    BY DEF Init, BatchInit
  <2>2. NotCounted(b) BY <1>1, <1>2 DEF NotCounted, Entries
  <2>3. 0 \in 0..Attempts BY BatchAssumption
  <2> QED BY <1>2, <2>1, <2>2, <2>3, UnservedOK DEF BatchInv, Phases, Paths
<1>9. BatchFunctions BY DEF Init, BatchInit, BatchFunctions
<1>10. resets \in 0..MaxResets BY <1>1, TasksAssumption
<1> QED BY <1>1, <1>3, <1>6, <1>7, <1>8, <1>9, <1>10 DEF TasksInv, PreheatInv

\* Every step keeps the invariant, so it always holds.
LEMMA TasksAlways == Spec => []TasksInv
<1>1. Init => TasksInv BY TasksInit
<1>2. TasksInv /\ [Next]_vars => TasksInv'
  <2> SUFFICES ASSUME TasksInv, [Next]_vars PROVE TasksInv' OBVIOUS
  <2>1. CASE UNCHANGED vars
    <3>1. /\ UNCHANGED <<metrics, log, batchVars, preheatVars, single, resets>>
      BY <2>1 DEF vars
    <3>2. CollectorInv' BY <3>1 DEF TasksInv, CollectorInv, StateIs
    <3>3. Reported' = Reported BY <3>1 DEF Reported
    <3>4. PreheatInv' BY <3>1, <3>3, PreheatFrame DEF TasksInv
    <3>5. \A b \in Batches : EntriesKept(b) BY <3>1, EntriesUnchanged
    <3>6. BatchFunctions' /\ \A b \in Batches : BatchInv(b)' BY <3>1, <3>5, BatchesFrame
    <3> QED BY <3>1, <3>2, <3>4, <3>6 DEF TasksInv
  <2>2. CASE Next BY <2>2, BatchStepOK, PreheatStepOK, OtherStepsOK DEF Next
  <2> QED BY <2>1, <2>2
<1> QED BY <1>1, <1>2, PTL DEF Spec

\* What the invariant of a batch says when it is done.
LEMMA BatchShown ==
  ASSUME TasksInv
  PROVE  BatchTypeOK /\ BatchAnswered /\ BatchCounted
<1>1. BatchFunctions /\ \A b \in Batches : BatchInv(b) BY DEF TasksInv
<1>2. BatchTypeOK
  <2>1. at \in [Batches -> Phases] BY <1>1 DEF BatchFunctions, BatchInv
  <2>2. tries \in [Batches -> 0..Attempts] BY <1>1 DEF BatchFunctions, BatchInv
  <2> QED BY <1>1, <2>1, <2>2 DEF BatchTypeOK, BatchInv, Phases, Served
<1>3. ASSUME NEW b \in Batches, at[b] = "done", NEW i \in Index(b)
      PROVE  LET r == results[b][i] IN
             /\ i \in 1..Len(results[b])
             /\ r.id = Items[b][i].id /\ r.of = i
             /\ r.as = Items[b][i].action
             /\ r.ok <=> r.outcome = "value"
  <2>1. PICK r : r = results[b][i] OBVIOUS
  <2>2. Len(results[b]) = Len(Items[b]) /\ DecodedList(b, results[b])
    BY <1>1, <1>3 DEF BatchInv
  <2>3. i \in 1..Len(results[b]) BY <2>2, Batched
  <2>4. r = DecodedResult(b, i, r.outcome) BY <2>1, <2>2, <2>3 DEF DecodedList
  <2>5. PICK outcome : outcome = r.outcome OBVIOUS
  <2>6. /\ r.id = Items[b][i].id /\ r.of = i /\ r.as = Items[b][i].action
        /\ r.ok = (outcome = "value")
    BY <2>4, <2>5 DEF DecodedResult
  <2> QED BY <2>1, <2>3, <2>5, <2>6
<1>4. BatchAnswered
  <2>1. \A b \in Batches : at[b] = "done" => Len(results[b]) = Len(Items[b])
    BY <1>1 DEF BatchInv
  <2> QED BY <1>3, <2>1 DEF BatchAnswered
<1>5. ASSUME NEW b \in Batches, NEW i \in Index(b)
      PROVE  /\ Cardinality(Entries(b, i)) <= 1
             /\ at[b] = "done" => Cardinality(Entries(b, i)) = One(path[b] # "native")
             /\ \A j \in Entries(b, i) :
                  /\ path[b] = "post" /\ DistinctId(b, i) => log[j].entry.success = results[b][i].ok
                  /\ path[b] = "serial" => log[j].entry.success = (results[b][i].outcome # "error")
  <2>1. BatchInv(b) BY <1>1
  <2>2. Once(b, i) => Cardinality(Entries(b, i)) = 1
    <3> SUFFICES ASSUME Once(b, i) PROVE Cardinality(Entries(b, i)) = 1 OBVIOUS
    <3>1. PICK j : Entries(b, i) = {j} BY DEF Once
    <3> QED BY <3>1, FS_Singleton
  <2>3. Entries(b, i) = {} => Cardinality(Entries(b, i)) = 0 BY FS_EmptySet
  <2>4. Once(b, i) \/ Entries(b, i) = {}
    <3>1. at[b] \in Phases /\ path[b] \in Paths BY <2>1 DEF BatchInv
    <3>2. CASE at[b] \in {"idle", "posting", "backoff", "native"}
      BY <2>1, <3>2 DEF BatchInv, NotCounted
    <3>3. CASE at[b] = "serial" BY <2>1, <3>3 DEF BatchInv
    <3>4. CASE at[b] = "done"
      <4>1. path[b] # "none" BY <2>1, <3>4 DEF BatchInv, Index
      <4> QED BY <2>1, <3>1, <3>4, <4>1 DEF BatchInv, NotCounted, Paths
    <3> QED BY <3>1, <3>2, <3>3, <3>4 DEF Phases
  <2>5. CASE at[b] = "done"
    <3>1. path[b] # "none" BY <2>1, <2>5 DEF BatchInv, Index
    <3>2. path[b] \in {"serial", "post"} => Once(b, i) BY <2>1, <2>5 DEF BatchInv
    <3>3. path[b] = "native" => Entries(b, i) = {} BY <2>1, <2>5 DEF BatchInv, NotCounted
    <3>4. path[b] \in Paths BY <2>1 DEF BatchInv
    <3>5. Cardinality(Entries(b, i)) = One(path[b] # "native")
      BY <2>2, <2>3, <3>1, <3>2, <3>3, <3>4 DEF One, Paths
    <3>6. ASSUME path[b] = "post", DistinctId(b, i), NEW j \in Entries(b, i)
          PROVE  log[j].entry.success = results[b][i].ok
      <4>1. log[j].entry.success = ById(results[b], Items[b][i].id).ok
        BY <2>1, <2>5, <3>6 DEF BatchInv
      <4>2. results[b] \in Seq(BatchResult) /\ i \in 1..Len(results[b])
            /\ Len(results[b]) = Len(Items[b]) /\ results[b][i].id = Items[b][i].id
        BY <1>3, <2>1, <2>5 DEF BatchInv
      <4>3. PICK k \in 1..Len(results[b]) :
              ById(results[b], Items[b][i].id) = results[b][k] /\ results[b][k].id = Items[b][i].id
        <5>1. PICK list, id : list = results[b] /\ id = Items[b][i].id OBVIOUS
        <5>2. list \in Seq(BatchResult) /\ i \in 1..Len(list) /\ list[i].id = id BY <4>2, <5>1
        <5>3. PICK k \in 1..Len(list) : ById(list, id) = list[k] /\ list[k].id = id
          BY <5>2, ByIdFinds
        <5> QED BY <5>1, <5>3
      <4>4. k \in Index(b) BY <4>2, Batched
      <4>5. Items[b][k].id = Items[b][i].id BY <1>3, <2>5, <4>3, <4>4
      <4>6. k = i BY <3>6, <4>4, <4>5 DEF DistinctId
      <4> QED BY <4>1, <4>3, <4>6
    <3>7. path[b] = "serial" =>
            \A j \in Entries(b, i) : log[j].entry.success = (results[b][i].outcome # "error")
      BY <2>1, <2>5 DEF BatchInv
    <3> QED BY <2>2, <2>3, <2>4, <3>5, <3>6, <3>7
  <2>6. CASE at[b] # "done"
    <3>1. path[b] = "none" BY <2>1, <2>6 DEF BatchInv
    <3> QED BY <2>2, <2>3, <2>4, <2>6, <3>1
  <2> QED BY <2>5, <2>6
<1> QED BY <1>2, <1>4, <1>5 DEF BatchCounted

-----------------------------------------------------------------------------
\* Batches, the preheat and the collector have states the code can be in: no
\* attempt is beyond the last, no serial or native batch beyond its last item,
\* no ring beyond its capacity.
THEOREM TasksTypeCorrect == Spec => []TasksTypeOK
<1>1. TasksInv => TasksTypeOK
  <2> SUFFICES ASSUME TasksInv PROVE TasksTypeOK OBVIOUS
  <2>1. BatchTypeOK BY BatchShown
  <2>2. PreheatTypeOK BY PreheatShown DEF TasksInv
  <2> QED BY <2>1, <2>2 DEF TasksTypeOK, TasksInv, CollectorInv, StateIs
<1> QED BY <1>1, TasksAlways, PTL

\* A batch that is done has one result per item, in order, under the item's id
\* and decoded as the item's action, by whichever path it was answered.
THEOREM BatchesAreAnswered == Spec => []BatchAnswered
<1>1. TasksInv => BatchAnswered BY BatchShown
<1> QED BY <1>1, TasksAlways, PTL

\* The collector's snapshot is what was recorded since the last reset, by
\* whomever, and every item of a batch is counted once, with its own outcome.
THEOREM MetricsAreExact == Spec => []MetricsExact
<1>1. TasksInv => MetricsExact
  <2> SUFFICES ASSUME TasksInv PROVE MetricsExact OBVIOUS
  <2>1. BatchCounted BY BatchShown
  <2>2. SnapshotExact BY SnapshotOf DEF TasksInv, CollectorInv
  <2> QED BY <2>1, <2>2 DEF MetricsExact
<1> QED BY <1>1, TasksAlways, PTL

\* The pool of the preheat makes every request once and reports every request,
\* in whatever order they end.
THEOREM PreheatIsExact == Spec => []PreheatExact
<1>1. TasksInv => PreheatExact BY PreheatShown DEF TasksInv
<1> QED BY <1>1, TasksAlways, PTL
=============================================================================
