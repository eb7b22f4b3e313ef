-------------------------- MODULE RpcLimiterProofs --------------------------
(***************************************************************************)
(* Theorems about RpcLimiter, for every finite set of calls, every set of  *)
(* chains, every cap, number of endpoints and queue timeout.               *)
(***************************************************************************)
EXTENDS RpcLimiter, FiniteSetTheorems, SequenceTheorems, TLAPS

LEMMA AppendFacts ==
  ASSUME NEW s \in Seq(Calls), NEW c \in Calls, c \notin ToSet(s), IsInjective(s)
  PROVE  /\ Append(s, c) \in Seq(Calls)
         /\ ToSet(Append(s, c)) = ToSet(s) \cup {c}
         /\ IsInjective(Append(s, c))
         /\ Append(s, c) # <<>>
<1> DEFINE t == Append(s, c)
<1>1. /\ t \in Seq(Calls) /\ DOMAIN t = 1..Len(s) + 1 /\ DOMAIN s = 1..Len(s)
      /\ \A i \in 1..Len(s) : t[i] = s[i]
      /\ t[Len(s) + 1] = c /\ Len(s) \in Nat
  OBVIOUS
<1> HIDE DEF t
<1>2. ToSet(t) = ToSet(s) \cup {c}
  BY <1>1 DEF ToSet
<1>3. IsInjective(t)
  BY <1>1 DEF ToSet, IsInjective
<1>4. t # <<>> BY <1>1
<1> QED BY <1>1, <1>2, <1>3, <1>4 DEF t

LEMMA TailFacts ==
  ASSUME NEW s \in Seq(Calls), s # <<>>, IsInjective(s)
  PROVE  /\ Head(s) \in ToSet(s)
         /\ Tail(s) \in Seq(Calls)
         /\ ToSet(Tail(s)) = ToSet(s) \ {Head(s)}
         /\ IsInjective(Tail(s))
<1> DEFINE t == Tail(s)
<1>1. /\ t \in Seq(Calls) /\ DOMAIN t = 1..Len(s) - 1 /\ DOMAIN s = 1..Len(s)
      /\ \A i \in 1..Len(s) - 1 : t[i] = s[i + 1]
      /\ Head(s) = s[1] /\ Len(s) \in Nat /\ Len(s) >= 1
  OBVIOUS
<1> HIDE DEF t
<1>2. \A j \in 1..Len(s) - 1 : /\ j + 1 \in 1..Len(s) /\ t[j] = s[j + 1]
                               /\ s[j + 1] # s[1]
  <2> SUFFICES ASSUME NEW j \in 1..Len(s) - 1
               PROVE  j + 1 \in 1..Len(s) /\ t[j] = s[j + 1] /\ s[j + 1] # s[1]
    OBVIOUS
  <2>1. j + 1 \in 1..Len(s) /\ 1 \in 1..Len(s) /\ j + 1 # 1 BY <1>1
  <2> QED BY <1>1, <2>1 DEF IsInjective
<1>3. ASSUME NEW x \in ToSet(t) PROVE x \in ToSet(s) \ {s[1]}
  <2>1. PICK j \in 1..Len(s) - 1 : x = t[j] BY <1>1 DEF ToSet
  <2> QED BY <1>1, <1>2, <2>1 DEF ToSet
<1>4. ASSUME NEW x \in ToSet(s) \ {s[1]} PROVE x \in ToSet(t)
  <2>1. PICK i \in 1..Len(s) : x = s[i] BY <1>1 DEF ToSet
  <2>2. i # 1 BY <2>1
  <2>3. i - 1 \in 1..Len(s) - 1 /\ (i - 1) + 1 = i BY <1>1, <2>2
  <2>4. x = t[i - 1] BY <1>2, <2>1, <2>3
  <2> QED BY <1>1, <2>3, <2>4 DEF ToSet
<1>5. IsInjective(t) BY <1>1 DEF IsInjective
<1>6. Head(s) \in ToSet(s) BY <1>1 DEF ToSet
<1> QED BY <1>1, <1>3, <1>4, <1>5, <1>6 DEF t

LEMMA RemoveAtFacts ==
  ASSUME NEW s \in Seq(Calls), NEW i \in DOMAIN s, IsInjective(s)
  PROVE  /\ RemoveAt(s, i) \in Seq(Calls)
         /\ ToSet(RemoveAt(s, i)) = ToSet(s) \ {s[i]}
         /\ IsInjective(RemoveAt(s, i))
<1> DEFINE t == RemoveAt(s, i)
           a == SubSeq(s, 1, i - 1)
           b == SubSeq(s, i + 1, Len(s))
<1>1. /\ DOMAIN s = 1..Len(s) /\ Len(s) \in Nat /\ i \in 1..Len(s)
  OBVIOUS
<1>2. /\ a \in Seq(Calls) /\ Len(a) = i - 1
      /\ \A j \in 1..i - 1 : a[j] = s[j]
  BY <1>1
<1>3. /\ b \in Seq(Calls) /\ Len(b) = Len(s) - i
      /\ \A j \in 1..Len(s) - i : b[j] = s[i + j]
  BY <1>1
<1>4. t = a \o b BY DEF RemoveAt
<1> HIDE DEF a, b, t
<1>5. /\ t \in Seq(Calls) /\ DOMAIN t = 1..Len(s) - 1
      /\ \A j \in 1..i - 1 : t[j] = s[j]
      /\ \A j \in i..Len(s) - 1 : t[j] = s[j + 1]
  <2>1. /\ t \in Seq(Calls) /\ Len(t) = (i - 1) + (Len(s) - i)
        /\ \A j \in 1..Len(a) : t[j] = a[j]
        /\ \A j \in 1..Len(b) : t[Len(a) + j] = b[j]
    <3>1. Len(a) \in Nat /\ Len(b) \in Nat BY <1>2, <1>3
    <3>2. /\ t \in Seq(Calls) /\ Len(t) = Len(a) + Len(b)
          /\ \A j \in 1..Len(a) + Len(b) :
               t[j] = IF j <= Len(a) THEN a[j] ELSE b[j - Len(a)]
      BY <1>2, <1>3, <1>4, ConcatProperties
    <3>3. ASSUME NEW j \in 1..Len(a) PROVE t[j] = a[j]
      BY <3>1, <3>2
    <3>4. ASSUME NEW j \in 1..Len(b) PROVE t[Len(a) + j] = b[j]
      <4>1. /\ Len(a) + j \in 1..Len(a) + Len(b)
            /\ ~ (Len(a) + j <= Len(a)) /\ (Len(a) + j) - Len(a) = j
        BY <3>1
      <4> QED BY <3>2, <4>1
    <3> QED BY <1>2, <1>3, <3>2, <3>3, <3>4
  <2>2. Len(t) = Len(s) - 1 BY <1>1, <2>1
  <2>3. \A j \in 1..i - 1 : t[j] = s[j] BY <1>1, <1>2, <2>1
  <2>4. ASSUME NEW j \in i..Len(s) - 1 PROVE t[j] = s[j + 1]
    <3> DEFINE m == j - (i - 1)
    <3>1. m \in 1..Len(s) - i /\ Len(a) + m = j /\ i + m = j + 1
      BY <1>1, <1>2
    <3>2. t[Len(a) + m] = s[i + m] BY <1>3, <2>1, <3>1
    <3> QED BY <3>1, <3>2
  <2> QED BY <2>1, <2>2, <2>3, <2>4
<1>6. \A j \in DOMAIN t : \E k \in 1..Len(s) :
         k # i /\ t[j] = s[k] /\ k = IF j < i THEN j ELSE j + 1
  <2> SUFFICES ASSUME NEW j \in 1..Len(s) - 1
               PROVE  \E k \in 1..Len(s) :
                        k # i /\ t[j] = s[k] /\ k = IF j < i THEN j ELSE j + 1
    BY <1>5
  <2>1. CASE j < i
    <3>1. j \in 1..i - 1 /\ j \in 1..Len(s) BY <1>1, <2>1
    <3> QED BY <1>1, <1>5, <2>1, <3>1
  <2>2. CASE ~ (j < i)
    <3>1. j \in i..Len(s) - 1 /\ j + 1 \in 1..Len(s) /\ j + 1 # i BY <1>1, <2>2
    <3>2. t[j] = s[j + 1] BY <1>5, <3>1
    <3> QED BY <2>2, <3>1, <3>2
  <2> QED BY <2>1, <2>2
<1>7. \A k \in 1..Len(s) : k # i => \E j \in DOMAIN t : t[j] = s[k]
  <2> SUFFICES ASSUME NEW k \in 1..Len(s), k # i
               PROVE  \E j \in 1..Len(s) - 1 : t[j] = s[k]
    BY <1>5
  <2>1. CASE k < i
    <3>1. k \in 1..i - 1 /\ k \in 1..Len(s) - 1 BY <1>1, <2>1
    <3> QED BY <1>5, <3>1
  <2>2. CASE k > i
    <3>1. k - 1 \in i..Len(s) - 1 /\ k - 1 \in 1..Len(s) - 1 /\ (k - 1) + 1 = k
      BY <1>1, <2>2
    <3>2. t[k - 1] = s[k] BY <1>5, <3>1
    <3> QED BY <3>1, <3>2
  <2> QED BY <1>1, <2>1, <2>2
<1>8. \A k \in 1..Len(s) : k # i => s[k] # s[i]
  BY <1>1 DEF IsInjective
<1>9. ToSet(t) = ToSet(s) \ {s[i]}
  <2>1. ASSUME NEW x \in ToSet(t) PROVE x \in ToSet(s) \ {s[i]}
    <3>1. PICK j \in DOMAIN t : x = t[j] BY DEF ToSet
    <3>2. PICK k \in 1..Len(s) : k # i /\ t[j] = s[k] BY <1>6
    <3> QED BY <1>1, <1>8, <3>1, <3>2 DEF ToSet
  <2>2. ASSUME NEW x \in ToSet(s) \ {s[i]} PROVE x \in ToSet(t)
    <3>1. PICK k \in 1..Len(s) : x = s[k] BY <1>1 DEF ToSet
    <3>2. k # i BY <3>1
    <3>3. PICK j \in DOMAIN t : t[j] = s[k] BY <1>7, <3>2
    <3> QED BY <3>1, <3>3 DEF ToSet
  <2> QED BY <2>1, <2>2
<1>10. IsInjective(t)
  <2> SUFFICES ASSUME NEW j \in DOMAIN t, NEW l \in DOMAIN t, t[j] = t[l]
               PROVE  j = l
    BY DEF IsInjective
  <2>1. PICK k \in 1..Len(s) : t[j] = s[k] /\ k = IF j < i THEN j ELSE j + 1
    BY <1>6
  <2>2. PICK m \in 1..Len(s) : t[l] = s[m] /\ m = IF l < i THEN l ELSE l + 1
    BY <1>6
  <2>3. k = m BY <1>1, <2>1, <2>2 DEF IsInjective
  <2>4. j \in 1..Len(s) - 1 /\ l \in 1..Len(s) - 1 BY <1>5
  <2> QED BY <1>1, <2>1, <2>2, <2>3, <2>4
<1> QED BY <1>5, <1>9, <1>10 DEF t

-----------------------------------------------------------------------------
LEMMA HoldersFinite ==
  ASSUME NEW h \in Chains
  PROVE  /\ IsFiniteSet(Holders(h))
         /\ Cardinality(Holders(h)) \in Nat
<1>1. Holders(h) \in SUBSET Calls BY DEF Holders
<1> QED BY <1>1, LimiterAssumption, FS_Subset, FS_CardinalityType

\* The calls a step leaves alone.
Same(c) == chain'[c] = chain[c] /\ pc'[c] = pc[c]

LEMMA InitInv == Init => LimiterInv
<1> SUFFICES ASSUME Init PROVE LimiterInv
  OBVIOUS
<1>1. TypeOK
  BY LimiterAssumption DEF Init, TypeOK, Ended
<1>2. \A h \in Chains : Holders(h) = {} /\ Waiters(h) = {}
  BY DEF Init, Holders, Waiters, Holding, Leaving
<1>3. SlotsCounted BY <1>2, FS_EmptySet DEF SlotsCounted, Init
<1>4. QueueExact
  BY <1>2 DEF QueueExact, Init, ToSet, IsInjective
<1>5. NoIdleSlot /\ CounterBounded
  BY LimiterAssumption DEF NoIdleSlot, CounterBounded, Init
<1>6. FailsHonestly BY DEF FailsHonestly, Init
<1> QED BY <1>1, <1>3, <1>4, <1>5, <1>6 DEF LimiterInv

LEMMA TakeSlotInv ==
  ASSUME LimiterInv, NEW c \in Calls, NEW h \in Chains, TakeSlot(c, h)
  PROVE  LimiterInv'
<1>0. TypeOK /\ SlotsCounted /\ QueueExact /\ NoIdleSlot /\ CounterBounded
      /\ FailsHonestly
  BY DEF LimiterInv
<1>1. TypeOK' BY <1>0, LimiterAssumption DEF TypeOK, TakeSlot, Holding
<1>2. /\ pc[c] \in Ended /\ pc'[c] = "calling" /\ chain'[c] = h
      /\ \A d \in Calls \ {c} : Same(d)
  BY <1>0 DEF TakeSlot, TypeOK, Same
<1>3. Holders(h)' = Holders(h) \cup {c} /\ c \notin Holders(h)
  BY <1>2 DEF Holders, Same, Holding, Leaving, Ended
<1>4. \A g \in Chains \ {h} : Holders(g)' = Holders(g)
  BY <1>2 DEF Holders, Same, Holding, Leaving, Ended
<1>5. \A g \in Chains : Waiters(g)' = Waiters(g)
  BY <1>2 DEF Waiters, Same, Ended
<1>6. /\ active[h] \in Nat /\ active[h] < MaxRpc
      /\ active' = [active EXCEPT ![h] = active[h] + 1] /\ queue' = queue
  BY <1>0 DEF TakeSlot, TypeOK
<1>7. SlotsCounted'
  <2>1. Cardinality(Holders(h)') = Cardinality(Holders(h)) + 1
    BY <1>3, HoldersFinite, FS_AddElement
  <2> QED BY <1>0, <1>4, <1>6, <2>1 DEF SlotsCounted, TypeOK
<1>8. QueueExact' BY <1>0, <1>5, <1>6 DEF QueueExact
<1>9. NoIdleSlot' BY <1>0, <1>6, LimiterAssumption DEF NoIdleSlot, TypeOK
<1>10. CounterBounded' BY <1>0, <1>6, LimiterAssumption DEF CounterBounded, TypeOK
<1>11. FailsHonestly'
  BY <1>0, LimiterAssumption DEF FailsHonestly, TakeSlot, TypeOK
<1> QED BY <1>1, <1>7, <1>8, <1>9, <1>10, <1>11 DEF LimiterInv

LEMMA EnqueueInv ==
  ASSUME LimiterInv, NEW c \in Calls, NEW h \in Chains, Enqueue(c, h)
  PROVE  LimiterInv'
<1>0. TypeOK /\ SlotsCounted /\ QueueExact /\ NoIdleSlot /\ CounterBounded
      /\ FailsHonestly
  BY DEF LimiterInv
<1>1. /\ pc[c] \in Ended /\ pc'[c] = "queued" /\ chain'[c] = h
      /\ \A d \in Calls \ {c} : Same(d)
  BY <1>0 DEF Enqueue, TypeOK, Same
<1>2. \A g \in Chains : Holders(g)' = Holders(g)
  BY <1>1 DEF Holders, Same, Holding, Leaving, Ended
<1>3. Waiters(h)' = Waiters(h) \cup {c}
  BY <1>1 DEF Waiters, Same, Ended
<1>4. \A g \in Chains \ {h} : Waiters(g)' = Waiters(g)
  BY <1>1 DEF Waiters, Same, Ended
<1>5. /\ queue[h] \in Seq(Calls) /\ ToSet(queue[h]) = Waiters(h)
      /\ IsInjective(queue[h])
  BY <1>0 DEF TypeOK, QueueExact
<1>6. c \notin ToSet(queue[h]) BY <1>1, <1>5 DEF Waiters, Ended
<1>7. queue' = [queue EXCEPT ![h] = Append(queue[h], c)] /\ active' = active
  BY DEF Enqueue
<1>8. TypeOK'
  <2>1. queue' \in [Chains -> Seq(Calls)]
    BY <1>0, <1>5, <1>6, <1>7, AppendFacts DEF TypeOK
  <2>2. pc' \in [Calls -> Ended \cup {"queued"} \cup Holding]
    BY <1>0 DEF TypeOK, Enqueue
  <2>3. /\ chain' \in [Calls -> Chains] /\ tried' \in [Calls -> 0..Endpoints]
        /\ waited' \in [Calls -> 0..QueueTtl]
    BY <1>0, LimiterAssumption DEF TypeOK, Enqueue
  <2> QED BY <1>0, <1>7, <2>1, <2>2, <2>3 DEF TypeOK
<1>9. SlotsCounted' BY <1>0, <1>2, <1>7 DEF SlotsCounted
<1>10. QueueExact'
  BY <1>0, <1>3, <1>4, <1>5, <1>6, <1>7, AppendFacts DEF QueueExact, TypeOK
<1>11. NoIdleSlot'
  BY <1>0, <1>7, LimiterAssumption DEF NoIdleSlot, CounterBounded, TypeOK, Enqueue
<1>12. CounterBounded' BY <1>0, <1>7 DEF CounterBounded
<1>13. FailsHonestly' BY <1>0 DEF FailsHonestly, Enqueue, TypeOK
<1> QED BY <1>8, <1>9, <1>10, <1>11, <1>12, <1>13 DEF LimiterInv

LEMMA QueueTimeoutInv ==
  ASSUME LimiterInv, NEW c \in Calls, QueueTimeout(c)
  PROVE  LimiterInv'
<1> DEFINE h == chain[c]
<1>0. TypeOK /\ SlotsCounted /\ QueueExact /\ NoIdleSlot /\ CounterBounded
      /\ FailsHonestly
  BY DEF LimiterInv
<1>1. /\ h \in Chains /\ pc[c] = "queued" /\ pc'[c] = "queueTimeout"
      /\ chain' = chain /\ \A d \in Calls \ {c} : Same(d)
  BY <1>0 DEF QueueTimeout, TypeOK, Same
<1>2. \A g \in Chains : Holders(g)' = Holders(g)
  BY <1>1 DEF Holders, Same, Holding, Leaving
<1>3. Waiters(h)' = Waiters(h) \ {c} /\ \A g \in Chains \ {h} : Waiters(g)' = Waiters(g)
  BY <1>1 DEF Waiters, Same
<1>4. PICK i \in DOMAIN queue[h] :
        queue[h][i] = c /\ queue' = [queue EXCEPT ![h] = RemoveAt(queue[h], i)]
  BY DEF QueueTimeout
<1>5. /\ queue[h] \in Seq(Calls) /\ ToSet(queue[h]) = Waiters(h)
      /\ IsInjective(queue[h])
  BY <1>0, <1>1 DEF TypeOK, QueueExact
<1>6. /\ RemoveAt(queue[h], i) \in Seq(Calls)
      /\ ToSet(RemoveAt(queue[h], i)) = Waiters(h) \ {c}
      /\ IsInjective(RemoveAt(queue[h], i))
  BY <1>4, <1>5, RemoveAtFacts
<1>7. active' = active BY DEF QueueTimeout
<1>8. TypeOK'
  <2>1. queue' \in [Chains -> Seq(Calls)]
    BY <1>0, <1>4, <1>6 DEF TypeOK
  <2>2. pc' \in [Calls -> Ended \cup {"queued"} \cup Holding]
    BY <1>0 DEF TypeOK, QueueTimeout, Ended
  <2>3. waited' \in [Calls -> 0..QueueTtl] /\ tried' = tried /\ chain' = chain
    BY <1>0, LimiterAssumption DEF TypeOK, QueueTimeout
  <2> QED BY <1>0, <1>7, <2>1, <2>2, <2>3 DEF TypeOK
<1>9. SlotsCounted' BY <1>0, <1>2, <1>7 DEF SlotsCounted
<1>10. QueueExact'
  BY <1>0, <1>1, <1>3, <1>4, <1>6 DEF QueueExact, TypeOK
<1>11. NoIdleSlot'
  <2>1. queue[h] # <<>> BY <1>4
  <2> QED BY <1>0, <1>1, <1>4, <1>7, <2>1 DEF NoIdleSlot, TypeOK
<1>12. CounterBounded' BY <1>0, <1>7 DEF CounterBounded
<1>13. FailsHonestly' BY <1>0 DEF FailsHonestly, QueueTimeout, TypeOK
<1> QED BY <1>8, <1>9, <1>10, <1>11, <1>12, <1>13 DEF LimiterInv

LEMMA UpstreamInv ==
  ASSUME LimiterInv, NEW c \in Calls, Upstream(c)
  PROVE  LimiterInv'
<1>0. TypeOK /\ SlotsCounted /\ QueueExact /\ NoIdleSlot /\ CounterBounded
      /\ FailsHonestly
  BY DEF LimiterInv
<1>1. /\ active' = active /\ queue' = queue /\ chain' = chain /\ waited' = waited
      /\ pc[c] = "calling" /\ pc'[c] \in Holding
      /\ \A d \in Calls \ {c} : Same(d)
  BY <1>0 DEF Upstream, EndpointAnswers, EndpointFails, TypeOK, Same, Holding, Leaving
<1>2. \A g \in Chains : Holders(g)' = Holders(g) /\ Waiters(g)' = Waiters(g)
  BY <1>1 DEF Holders, Waiters, Same, Holding, Leaving
<1>3. tried[c] \in 0..Endpoints /\ tried[c] < Endpoints
  BY <1>0, <1>1 DEF FailsHonestly, TypeOK
<1>4. tried' \in [Calls -> 0..Endpoints]
  <2>1. tried[c] + 1 \in 0..Endpoints BY <1>3, LimiterAssumption
  <2>2. tried' = tried \/ tried' = [tried EXCEPT ![c] = tried[c] + 1]
    BY DEF Upstream, EndpointAnswers, EndpointFails
  <2> QED BY <1>0, <2>1, <2>2 DEF TypeOK
<1>5. pc' \in [Calls -> Ended \cup {"queued"} \cup Holding]
  BY <1>0 DEF Upstream, EndpointAnswers, EndpointFails, TypeOK, Holding, Leaving
<1>6. TypeOK' BY <1>0, <1>1, <1>4, <1>5 DEF TypeOK
<1>7. SlotsCounted' BY <1>0, <1>1, <1>2 DEF SlotsCounted
<1>8. QueueExact' BY <1>0, <1>1, <1>2 DEF QueueExact
<1>9. NoIdleSlot' /\ CounterBounded' BY <1>0, <1>1 DEF NoIdleSlot, CounterBounded
<1>10. FailsHonestly'
  <2>1. CASE EndpointAnswers(c)
    BY <1>0, <2>1 DEF EndpointAnswers, FailsHonestly, TypeOK
  <2>2. CASE EndpointFails(c)
    <3>1. /\ tried'[c] = tried[c] + 1
          /\ pc'[c] = IF tried[c] + 1 < Endpoints THEN "calling" ELSE "failed"
          /\ \A d \in Calls \ {c} : pc'[d] = pc[d] /\ tried'[d] = tried[d]
      BY <1>0, <2>2 DEF EndpointFails, TypeOK
    <3> QED BY <1>0, <1>3, <3>1, LimiterAssumption DEF FailsHonestly
  <2> QED BY <2>1, <2>2 DEF Upstream
<1> QED BY <1>6, <1>7, <1>8, <1>9, <1>10 DEF LimiterInv

\* The facts a release shares: the call leaves, whoever is next is a waiter of
\* the same chain.
LEMMA HandOverFacts ==
  ASSUME LimiterInv, NEW c \in Calls, HandOver(c)
  PROVE  LET h == chain[c]  next == Head(queue[h]) IN
         /\ h \in Chains /\ next \in Calls /\ next # c
         /\ pc[c] \in Leaving /\ pc'[c] \in Ended
         /\ pc[next] = "queued" /\ pc'[next] = "calling" /\ chain[next] = h
         /\ chain' = chain /\ \A d \in Calls \ {c, next} : pc'[d] = pc[d]
         /\ Holders(h)' = (Holders(h) \ {c}) \cup {next}
         /\ c \in Holders(h) /\ next \notin Holders(h)
         /\ Waiters(h)' = Waiters(h) \ {next}
         /\ \A g \in Chains \ {h} : /\ Holders(g)' = Holders(g)
                                    /\ Waiters(g)' = Waiters(g)
<1> DEFINE h == chain[c]
           next == Head(queue[h])
<1>0. TypeOK /\ QueueExact BY DEF LimiterInv
<1>1. h \in Chains /\ queue[h] \in Seq(Calls) /\ queue[h] # <<>> /\ IsInjective(queue[h])
      /\ pc[c] \in Leaving /\ chain' = chain
  BY <1>0 DEF HandOver, TypeOK, QueueExact
<1>2. next \in Waiters(h) BY <1>0, <1>1, TailFacts DEF QueueExact
<1>3. next \in Calls /\ pc[next] = "queued" /\ chain[next] = h /\ next # c
  BY <1>1, <1>2 DEF Waiters, Leaving
<1>4. pc' = [pc EXCEPT ![c] = Leave(c), ![next] = "calling"]
  BY DEF HandOver
<1>5. /\ pc'[c] = Leave(c) /\ pc'[next] = "calling"
      /\ \A d \in Calls \ {c, next} : pc'[d] = pc[d]
  BY <1>0, <1>3, <1>4 DEF TypeOK
<1>6. pc'[c] \in Ended /\ pc'[c] \notin Holding /\ pc'[c] # "queued"
  BY <1>5 DEF Leave, Ended, Holding, Leaving
<1>7. /\ c \in Holders(h) /\ next \notin Holders(h)
  BY <1>1, <1>3 DEF Holders, Holding, Leaving
<1>8. Holders(h)' = (Holders(h) \ {c}) \cup {next}
  BY <1>1, <1>3, <1>5, <1>6 DEF Holders, Holding
<1>9. Waiters(h)' = Waiters(h) \ {next}
  BY <1>1, <1>3, <1>5, <1>6 DEF Waiters, Leaving
<1>10. \A g \in Chains \ {h} : Holders(g)' = Holders(g) /\ Waiters(g)' = Waiters(g)
  BY <1>1, <1>3, <1>5 DEF Holders, Waiters
<1> QED BY <1>1, <1>3, <1>5, <1>6, <1>7, <1>8, <1>9, <1>10

LEMMA HandOverInv ==
  ASSUME LimiterInv, NEW c \in Calls, HandOver(c)
  PROVE  LimiterInv'
<1> DEFINE h == chain[c]
           next == Head(queue[h])
<1>0. TypeOK /\ SlotsCounted /\ QueueExact /\ NoIdleSlot /\ CounterBounded
      /\ FailsHonestly
  BY DEF LimiterInv
<1>1. /\ h \in Chains /\ next \in Calls /\ next # c
      /\ pc[c] \in Leaving /\ pc'[c] \in Ended
      /\ pc[next] = "queued" /\ pc'[next] = "calling" /\ chain[next] = h
      /\ chain' = chain /\ \A d \in Calls \ {c, next} : pc'[d] = pc[d]
      /\ Holders(h)' = (Holders(h) \ {c}) \cup {next}
      /\ c \in Holders(h) /\ next \notin Holders(h)
      /\ Waiters(h)' = Waiters(h) \ {next}
      /\ \A g \in Chains \ {h} : Holders(g)' = Holders(g) /\ Waiters(g)' = Waiters(g)
  BY HandOverFacts
<1>2. /\ active' = active /\ tried' = tried /\ queue[h] # <<>>
      /\ queue' = [queue EXCEPT ![h] = Tail(queue[h])]
      /\ waited' = [waited EXCEPT ![next] = 0]
  BY DEF HandOver
<1>3. /\ queue[h] \in Seq(Calls) /\ ToSet(queue[h]) = Waiters(h)
      /\ IsInjective(queue[h])
  BY <1>0, <1>1 DEF TypeOK, QueueExact
<1>4. /\ Tail(queue[h]) \in Seq(Calls)
      /\ ToSet(Tail(queue[h])) = Waiters(h) \ {next}
      /\ IsInjective(Tail(queue[h]))
  BY <1>2, <1>3, TailFacts
<1>5. TypeOK'
  <2>1. pc' \in [Calls -> Ended \cup {"queued"} \cup Holding]
    <3>1. pc' = [pc EXCEPT ![c] = Leave(c), ![next] = "calling"]
      BY DEF HandOver
    <3> QED BY <1>0, <3>1 DEF TypeOK, Leave, Ended, Holding
  <2>2. queue' \in [Chains -> Seq(Calls)] BY <1>0, <1>2, <1>4 DEF TypeOK
  <2>3. waited' \in [Calls -> 0..QueueTtl] BY <1>0, <1>2, LimiterAssumption DEF TypeOK
  <2> QED BY <1>0, <1>1, <1>2, <2>1, <2>2, <2>3 DEF TypeOK
<1>6. SlotsCounted'
  <2>1. Cardinality(Holders(h)') = Cardinality(Holders(h))
    <3>1. /\ IsFiniteSet(Holders(h) \ {c})
          /\ Cardinality(Holders(h) \ {c}) = Cardinality(Holders(h)) - 1
      BY <1>1, HoldersFinite, FS_RemoveElement
    <3>2. Cardinality((Holders(h) \ {c}) \cup {next})
            = Cardinality(Holders(h) \ {c}) + 1
      BY <1>1, <3>1, FS_AddElement
    <3> QED BY <1>1, <3>1, <3>2, HoldersFinite
  <2> QED BY <1>0, <1>1, <1>2, <2>1 DEF SlotsCounted
<1>7. QueueExact'
  BY <1>0, <1>1, <1>2, <1>4 DEF QueueExact, TypeOK
<1>8. NoIdleSlot' BY <1>0, <1>1, <1>2 DEF NoIdleSlot, TypeOK
<1>9. CounterBounded' BY <1>0, <1>2 DEF CounterBounded
<1>10. FailsHonestly'
  <2> SUFFICES ASSUME NEW d \in Calls
               PROVE  /\ pc'[d] \in {"failed", "exhausted"} => tried[d] = Endpoints
                      /\ pc'[d] = "calling" => tried[d] < Endpoints
                      /\ pc'[d] \in {"queued", "queueTimeout"} => tried[d] = 0
    BY <1>2 DEF FailsHonestly
  <2>1. CASE d = c
    <3>1. pc'[c] = Leave(c)
      BY <1>0, <1>1 DEF HandOver, TypeOK
    <3> QED BY <1>0, <1>1, <2>1, <3>1 DEF Leave, Leaving, FailsHonestly
  <2>2. CASE d = next
    BY <1>0, <1>1, <2>2, LimiterAssumption DEF FailsHonestly
  <2>3. CASE d \notin {c, next}
    BY <1>0, <1>1, <2>3 DEF FailsHonestly
  <2> QED BY <2>1, <2>2, <2>3
<1> QED BY <1>5, <1>6, <1>7, <1>8, <1>9, <1>10 DEF LimiterInv

LEMMA GiveBackInv ==
  ASSUME LimiterInv, NEW c \in Calls, GiveBack(c)
  PROVE  LimiterInv'
<1> DEFINE h == chain[c]
<1>0. TypeOK /\ SlotsCounted /\ QueueExact /\ NoIdleSlot /\ CounterBounded
      /\ FailsHonestly
  BY DEF LimiterInv
<1>1. /\ h \in Chains /\ pc[c] \in Leaving /\ queue[h] = <<>> /\ queue' = queue
      /\ chain' = chain /\ tried' = tried /\ waited' = waited
      /\ pc'[c] = Leave(c) /\ \A d \in Calls \ {c} : Same(d)
      /\ active' = [active EXCEPT ![h] = IF active[h] > 0 THEN active[h] - 1 ELSE 0]
  BY <1>0 DEF GiveBack, TypeOK, Same
<1>2. Leave(c) \in Ended /\ Leave(c) \notin Holding /\ Leave(c) # "queued"
  BY DEF Leave, Ended, Holding, Leaving
<1>3. Holders(h)' = Holders(h) \ {c} /\ c \in Holders(h)
  BY <1>1, <1>2 DEF Holders, Same, Holding
<1>4. \A g \in Chains \ {h} : Holders(g)' = Holders(g)
  BY <1>1, <1>2 DEF Holders, Same
<1>5. \A g \in Chains : Waiters(g)' = Waiters(g)
  BY <1>1, <1>2 DEF Waiters, Same, Leaving
<1>6. active[h] = Cardinality(Holders(h)) /\ active[h] \in Nat /\ active[h] > 0
  <2>1. Cardinality(Holders(h)) # 0
    BY <1>1, <1>3, HoldersFinite, FS_EmptySet
  <2> QED BY <1>0, <1>1, <2>1 DEF SlotsCounted, TypeOK
<1>7. TypeOK'
  <2>1. active' \in [Chains -> Nat] BY <1>0, <1>1, <1>6 DEF TypeOK
  <2>2. pc' \in [Calls -> Ended \cup {"queued"} \cup Holding]
    BY <1>0, <1>2 DEF TypeOK, GiveBack
  <2> QED BY <1>0, <1>1, <2>1, <2>2 DEF TypeOK
<1>8. SlotsCounted'
  <2>1. Cardinality(Holders(h)') = Cardinality(Holders(h)) - 1
    BY <1>1, <1>3, HoldersFinite, FS_RemoveElement
  <2> QED BY <1>0, <1>1, <1>4, <1>6, <2>1 DEF SlotsCounted, TypeOK
<1>9. QueueExact' BY <1>0, <1>1, <1>5 DEF QueueExact
<1>10. NoIdleSlot' BY <1>0, <1>1 DEF NoIdleSlot, TypeOK
<1>11. CounterBounded'
  BY <1>0, <1>1, <1>6, LimiterAssumption DEF CounterBounded, TypeOK
<1>12. FailsHonestly'
  BY <1>0, <1>1 DEF FailsHonestly, Leave, Leaving, Same
<1> QED BY <1>7, <1>8, <1>9, <1>10, <1>11, <1>12 DEF LimiterInv

LEMMA TickInv ==
  ASSUME LimiterInv, Tick \/ UNCHANGED vars
  PROVE  LimiterInv'
<1>0. TypeOK /\ SlotsCounted /\ QueueExact /\ NoIdleSlot /\ CounterBounded
      /\ FailsHonestly
  BY DEF LimiterInv
<1>1. /\ active' = active /\ queue' = queue /\ pc' = pc /\ chain' = chain
      /\ tried' = tried
  BY DEF Tick, vars
<1>2. waited' \in [Calls -> 0..QueueTtl]
  <2>1. CASE Tick
    <3>1. \A d \in Calls : waited[d] < QueueTtl => waited[d] + 1 \in 0..QueueTtl
      BY <1>0, LimiterAssumption DEF TypeOK
    <3> QED BY <1>0, <2>1, <3>1 DEF Tick, TypeOK
  <2>2. CASE UNCHANGED vars BY <1>0, <2>2 DEF vars, TypeOK
  <2> QED BY <2>1, <2>2
<1>3. TypeOK' BY <1>0, <1>1, <1>2 DEF TypeOK
<1>4. SlotsCounted' /\ QueueExact'
  BY <1>0, <1>1 DEF SlotsCounted, QueueExact, Holders, Waiters
<1>5. NoIdleSlot' /\ CounterBounded' /\ FailsHonestly'
  BY <1>0, <1>1 DEF NoIdleSlot, CounterBounded, FailsHonestly
<1> QED BY <1>3, <1>4, <1>5 DEF LimiterInv

LEMMA NextInv == LimiterInv /\ [Next]_vars => LimiterInv'
BY TakeSlotInv, EnqueueInv, QueueTimeoutInv, UpstreamInv, HandOverInv, GiveBackInv,
   TickInv
DEF Next, Acquire, Release

\* The inductive invariant of the upstream limiter holds in every reachable
\* state of executeRpcCall.
THEOREM Invariance == Spec => []LimiterInv
BY InitInv, NextInv, PTL DEF Spec

\* The limiter's variables keep their types.
THEOREM TypeCorrect == Spec => []TypeOK
<1>1. LimiterInv => TypeOK BY DEF LimiterInv
<1> QED BY Invariance, <1>1, PTL

\* No slot leaks: the counter is the number of calls that hold a slot.
THEOREM NoSlotLeaks == Spec => []SlotsCounted
<1>1. LimiterInv => SlotsCounted BY DEF LimiterInv
<1> QED BY Invariance, <1>1, PTL

\* Never more than MAX_RPC_CONCURRENCY upstream calls of a chain at a time.
THEOREM CapHolds == Spec => []CapRespected
<1>1. LimiterInv => CapRespected
  BY DEF LimiterInv, SlotsCounted, CounterBounded, CapRespected
<1> QED BY Invariance, <1>1, PTL

\* The queue holds exactly the waiting calls, each once, while their timers run.
THEOREM QueueIsExact == Spec => []QueueExact
<1>1. LimiterInv => QueueExact BY DEF LimiterInv
<1> QED BY Invariance, <1>1, PTL

\* Nobody waits for a slot that is free.
THEOREM NoneIdle == Spec => []NoIdleSlot
<1>1. LimiterInv => NoIdleSlot BY DEF LimiterInv
<1> QED BY Invariance, <1>1, PTL

\* A call fails for its upstream only after every endpoint was tried.
THEOREM AllEndpointsTried == Spec => []FailsHonestly
<1>1. LimiterInv => FailsHonestly BY DEF LimiterInv
<1> QED BY Invariance, <1>1, PTL

\* A call queues only when its own chain is at the cap, whatever other chains do.
THEOREM ChainsApart == Spec => ChainsIndependent
<1>1. ASSUME LimiterInv, [Next]_vars, NEW c \in Calls, pc[c] # "queued", pc'[c] = "queued"
      PROVE  Cardinality(Holders(chain'[c])) >= MaxRpc
  <2>0. TypeOK /\ SlotsCounted BY <1>1 DEF LimiterInv
  <2>1. ASSUME NEW d \in Calls, NEW h \in Chains, TakeSlot(d, h) PROVE FALSE
    BY <1>1, <2>0, <2>1 DEF TakeSlot, TypeOK
  <2>2. ASSUME NEW d \in Calls, HandOver(d) PROVE FALSE
    BY <1>1, <2>2, HandOverFacts DEF Ended
  <2>3. ASSUME NEW d \in Calls, NEW h \in Chains, Enqueue(d, h)
        PROVE  Cardinality(Holders(chain'[c])) >= MaxRpc
    <3>1. c = d BY <1>1, <2>0, <2>3 DEF Enqueue, TypeOK
    <3>2. chain'[c] = h BY <2>0, <2>3, <3>1 DEF Enqueue, TypeOK
    <3>3. active[h] >= MaxRpc BY <2>3 DEF Enqueue
    <3> QED BY <2>0, <3>2, <3>3 DEF SlotsCounted
  <2>4. ASSUME NEW d \in Calls, QueueTimeout(d) PROVE FALSE
    BY <1>1, <2>0, <2>4 DEF QueueTimeout, TypeOK
  <2>5. ASSUME NEW d \in Calls, Upstream(d) PROVE FALSE
    BY <1>1, <2>0, <2>5 DEF Upstream, EndpointAnswers, EndpointFails, TypeOK
  <2>6. ASSUME NEW d \in Calls, GiveBack(d) PROVE FALSE
    BY <1>1, <2>0, <2>6 DEF GiveBack, Leave, TypeOK
  <2>7. ~ (Tick \/ UNCHANGED vars) BY <1>1 DEF Tick, vars
  <2> QED BY <1>1, <2>1, <2>2, <2>3, <2>4, <2>5, <2>6, <2>7
          DEF Next, Acquire, Release
<1>2. LimiterInv /\ [Next]_vars =>
        [\A c \in Calls : pc[c] # "queued" /\ pc'[c] = "queued" =>
           Cardinality(Holders(chain'[c])) >= MaxRpc]_vars
  BY <1>1
<1> QED BY Invariance, <1>2, PTL DEF Spec, ChainsIndependent

\* Slots are handed out in order of arrival: the head of the queue is served
\* first, and a newcomer gets a slot only when nobody waits.
THEOREM ServedInOrder == Spec => Fifo
<1> DEFINE Served(c) == pc[c] \notin Holding /\ pc'[c] = "calling" =>
                          IF pc[c] = "queued" THEN Head(queue[chain[c]]) = c
                                              ELSE queue[chain'[c]] = <<>>
<1>1. ASSUME LimiterInv, [Next]_vars, NEW c \in Calls PROVE Served(c)
  <2>0. TypeOK /\ NoIdleSlot /\ CounterBounded BY <1>1 DEF LimiterInv
  <2>1. ASSUME NEW d \in Calls, NEW h \in Chains, TakeSlot(d, h) PROVE Served(c)
    <3>1. CASE c = d
      <4>1. chain'[c] = h /\ pc[c] # "queued"
        BY <2>0, <2>1, <3>1 DEF TakeSlot, TypeOK, Ended
      <4>2. queue[h] = <<>>
        BY <2>0, <2>1, LimiterAssumption DEF TakeSlot, NoIdleSlot, TypeOK
      <4> QED BY <4>1, <4>2
    <3>2. CASE c # d
      <4>1. pc'[c] = pc[c] BY <2>0, <2>1, <3>2 DEF TakeSlot, TypeOK
      <4> QED BY <4>1 DEF Holding
    <3> QED BY <3>1, <3>2
  <2>2. ASSUME NEW d \in Calls, HandOver(d) PROVE Served(c)
    <3>1. /\ pc[Head(queue[chain[d]])] = "queued"
          /\ chain[Head(queue[chain[d]])] = chain[d]
          /\ pc'[d] \in Ended
          /\ \A e \in Calls \ {d, Head(queue[chain[d]])} : pc'[e] = pc[e]
      BY <1>1, <2>2, HandOverFacts
    <3>2. CASE c = Head(queue[chain[d]]) BY <3>1, <3>2
    <3>3. CASE c = d BY <3>1, <3>3 DEF Ended
    <3>4. CASE c \notin {d, Head(queue[chain[d]])} BY <3>1, <3>4 DEF Holding
    <3> QED BY <3>2, <3>3, <3>4
  <2>3. ASSUME NEW d \in Calls, NEW h \in Chains, Enqueue(d, h) PROVE Served(c)
    BY <2>0, <2>3 DEF Enqueue, TypeOK, Holding
  <2>4. ASSUME NEW d \in Calls, QueueTimeout(d) PROVE Served(c)
    BY <2>0, <2>4 DEF QueueTimeout, TypeOK, Holding
  <2>5. ASSUME NEW d \in Calls, Upstream(d) PROVE Served(c)
    BY <2>0, <2>5 DEF Upstream, EndpointAnswers, EndpointFails, TypeOK, Holding
  <2>6. ASSUME NEW d \in Calls, GiveBack(d) PROVE Served(c)
    BY <2>0, <2>6 DEF GiveBack, Leave, TypeOK, Holding
  <2>7. CASE Tick \/ UNCHANGED vars
    BY <2>7 DEF Tick, vars, Holding
  <2> QED BY <1>1, <2>1, <2>2, <2>3, <2>4, <2>5, <2>6, <2>7
          DEF Next, Acquire, Release
<1>2. LimiterInv /\ [Next]_vars =>
        [\A c \in Calls : pc[c] \notin Holding /\ pc'[c] = "calling" =>
           IF pc[c] = "queued" THEN Head(queue[chain[c]]) = c
                               ELSE queue[chain'[c]] = <<>>]_vars
  BY <1>1
<1> QED BY Invariance, <1>2, PTL DEF Spec, Fifo

-----------------------------------------------------------------------------
\* A call that holds no slot of its own chain is free in the pool.
LEMMA FreeInPool ==
  ASSUME NEW c \in Calls, pc[c] \notin Holding
  PROVE  Pool!Free(c)
BY DEF Pool!Free, Holders

\* Every step of the limiter takes, gives or passes one slot of the pool, or
\* leaves the pool alone.
LEMMA PoolStep == LimiterInv /\ [Next]_vars => [Pool!Next]_[h \in Chains |-> Holders(h)]
<1> DEFINE held == [h \in Chains |-> Holders(h)]
<1> SUFFICES ASSUME LimiterInv, [Next]_vars PROVE Pool!Next \/ held' = held
  OBVIOUS
<1>0. TypeOK /\ SlotsCounted BY DEF LimiterInv
<1>1. held' = [h \in Chains |-> Holders(h)'] OBVIOUS
<1>2. ASSUME NEW c \in Calls, NEW h \in Chains, TakeSlot(c, h) PROVE Pool!Next
  <2>1. /\ pc[c] \in Ended /\ pc'[c] = "calling" /\ chain'[c] = h
        /\ \A d \in Calls \ {c} : Same(d)
    BY <1>0, <1>2 DEF TakeSlot, TypeOK, Same
  <2>2. Pool!Free(c) BY <2>1, FreeInPool DEF Ended, Holding, Leaving
  <2>3. Holders(h)' = Holders(h) \cup {c}
    BY <2>1 DEF Holders, Same, Holding, Leaving, Ended
  <2>4. \A g \in Chains \ {h} : Holders(g)' = Holders(g)
    BY <2>1 DEF Holders, Same, Holding, Leaving, Ended
  <2>5. held' = [held EXCEPT ![h] = held[h] \cup {c}] BY <2>3, <2>4
  <2>6. Pool!Cardinality(held[h]) < MaxRpc
    <3>1. Cardinality(held[h]) < MaxRpc BY <1>0, <1>2 DEF TakeSlot, SlotsCounted
    <3>2. Pool!Cardinality(held[h]) = Cardinality(held[h])
      BY Zenon DEF Pool!Cardinality, Cardinality
    <3> QED BY <3>1, <3>2
  <2> QED BY <2>2, <2>5, <2>6 DEF Pool!Next, Pool!Take
<1>3. ASSUME NEW c \in Calls, HandOver(c) PROVE Pool!Next
  <2>1. PICK h \in Chains, next \in Calls :
        /\ h = chain[c] /\ next = Head(queue[h])
        /\ c \in Holders(h) /\ pc[next] = "queued"
        /\ Holders(h)' = (Holders(h) \ {c}) \cup {next}
        /\ \A g \in Chains \ {h} : Holders(g)' = Holders(g)
    BY <1>3, HandOverFacts
  <2>2. Pool!Free(next) BY <2>1, FreeInPool DEF Holding, Leaving
  <2>3. held' = [held EXCEPT ![h] = (held[h] \ {c}) \cup {next}] BY <2>1
  <2>4. Pool!Pass(c, next, h) BY <2>1, <2>2, <2>3 DEF Pool!Pass
  <2> QED BY <2>4 DEF Pool!Next
<1>4. ASSUME NEW c \in Calls, GiveBack(c) PROVE Pool!Next
  <2>1. PICK h \in Chains :
        /\ h = chain[c] /\ pc[c] \in Leaving /\ chain' = chain
        /\ pc'[c] \notin Holding /\ \A d \in Calls \ {c} : Same(d)
    BY <1>0, <1>4 DEF GiveBack, TypeOK, Same, Leave, Leaving, Holding
  <2>2. c \in Holders(h) /\ Holders(h)' = Holders(h) \ {c}
    BY <2>1 DEF Holders, Same, Holding
  <2>3. \A g \in Chains \ {h} : Holders(g)' = Holders(g)
    BY <2>1 DEF Holders, Same
  <2>4. held' = [held EXCEPT ![h] = held[h] \ {c}] BY <2>2, <2>3
  <2> QED BY <2>1, <2>2, <2>4 DEF Pool!Next, Pool!Give
<1>5. ASSUME NEW c \in Calls, NEW h \in Chains, Enqueue(c, h) PROVE held' = held
  <2>1. /\ pc[c] \notin Holding /\ pc'[c] \notin Holding
        /\ \A d \in Calls \ {c} : Same(d)
    BY <1>0, <1>5 DEF Enqueue, TypeOK, Same, Ended, Holding, Leaving
  <2> QED BY <2>1 DEF Holders, Same
<1>6. ASSUME NEW c \in Calls, QueueTimeout(c) PROVE held' = held
  <2>1. /\ pc[c] \notin Holding /\ pc'[c] \notin Holding
        /\ \A d \in Calls \ {c} : Same(d)
    BY <1>0, <1>6 DEF QueueTimeout, TypeOK, Same, Holding, Leaving
  <2> QED BY <2>1 DEF Holders, Same
<1>7. ASSUME NEW c \in Calls, Upstream(c) PROVE held' = held
  <2>1. /\ pc[c] \in Holding /\ pc'[c] \in Holding /\ chain' = chain
        /\ \A d \in Calls \ {c} : Same(d)
    BY <1>0, <1>7
    DEF Upstream, EndpointAnswers, EndpointFails, TypeOK, Same, Holding, Leaving
  <2> QED BY <2>1 DEF Holders, Same
<1>8. CASE Tick \/ UNCHANGED vars BY <1>8 DEF Tick, vars, Holders
<1> QED BY <1>2, <1>3, <1>4, <1>5, <1>6, <1>7, <1>8 DEF Next, Acquire, Release

\* The limiter implements the pool of slots: however queueing, hand-over and
\* queue timers interleave, a chain's slots are taken, given back and passed on
\* one at a time, within the cap, to calls that hold no other slot.
THEOREM ImplementsPool == Spec => PoolSpec
<1>1. Init => Pool!Init
  BY DEF Init, Pool!Init, Holders, Holding, Leaving
<1> QED BY <1>1, Invariance, PoolStep, PTL DEF Spec, PoolSpec, Pool!Spec
=============================================================================
