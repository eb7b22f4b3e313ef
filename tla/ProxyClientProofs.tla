-------------------------- MODULE ProxyClientProofs --------------------------
(***************************************************************************)
(* Theorems about ProxyClient, for every set of actions and hashes, every  *)
(* retry policy, and every timeout of at most half PARAM_TTL_MS: first the *)
(* exchange with the ParamStore object, then the retries and the metrics   *)
(* of an action.                                                           *)
(***************************************************************************)
EXTENDS ProxyClient, SetInduction, TLAPS

USE DEF Open, Wire, Proxied, Ended

\* What a step of one action leaves alone of another one.
Same(d) == /\ pc'[d] = pc[d] /\ hash'[d] = hash[d] /\ signal'[d] = signal[d]
           /\ reason'[d] = reason[d] /\ saved'[d] = saved[d]
           /\ done'[d] = done[d]

MappingStep == mapping' = mapping \/ \E h \in Hashes : Put(h)

LEMMA InitInv == Init => ExchangeInv
BY ClientAssumption, ParamTtlAssumption
DEF Init, ExchangeInv, ExchangeTypeOK, ParamStoreInit, ParamStoreTypeOK, Gone, Reasons,
    SavedIsYoung, StoredIsFound

LEMMA MappingTyped ==
  ASSUME ExchangeInv, MappingStep
  PROVE  ParamStoreTypeOK'
<1>1. CASE mapping' = mapping
  BY <1>1 DEF ExchangeInv, ExchangeTypeOK, ParamStoreTypeOK
<1>2. ASSUME NEW h \in Hashes, Put(h) PROVE ParamStoreTypeOK'
  <2>1. [there |-> TRUE, age |-> 0] \in [there : BOOLEAN, age : 0..ParamTtl]
    BY ParamTtlAssumption
  <2> QED BY <1>2, <2>1 DEF ExchangeInv, ExchangeTypeOK, ParamStoreTypeOK, Put
<1> QED BY <1>1, <1>2 DEF MappingStep

\* SavedIsYoung for one action: a row that it stored cannot expire under the
\* request that depends on it.
Young(c) ==
  signal[c] > 0 =>
    /\ pc[c] = "storing" /\ done[c] = "stored" =>
         mapping[hash[c]].there /\ mapping[hash[c]].age + signal[c] <= Timeout
    /\ pc[c] = "reprobing" /\ saved[c] =>
         /\ mapping[hash[c]].there /\ mapping[hash[c]].age + signal[c] < 2 * Timeout
         /\ done[c] # "missed"

LEMMA YoungAll == SavedIsYoung <=> \A c \in Calls : Young(c)
BY DEF SavedIsYoung, Young

LEMMA RowTyped ==
  ASSUME ExchangeInv, NEW c \in Calls
  PROVE  /\ hash[c] \in Hashes /\ signal[c] \in 0..Timeout
         /\ mapping[hash[c]].age \in 0..ParamTtl
<1>1. mapping[hash[c]] \in [there : BOOLEAN, age : 0..ParamTtl]
  BY DEF ExchangeInv, ExchangeTypeOK, ParamStoreTypeOK
<1> QED BY <1>1, ParamTtlAssumption DEF Gone, ExchangeInv, ExchangeTypeOK

\* The row that such a request depends on is one that a lookup sees.
LEMMA YoungKnown ==
  ASSUME ExchangeInv, NEW c \in Calls, signal[c] > 0,
         \/ pc[c] = "storing" /\ done[c] = "stored"
         \/ pc[c] = "reprobing" /\ saved[c]
  PROVE  Known(hash[c])
<1>1. Young(c) BY YoungAll DEF ExchangeInv
<1>2. /\ signal[c] \in 0..Timeout /\ mapping[hash[c]].age \in 0..ParamTtl
      /\ mapping[hash[c]].there
      /\ \/ mapping[hash[c]].age + signal[c] <= Timeout
         \/ mapping[hash[c]].age + signal[c] < 2 * Timeout
  BY <1>1, RowTyped DEF Young
<1>3. mapping[hash[c]].age < ParamTtl BY <1>2, ClientAssumption, ParamTtlAssumption
<1> QED BY <1>2, <1>3 DEF Known

\* A put only makes rows younger.
LEMMA YoungKept ==
  ASSUME ExchangeInv, MappingStep, NEW d \in Calls, Same(d)
  PROVE  Young(d)'
<1>1. Young(d) BY YoungAll DEF ExchangeInv
<1>2. /\ hash[d] \in Hashes /\ signal[d] \in 0..Timeout
      /\ mapping \in [Hashes -> [there : BOOLEAN, age : 0..ParamTtl]]
  BY RowTyped DEF ExchangeInv, ExchangeTypeOK, ParamStoreTypeOK
<1>3. ASSUME mapping'[hash[d]] = mapping[hash[d]] PROVE Young(d)'
  BY <1>1, <1>3 DEF Young, Same
<1>4. ASSUME Put(hash[d]) PROVE Young(d)'
  <2>1. /\ mapping'[hash[d]].there /\ mapping'[hash[d]].age = 0
        /\ Timeout \in Nat \ {0}
    BY <1>2, <1>4, ClientAssumption DEF Put
  <2>2. 0 + signal[d] <= Timeout /\ 0 + signal[d] < 2 * Timeout BY <1>2, <2>1
  <2> QED BY <1>1, <2>1, <2>2 DEF Young, Same
<1>5. ASSUME NEW h \in Hashes, Put(h), h # hash[d] PROVE mapping'[hash[d]] = mapping[hash[d]]
  BY <1>2, <1>5 DEF Put
<1> QED BY <1>3, <1>4, <1>5 DEF MappingStep

\* A step of one action keeps the invariant when it does so for that action.
LEMMA CallStep ==
  ASSUME ExchangeInv, MappingStep, NEW c \in Calls,
         pc' \in [Calls -> Proxied \cup Ended \cup {"direct"}],
         hash' \in [Calls -> Hashes], signal' \in [Calls -> 0..Timeout],
         reason' \in [Calls -> Reasons], saved' \in [Calls -> BOOLEAN],
         done' \in [Calls -> {"no", "stored", "missed"}],
         \A d \in Calls \ {c} : Same(d),
         pc'[c] \in Proxied => reason'[c] = "none",
         reason'[c] = "unknownHash" => ~ saved'[c],
         Young(c)'
  PROVE  ExchangeInv'
<1>1. ExchangeTypeOK' BY MappingTyped DEF ExchangeTypeOK
<1>2. \A d \in Calls : pc'[d] \in Proxied => reason'[d] = "none"
  BY DEF ExchangeInv, Same
<1>3. StoredIsFound' BY DEF ExchangeInv, StoredIsFound, Same
<1>4. \A d \in Calls : Young(d)' BY YoungKept
<1>5. SavedIsYoung' BY <1>4 DEF SavedIsYoung, Young
<1> QED BY <1>1, <1>2, <1>3, <1>5 DEF ExchangeInv

-----------------------------------------------------------------------------
\* The ends of an action and the retry loop, as CallStep wants them.
Closed(c) ==
  /\ pc' \in [Calls -> Proxied \cup Ended \cup {"direct"}]
  /\ signal' \in [Calls -> 0..Timeout]
  /\ reason' \in [Calls -> Reasons]
  /\ \A d \in Calls \ {c} : pc'[d] = pc[d] /\ signal'[d] = signal[d]
                            /\ reason'[d] = reason[d]
  /\ pc'[c] \notin {"storing", "reprobing"}
  /\ pc'[c] \in Proxied => reason'[c] = "none"

LEMMA EndClosed ==
  ASSUME ExchangeInv, NEW c \in Calls, NEW why \in Reasons, NEW n, NEW e,
         pc[c] \in Proxied, Return(c) \/ Caught(c, why, n, e)
  PROVE  Closed(c) /\ reason'[c] \in {"none", why}
<1>1. ExchangeTypeOK /\ reason[c] = "none" BY DEF ExchangeInv
<1>2. CASE Return(c)
  BY <1>1, <1>2, ClientAssumption DEF Return, Drop, Closed, ExchangeTypeOK
<1>3. CASE Caught(c, why, n, e)
  BY <1>1, <1>3, ClientAssumption DEF Caught, Drop, Closed, ExchangeTypeOK
<1> QED BY <1>2, <1>3

LEMMA RetryClosed ==
  ASSUME ExchangeInv, NEW c \in Calls, NEW why \in Reasons,
         pc[c] \in Proxied, Retry(c, why)
  PROVE  Closed(c) /\ reason'[c] \in {"none", why}
<1>1. ExchangeTypeOK /\ reason[c] = "none" BY DEF ExchangeInv
<1>2. CASE tries[c] < Attempts
  BY <1>1, <1>2 DEF Retry, Closed, ExchangeTypeOK
<1>3. CASE ~ (tries[c] < Attempts)
  BY <1>3, EndClosed DEF Retry, Throw
<1> QED BY <1>2, <1>3

\* Any closed step that does not blame the store.
LEMMA ClosedInv ==
  ASSUME ExchangeInv, MappingStep, NEW c \in Calls, Closed(c), hash' = hash, saved' = saved,
         done' = done \/ done' = [done EXCEPT ![c] = "no"],
         reason'[c] = "unknownHash" => ~ saved[c]
  PROVE  ExchangeInv'
<1>1. ExchangeTypeOK BY DEF ExchangeInv
<1>2. Young(c)' BY DEF Closed, Young
<1>3. /\ done' \in [Calls -> {"no", "stored", "missed"}]
      /\ \A d \in Calls \ {c} : done'[d] = done[d]
  BY <1>1 DEF ExchangeTypeOK
<1> QED BY <1>1, <1>2, <1>3, CallStep DEF Closed, Same, ExchangeTypeOK

LEMMA BeginInv ==
  ASSUME ExchangeInv, NEW c \in Calls, NEW w, NEW h \in Hashes, NEW f, Begin(c, w, h, f)
  PROVE  ExchangeInv'
<1>1. ExchangeTypeOK BY DEF ExchangeInv
<1>2. MappingStep BY DEF Begin, MappingStep
<1>3. /\ pc' \in [Calls -> Proxied \cup Ended \cup {"direct"}]
      /\ hash' \in [Calls -> Hashes] /\ signal' \in [Calls -> 0..Timeout]
      /\ reason' \in [Calls -> Reasons] /\ saved' \in [Calls -> BOOLEAN]
      /\ done' \in [Calls -> {"no", "stored", "missed"}]
  BY <1>1, ClientAssumption DEF Begin, ExchangeTypeOK, Reasons
<1>4. pc'[c] = "ready" /\ reason'[c] = "none" /\ \A d \in Calls \ {c} : Same(d)
  BY <1>1 DEF Begin, ExchangeTypeOK, Same
<1>5. Young(c)' BY <1>4 DEF Young
<1> QED BY <1>2, <1>3, <1>4, <1>5, CallStep

\* The steps that send a request or wait for the next one.
LEMMA LocalInv ==
  ASSUME ExchangeInv, NEW c \in Calls, Local(c)
  PROVE  ExchangeInv'
<1>1. ExchangeTypeOK BY DEF ExchangeInv
<1>2. /\ mapping' = mapping /\ hash' = hash /\ saved' = saved /\ reason' = reason
      /\ done' = done /\ pc[c] \in Proxied
  BY DEF Local, AttemptAborted, Attempt, Wake, control
<1>3. /\ pc' \in [Calls -> Proxied \cup Ended \cup {"direct"}]
      /\ signal' \in [Calls -> 0..Timeout] /\ pc'[c] \notin {"storing", "reprobing"}
      /\ \A d \in Calls \ {c} : pc'[d] = pc[d] /\ signal'[d] = signal[d]
  BY <1>1, ClientAssumption DEF Local, AttemptAborted, Attempt, Wake, Post, ExchangeTypeOK
<1>4. Closed(c) BY <1>1, <1>2, <1>3 DEF Closed, ExchangeInv, ExchangeTypeOK
<1>5. reason'[c] # "unknownHash" BY <1>2 DEF ExchangeInv
<1> QED BY <1>2, <1>4, <1>5, ClosedInv DEF MappingStep

\* Every answer but those that the exchange with the store goes on from.
LEMMA EndingInv ==
  ASSUME ExchangeInv, NEW c \in Calls,
         \/ Intercept(c) \/ NetworkFails(c) \/ Aborts(c) \/ StatusFails(c) \/ Body(c)
         \/ BodyFails(c) \/ LookupRefused(c) \/ StoreRefused(c)
  PROVE  ExchangeInv'
<1>1. ExchangeTypeOK BY DEF ExchangeInv
<1>2. /\ hash' = hash /\ saved' = saved /\ pc[c] \in Proxied /\ mapping' = mapping
      /\ done' = done \/ done' = [done EXCEPT ![c] = "no"]
  BY DEF Intercept, NetworkFails, Aborts, StatusFails, Body, BodyFails, LookupRefused,
         StoreRefused, Answered, control
<1>3. MappingStep BY <1>2 DEF MappingStep
<1>4. PICK why \in {"network", "timeout", "status", "stalled", "other"}, n \in {0, 1},
           e \in {0, 1} : Return(c) \/ Caught(c, why, n, e) \/ Retry(c, why)
  BY DEF Intercept, NetworkFails, Aborts, StatusFails, Body, BodyFails, LookupRefused,
         StoreRefused, Throw, Undecodable
<1>5. Closed(c) /\ reason'[c] # "unknownHash"
  BY <1>2, <1>4, EndClosed, RetryClosed DEF Reasons
<1> QED BY <1>2, <1>3, <1>5, ClosedInv

\* The lookup after an acknowledged store has not missed.
LEMMA StillUnknownInv ==
  ASSUME ExchangeInv, NEW c \in Calls, StillUnknown(c)
  PROVE  ExchangeInv'
<1>1. /\ hash' = hash /\ saved' = saved /\ mapping' = mapping /\ pc[c] = "reprobing"
      /\ signal[c] > 0 /\ done[c] = "missed" /\ done' = [done EXCEPT ![c] = "no"]
  BY DEF StillUnknown, Answered, control
<1>2. Closed(c)
  BY <1>1, EndClosed DEF StillUnknown, Throw, Reasons
<1>3. ~ saved[c] BY <1>1, YoungAll DEF ExchangeInv, Young
<1> QED BY <1>1, <1>2, <1>3, ClosedInv DEF MappingStep

\* What the object does while the request is on its way: the row is new, and a
\* lookup whose answer will still be read does not miss it.
LEMMA ObjectInv ==
  ASSUME ExchangeInv, NEW c \in Calls, StoreRow(c) \/ Miss(c)
  PROVE  ExchangeInv'
<1>1. ExchangeTypeOK BY DEF ExchangeInv
<1>2. /\ UNCHANGED <<pc, hash, signal, reason, saved>>
      /\ done' = [done EXCEPT ![c] = done'[c]] /\ done'[c] \in {"stored", "missed"}
  BY <1>1 DEF StoreRow, Miss, client, control, ExchangeTypeOK
<1>3. hash[c] \in Hashes /\ signal[c] \in 0..Timeout BY RowTyped
<1>4. MappingStep BY <1>3 DEF StoreRow, Miss, MappingStep
<1>5. done' \in [Calls -> {"no", "stored", "missed"}] /\ \A d \in Calls \ {c} : Same(d)
  BY <1>1, <1>2 DEF ExchangeTypeOK, Same
<1>6. Young(c)'
  <2>1. CASE StoreRow(c)
    <3>1. mapping'[hash[c]].there /\ mapping'[hash[c]].age = 0 /\ pc[c] = "storing"
      BY <1>1, <1>3, <2>1 DEF StoreRow, Put, ExchangeTypeOK, ParamStoreTypeOK
    <3>2. 0 + signal[c] <= Timeout BY <1>3, ClientAssumption
    <3> QED BY <1>2, <3>1, <3>2 DEF Young
  <2>2. CASE Miss(c)
    <3>1. ~ Known(hash[c]) /\ pc[c] \in {"probing", "reprobing"} BY <2>2 DEF Miss
    <3> QED BY <1>2, <3>1, YoungKnown DEF Young
  <2> QED BY <2>1, <2>2
<1>7. /\ pc[c] \in Proxied => reason[c] = "none"
      /\ reason[c] = "unknownHash" => ~ saved[c]
  BY DEF ExchangeInv, StoredIsFound
<1> QED BY <1>1, <1>2, <1>4, <1>5, <1>6, <1>7, CallStep DEF ExchangeTypeOK

LEMMA LateStoreInv ==
  ASSUME ExchangeInv, NEW h \in Hashes, LateStore(h)
  PROVE  ExchangeInv'
<1>1. MappingStep /\ UNCHANGED <<pc, hash, signal, reason, saved, done>>
  BY DEF LateStore, MappingStep, client, control
<1>2. \A d \in Calls : Young(d)' BY <1>1, YoungKept DEF Same
<1>3. SavedIsYoung' BY <1>2 DEF SavedIsYoung, Young
<1>4. ExchangeTypeOK' BY <1>1, MappingTyped DEF ExchangeInv, ExchangeTypeOK
<1> QED BY <1>1, <1>3, <1>4 DEF ExchangeInv, StoredIsFound

LEMMA ExchangeGoesOn ==
  ASSUME ExchangeInv, NEW c \in Calls,
         Headers(c) \/ UnknownHash(c) \/ StoreOk(c) \/ StoreStatusFails(c) \/ Direct(c)
  PROVE  ExchangeInv'
<1>1. ExchangeTypeOK BY DEF ExchangeInv
<1>2. /\ hash' = hash /\ reason' = reason /\ \A d \in Calls \ {c} : saved'[d] = saved[d]
      /\ saved' \in [Calls -> BOOLEAN]
  BY <1>1 DEF Headers, UnknownHash, StoreOk, StoreStatusFails, Direct, Answered, control,
              ExchangeTypeOK
<1>3. /\ pc' \in [Calls -> Proxied \cup Ended \cup {"direct"}]
      /\ signal' \in [Calls -> 0..Timeout]
      /\ \A d \in Calls \ {c} : pc'[d] = pc[d] /\ signal'[d] = signal[d]
  BY <1>1, ClientAssumption
  DEF Headers, UnknownHash, StoreOk, StoreStatusFails, Direct, Post, ExchangeTypeOK
<1>4. MappingStep
  BY <1>1 DEF Headers, UnknownHash, StoreOk, StoreStatusFails, Direct, MappingStep,
              ExchangeTypeOK
<1>5. pc'[c] \in Proxied => reason'[c] = "none"
  BY <1>1, <1>2 DEF Headers, UnknownHash, StoreOk, StoreStatusFails, Direct, ExchangeInv,
                    ExchangeTypeOK
<1>6. reason'[c] = "unknownHash" => ~ saved'[c]
  <2>1. CASE Direct(c) BY <1>2, <2>1 DEF Direct, ExchangeInv, StoredIsFound
  <2>2. CASE ~ Direct(c)
    <3>1. pc[c] \in Proxied
      BY <2>2 DEF Headers, UnknownHash, StoreOk, StoreStatusFails
    <3> QED BY <1>2, <3>1 DEF ExchangeInv
  <2> QED BY <2>1, <2>2
<1>7. /\ done' \in [Calls -> {"no", "stored", "missed"}]
      /\ \A d \in Calls \ {c} : done'[d] = done[d]
      /\ pc'[c] \in Open => done'[c] = "no"
  BY <1>1 DEF Headers, UnknownHash, StoreOk, StoreStatusFails, Direct, Answered, ExchangeTypeOK
<1>8. Young(c)'
  <2>1. CASE StoreOk(c)
    <3>1. /\ pc[c] = "storing" /\ done[c] = "stored" /\ signal[c] > 0 /\ mapping' = mapping
          /\ pc'[c] = "reprobing" /\ done'[c] = "no"
      BY <1>1, <2>1 DEF StoreOk, Post, Answered, ExchangeTypeOK
    <3>2. mapping[hash[c]].there /\ mapping[hash[c]].age + signal[c] <= Timeout
      BY <3>1, YoungAll DEF ExchangeInv, Young
    <3>3. /\ signal[c] \in 0..Timeout /\ signal'[c] \in 0..Timeout
          /\ mapping[hash[c]].age \in 0..ParamTtl
      BY <1>3, RowTyped
    <3>4. mapping[hash[c]].age + signal'[c] < 2 * Timeout
      BY <3>1, <3>2, <3>3, ClientAssumption, ParamTtlAssumption
    <3> QED BY <1>2, <3>1, <3>2, <3>4 DEF Young
  <2>2. CASE Headers(c) \/ UnknownHash(c) \/ Direct(c)
    <3>1. pc'[c] # "reprobing" /\ (pc'[c] = "storing" => done'[c] = "no")
      BY <1>1, <1>7, <2>2 DEF Headers, UnknownHash, Direct, Post, ExchangeTypeOK
    <3> QED BY <3>1 DEF Young
  <2>3. CASE StoreStatusFails(c)
    <3>1. pc'[c] = "reprobing" /\ ~ saved'[c]
      BY <1>1, <2>3 DEF StoreStatusFails, Post, ExchangeTypeOK
    <3> QED BY <3>1 DEF Young
  <2> QED BY <2>1, <2>2, <2>3
<1> QED BY <1>1, <1>2, <1>3, <1>4, <1>5, <1>6, <1>7, <1>8, CallStep DEF Same, ExchangeTypeOK

-----------------------------------------------------------------------------
\* The alarm deletes only what no lookup sees, and time takes from a signal what
\* it adds to the age of a row.
LEMMA AlarmInv == ASSUME ExchangeInv, Alarm PROVE ExchangeInv'
<1>1. /\ pc' = pc /\ hash' = hash /\ signal' = signal /\ reason' = reason /\ saved' = saved
      /\ done' = done
      /\ mapping' = [h \in Hashes |-> IF Known(h) THEN mapping[h] ELSE Gone]
  BY DEF Alarm, Sweep, client, control
<1>2. ExchangeTypeOK'
  <2>1. Gone \in [there : BOOLEAN, age : 0..ParamTtl]
    BY ParamTtlAssumption DEF Gone
  <2>2. ParamStoreTypeOK'
    BY <1>1, <2>1 DEF ExchangeInv, ExchangeTypeOK, ParamStoreTypeOK
  <2> QED BY <1>1, <2>2 DEF ExchangeInv, ExchangeTypeOK
<1>3. SavedIsYoung'
  <2>1. ASSUME NEW c \in Calls, signal[c] > 0,
               \/ pc[c] = "storing" /\ done[c] = "stored"
               \/ pc[c] = "reprobing" /\ saved[c]
        PROVE  mapping'[hash[c]] = mapping[hash[c]]
    BY <1>1, <2>1, YoungKnown, RowTyped
  <2> QED BY <1>1, <2>1 DEF SavedIsYoung, ExchangeInv
<1>4. StoredIsFound' /\ \A c \in Calls : pc'[c] \in Proxied => reason'[c] = "none"
  BY <1>1 DEF ExchangeInv, StoredIsFound
<1> QED BY <1>2, <1>3, <1>4 DEF ExchangeInv

LEMMA TickInv == ASSUME ExchangeInv, Tick PROVE ExchangeInv'
<1>1. /\ pc' = pc /\ hash' = hash /\ reason' = reason /\ saved' = saved /\ done' = done
      /\ signal' = [c \in Calls |-> IF pc[c] \in Proxied THEN Down(signal[c]) ELSE signal[c]]
      /\ mapping' = [h \in Hashes |-> IF Known(h) THEN [mapping[h] EXCEPT !.age = @ + 1]
                                                   ELSE mapping[h]]
  BY DEF Tick, AgeMappings, control
<1>2. \A h \in Hashes : mapping[h] \in [there : BOOLEAN, age : 0..ParamTtl]
  BY DEF ExchangeInv, ExchangeTypeOK, ParamStoreTypeOK
<1>3. ASSUME NEW h \in Hashes
      PROVE  /\ mapping'[h] \in [there : BOOLEAN, age : 0..ParamTtl]
             /\ mapping'[h].there = mapping[h].there
             /\ mapping'[h].age \in {mapping[h].age, mapping[h].age + 1}
             /\ mapping[h].age \in Nat
  <2>1. CASE Known(h)
    <3>1. /\ mapping[h] \in [there : BOOLEAN, age : 0..ParamTtl] /\ mapping[h].age < ParamTtl
      BY <1>2, <2>1 DEF Known, Gone
    <3>2. mapping'[h] = [mapping[h] EXCEPT !.age = mapping[h].age + 1]
      BY <1>1, <2>1
    <3>3. mapping[h].age + 1 \in 0..ParamTtl BY <3>1, ParamTtlAssumption
    <3> QED BY <3>1, <3>2, <3>3
  <2>2. CASE ~ Known(h)
    <3>1. mapping'[h] = mapping[h] BY <1>1, <2>2
    <3> QED BY <1>2, <3>1, ParamTtlAssumption DEF Gone
  <2> QED BY <2>1, <2>2
<1>4. \A c \in Calls : /\ signal[c] \in 0..Timeout /\ signal'[c] \in 0..Timeout
                       /\ pc[c] \in Proxied /\ signal[c] > 0 => signal'[c] = signal[c] - 1
                       /\ pc[c] \in Proxied /\ signal[c] = 0 => signal'[c] = 0
  BY <1>1, ClientAssumption DEF ExchangeInv, ExchangeTypeOK, Down
<1>5. ExchangeTypeOK'
  <2>1. ParamStoreTypeOK' BY <1>1, <1>3 DEF ParamStoreTypeOK
  <2>2. signal' \in [Calls -> 0..Timeout] BY <1>1, <1>4
  <2> QED BY <1>1, <2>1, <2>2 DEF ExchangeInv, ExchangeTypeOK
<1>6. SavedIsYoung'
  <2>1. ASSUME NEW c \in Calls, signal'[c] > 0, pc[c] \in {"storing", "reprobing"}
        PROVE  /\ signal[c] > 0
               /\ mapping'[hash[c]].there = mapping[hash[c]].there
               /\ mapping'[hash[c]].age + signal'[c] <= mapping[hash[c]].age + signal[c]
               /\ mapping'[hash[c]].age + signal'[c] \in Nat
               /\ mapping[hash[c]].age + signal[c] \in Nat
    <3>1. signal[c] \in Nat /\ signal[c] > 0 /\ signal'[c] = signal[c] - 1
      BY <1>4, <2>1, ClientAssumption
    <3>2. /\ mapping'[hash[c]].there = mapping[hash[c]].there
          /\ mapping'[hash[c]].age \in {mapping[hash[c]].age, mapping[hash[c]].age + 1}
          /\ mapping[hash[c]].age \in Nat
      BY <1>3, RowTyped
    <3> QED BY <3>1, <3>2
  <2> SUFFICES ASSUME NEW c \in Calls PROVE Young(c)'
    BY DEF SavedIsYoung, Young
  <2>2. Young(c) BY YoungAll DEF ExchangeInv
  <2> QED BY <1>1, <2>1, <2>2, ClientAssumption DEF Young
<1>7. StoredIsFound' /\ \A c \in Calls : pc'[c] \in Proxied => reason'[c] = "none"
  BY <1>1 DEF ExchangeInv, StoredIsFound
<1> QED BY <1>5, <1>6, <1>7 DEF ExchangeInv

LEMMA NextInv == ExchangeInv /\ [Next]_vars => ExchangeInv'
<1> SUFFICES ASSUME ExchangeInv, [Next]_vars PROVE ExchangeInv'
  OBVIOUS
<1>1. ASSUME NEW c \in Calls, CallNext(c) PROVE ExchangeInv'
  BY <1>1, BeginInv, LocalInv, EndingInv, StillUnknownInv, ExchangeGoesOn, ObjectInv
  DEF CallNext, Exchange
<1>2. CASE UNCHANGED vars
  BY <1>2 DEF vars, client, control, ExchangeInv, ExchangeTypeOK, ParamStoreTypeOK,
              SavedIsYoung, StoredIsFound
<1> QED BY <1>1, <1>2, LateStoreInv, AlarmInv, TickInv DEF Next

\* A store that was acknowledged is seen by the lookup that follows it, although
\* the acknowledgement may arrive a timeout after the row was written and the
\* lookup another timeout later, and whatever other actions, the alarm and the
\* other programs do in between.
THEOREM StoredHashIsFound == Spec => []StoredIsFound
<1>1. ExchangeInv => StoredIsFound BY DEF ExchangeInv
<1> QED BY InitInv, NextInv, <1>1, PTL DEF Spec

-----------------------------------------------------------------------------
(***************************************************************************)
(* What an action has done when it ends: the types that the exchange does  *)
(* not need, the retries and the metrics.                                  *)
(***************************************************************************)
LEMMA BackoffFacts ==
  /\ \A n \in Nat : Backoff[n] \in Nat
  /\ \A n, m \in Nat : n <= m => Backoff[n] <= Backoff[m]
<1> DEFINE step == [n \in Nat |-> [d \in Nat |-> 2 * d]]
<1>1. step \in [Nat -> [Nat -> Nat]] /\ Delay \in Nat BY ClientAssumption
<1> HIDE DEF step
<1>2. PICK f \in [Nat -> Nat] : f[0] = Delay /\ \A n \in Nat : f[n + 1] = 2 * f[n]
  <2>1. PICK f \in [Nat -> Nat] : Iterates(f, Delay, step) BY <1>1, NatRecursion
  <2>2. f[0] = Delay /\ \A n \in Nat : f[n + 1] = 2 * f[n] BY <2>1 DEF Iterates, step
  <2> QED BY <2>1, <2>2
<1>3. f = [n \in Nat |-> IF n = 0 THEN Delay ELSE 2 * f[n - 1]]
  <2>1. ASSUME NEW n \in Nat, n # 0 PROVE f[n] = 2 * f[n - 1]
    <3>1. n - 1 \in Nat /\ (n - 1) + 1 = n BY <2>1
    <3> QED BY <1>2, <3>1
  <2> QED BY <1>2, <2>1
<1>4. Backoff = [n \in Nat |-> IF n = 0 THEN Delay ELSE 2 * Backoff[n - 1]]
  BY <1>3, Zenon DEF Backoff
<1>5. ASSUME NEW n \in Nat PROVE Backoff[n + 1] = 2 * Backoff[n]
  <2>1. n + 1 \in Nat /\ n + 1 # 0 /\ (n + 1) - 1 = n OBVIOUS
  <2> QED BY <1>4, <2>1
<1>6. Backoff[0] = Delay BY <1>4
<1> DEFINE T == {n \in Nat : Backoff[n] \in Nat}
<1>7. Nat \subseteq T
  <2>1. 0 \in T BY <1>6, ClientAssumption
  <2>2. \A n \in Nat : n \in T => n + 1 \in T BY <1>5
  <2> HIDE DEF T
  <2> QED BY <2>1, <2>2, NatSetInduction
<1>8. ASSUME NEW n \in Nat, NEW m \in Nat, n <= m PROVE Backoff[n] <= Backoff[m]
  <2> DEFINE U == {k \in Nat : n <= k => Backoff[n] <= Backoff[k]}
  <2>1. 0 \in U
    <3> SUFFICES ASSUME n <= 0 PROVE Backoff[n] <= Backoff[0] OBVIOUS
    <3>1. n = 0 OBVIOUS
    <3> QED BY <1>7, <3>1
  <2>2. ASSUME NEW k \in Nat, k \in U PROVE k + 1 \in U
    <3>1. Backoff[k + 1] = 2 * Backoff[k] /\ Backoff[k] \in Nat /\ Backoff[n] \in Nat
      BY <1>5, <1>7
    <3>2. n = k + 1 \/ n <= k \/ ~ (n <= k + 1) OBVIOUS
    <3> QED BY <2>2, <3>1, <3>2
  <2> HIDE DEF U
  <2>3. Nat \subseteq U BY <2>1, <2>2, NatSetInduction
  <2> QED BY <1>8, <2>3 DEF U
<1> QED BY <1>7, <1>8

RecordType == [requests : 0..1, errors : 0..1, fallbacks : 0..1]

\* What holds of one action.  An action under way has recorded nothing, and can
\* still make every attempt that its retries leave it; one that failed for a
\* transient reason has made them all.
ActionOK(c) ==
  /\ way[c] \in {"plain", "cached"} /\ fallback[c] \in BOOLEAN
  /\ tries[c] \in 0..Attempts /\ sent[c] \in 0..tries[c]
  /\ pause[c] \in 0..Backoff[Attempts] /\ records[c] \in RecordType
  /\ pc[c] \in {"ready", "backoff"} => tries[c] < Attempts
  /\ pc[c] \in Open \cup {"backoff"} => tries[c] >= 1
  /\ pc[c] \in Proxied \cup {"idle"} => records[c] = NoRecord
  /\ pc[c] \in Failed /\ reason[c] \in Transient => tries[c] = Attempts
  /\ pc[c] = "result" => records[c] = [requests |-> 1, errors |-> 0, fallbacks |-> 0]
  /\ pc[c] \in Failed =>
       /\ records[c].fallbacks = IF pc[c] = "threw" THEN 0 ELSE 1
       /\ records[c].errors <= records[c].requests
       /\ tries[c] > 0 => records[c].requests = 1

Functions ==
  /\ way = [c \in Calls |-> way[c]] /\ fallback = [c \in Calls |-> fallback[c]]
  /\ tries = [c \in Calls |-> tries[c]] /\ sent = [c \in Calls |-> sent[c]]
  /\ pause = [c \in Calls |-> pause[c]] /\ records = [c \in Calls |-> records[c]]

ActionInv == ExchangeInv /\ Functions /\ \A c \in Calls : ActionOK(c)

\* A step of one action leaves the others alone.
Others(c) ==
  /\ Functions'
  /\ \A d \in Calls \ {c} :
       /\ pc'[d] = pc[d] /\ reason'[d] = reason[d]
       /\ way'[d] = way[d] /\ fallback'[d] = fallback[d] /\ tries'[d] = tries[d]
       /\ sent'[d] = sent[d] /\ pause'[d] = pause[d] /\ records'[d] = records[d]

LEMMA OneAction ==
  ASSUME ActionInv, ExchangeInv', NEW c \in Calls, Others(c), ActionOK(c)'
  PROVE  ActionInv'
<1>1. ASSUME NEW d \in Calls \ {c} PROVE ActionOK(d)'
  BY <1>1 DEF ActionInv, ActionOK, Others
<1> QED BY <1>1 DEF ActionInv, Others

\* The ends of an action and the retry loop.
LEMMA ReturnOK ==
  ASSUME ActionInv, NEW c \in Calls, pc[c] \in Proxied, Return(c),
         UNCHANGED <<control, tries, pause, sent>>
  PROVE  Others(c) /\ ActionOK(c)'
<1>1. Functions /\ ActionOK(c) /\ ExchangeTypeOK BY DEF ActionInv, ExchangeInv
<1>2. Others(c)
  BY <1>1 DEF Return, Drop, Others, Functions, control, ExchangeTypeOK
<1>3. pc'[c] = "result" /\ records'[c] = [records[c] EXCEPT !.requests = @ + 1]
  BY <1>1 DEF Return, Functions, ExchangeTypeOK
<1>4. records'[c] = [requests |-> 1, errors |-> 0, fallbacks |-> 0]
  BY <1>1, <1>3 DEF ActionOK, NoRecord
<1>5. ActionOK(c)'
  BY <1>1, <1>3, <1>4 DEF ActionOK, control, Failed, RecordType
<1> QED BY <1>2, <1>5

LEMMA CaughtOK ==
  ASSUME ActionInv, NEW c \in Calls, pc[c] \in Proxied, NEW why, NEW n \in {0, 1},
         NEW e \in {0, 1}, Caught(c, why, n, e), UNCHANGED <<control, tries, pause, sent>>,
         e <= n, n = 0 => tries[c] = 0, why \in Transient => tries[c] = Attempts
  PROVE  Others(c) /\ ActionOK(c)'
<1>1. Functions /\ ActionOK(c) /\ ExchangeTypeOK BY DEF ActionInv, ExchangeInv
<1>2. Others(c)
  BY <1>1 DEF Caught, Drop, Others, Functions, control, ExchangeTypeOK
<1>3. /\ pc'[c] = IF fallback[c] THEN "direct" ELSE "threw"
      /\ reason'[c] = why
      /\ records'[c] = [requests |-> records[c].requests + n, errors |-> records[c].errors + e,
                        fallbacks |-> IF fallback[c] THEN records[c].fallbacks + 1
                                                     ELSE records[c].fallbacks]
  BY <1>1 DEF Caught, Functions, ExchangeTypeOK
<1>4. records'[c] = [requests |-> n, errors |-> e, fallbacks |-> IF fallback[c] THEN 1 ELSE 0]
  BY <1>1, <1>3 DEF ActionOK, NoRecord
<1>5. ActionOK(c)'
  <2>1. tries' = tries /\ UNCHANGED <<way, fallback, pause, sent>> BY DEF control
  <2>2. tries[c] \in Nat BY <1>1, ClientAssumption DEF ActionOK
  <2>3. records'[c] \in RecordType BY <1>4 DEF RecordType
  <2> QED BY <1>1, <1>3, <1>4, <2>1, <2>2, <2>3 DEF ActionOK, Failed
<1> QED BY <1>2, <1>5

LEMMA RetryOK ==
  ASSUME ActionInv, NEW c \in Calls, pc[c] \in Open, NEW why, Retry(c, why),
         UNCHANGED <<control, tries, sent>>
  PROVE  Others(c) /\ ActionOK(c)'
<1>1. Functions /\ ActionOK(c) /\ ExchangeTypeOK BY DEF ActionInv, ExchangeInv
<1>2. tries[c] \in 1..Attempts BY <1>1, ClientAssumption DEF ActionOK
<1>3. CASE tries[c] < Attempts
  <2>1. pc'[c] = "backoff" /\ pause'[c] = Backoff[tries[c] - 1] /\ records' = records
    BY <1>1, <1>3 DEF Retry, Functions, ExchangeTypeOK
  <2>2. Backoff[tries[c] - 1] \in 0..Backoff[Attempts]
    <3>1. tries[c] - 1 \in Nat /\ Attempts \in Nat /\ tries[c] - 1 <= Attempts
      BY <1>2, ClientAssumption
    <3>2. Backoff[tries[c] - 1] \in Nat /\ Backoff[Attempts] \in Nat
          /\ Backoff[tries[c] - 1] <= Backoff[Attempts]
      BY <3>1, BackoffFacts
    <3> QED BY <3>2
  <2>3. Others(c)
    BY <1>1, <1>3 DEF Retry, Others, Functions, control, ExchangeTypeOK
  <2>4. ActionOK(c)'
    BY <1>1, <1>2, <1>3, <2>1, <2>2 DEF ActionOK, control, Failed
  <2> QED BY <2>3, <2>4
<1>4. CASE ~ tries[c] < Attempts
  <2>1. tries[c] = Attempts BY <1>2, <1>4, ClientAssumption
  <2>2. Caught(c, why, 1, 1) /\ UNCHANGED pause BY <1>4 DEF Retry, Throw
  <2> QED BY <2>1, <2>2, CaughtOK
<1> QED BY <1>3, <1>4

LEMMA BeginOK ==
  ASSUME ActionInv, NEW c \in Calls, NEW w \in {"plain", "cached"}, NEW h,
         NEW f \in BOOLEAN, Begin(c, w, h, f)
  PROVE  Others(c) /\ ActionOK(c)'
<1>1. Functions /\ ExchangeTypeOK BY DEF ActionInv, ExchangeInv
<1>2. Others(c) BY <1>1 DEF Begin, Others, Functions, ExchangeTypeOK
<1>3. /\ pc'[c] = "ready" /\ way'[c] = w /\ fallback'[c] = f /\ tries'[c] = 0 /\ pause'[c] = 0
      /\ records'[c] = NoRecord /\ sent'[c] = 0
  BY <1>1 DEF Begin, Functions, ExchangeTypeOK
<1>4. Attempts \in Nat \ {0} /\ Backoff[Attempts] \in Nat BY ClientAssumption, BackoffFacts
<1>5. ActionOK(c)' BY <1>3, <1>4 DEF ActionOK, Failed, RecordType, NoRecord
<1> QED BY <1>2, <1>5

\* The steps that send a request, wait for the next one or leave it to viem.
LEMMA LocalOK ==
  ASSUME ActionInv, NEW c \in Calls, Local(c) \/ Direct(c)
  PROVE  Others(c) /\ ActionOK(c)'
<1>1. Functions /\ ActionOK(c) /\ ExchangeTypeOK BY DEF ActionInv, ExchangeInv
<1>2. /\ UNCHANGED <<way, fallback, pause, reason, records>>
      /\ pc' = [pc EXCEPT ![c] = pc'[c]]
  BY <1>1 DEF Local, AttemptAborted, Attempt, Wake, Direct, Post, control, ExchangeTypeOK
<1>3. \/ tries' = tries /\ sent' = sent
      \/ /\ pc[c] = "ready" /\ tries' = [tries EXCEPT ![c] = @ + 1]
         /\ sent' = sent \/ sent' = [sent EXCEPT ![c] = @ + 1]
  BY DEF Local, AttemptAborted, Attempt, Wake, Direct
<1>4. Others(c)
  BY <1>1, <1>2, <1>3 DEF Others, Functions, ExchangeTypeOK
<1>5. Attempts \in Nat /\ tries[c] \in Nat /\ tries[c] <= Attempts /\ sent[c] \in 0..tries[c]
  BY <1>1, ClientAssumption DEF ActionOK
<1>6. CASE pc[c] = "ready"
  <2>1. pc'[c] \in Open /\ tries'[c] = tries[c] + 1 /\ sent'[c] \in {sent[c], sent[c] + 1}
    BY <1>1, <1>6 DEF Local, AttemptAborted, Attempt, Wake, Direct, Post, ExchangeTypeOK, Functions
  <2>2. tries[c] < Attempts BY <1>1, <1>6 DEF ActionOK
  <2> QED BY <1>1, <1>2, <1>4, <1>5, <1>6, <2>1, <2>2 DEF ActionOK, Failed
<1>7. CASE pc[c] = "backoff"
  <2>1. pc'[c] = "ready" /\ UNCHANGED <<tries, sent>>
    BY <1>1, <1>7 DEF Local, AttemptAborted, Attempt, Wake, Direct, ExchangeTypeOK
  <2> QED BY <1>1, <1>2, <1>4, <1>5, <1>7, <2>1 DEF ActionOK, Failed
<1>8. CASE pc[c] = "direct"
  <2>1. pc'[c] = "directDone" /\ UNCHANGED <<tries, sent>>
    BY <1>1, <1>8 DEF Local, AttemptAborted, Attempt, Wake, Direct, ExchangeTypeOK
  <2> QED BY <1>1, <1>2, <1>4, <1>5, <1>8, <2>1 DEF ActionOK, Failed
<1> QED BY <1>6, <1>7, <1>8 DEF Local, AttemptAborted, Attempt, Wake, Direct

\* An answer that is waited for is on its way, and an attempt has begun.
LEMMA ExchangeOK ==
  ASSUME ActionInv, NEW c \in Calls, Aborts(c) \/ Exchange(c)
  PROVE  Others(c) /\ ActionOK(c)'
<1>0. Functions /\ ActionOK(c) /\ ExchangeTypeOK BY DEF ActionInv, ExchangeInv
<1>1. pc[c] \in Open /\ Answered(c)
  BY DEF Aborts, Exchange, NetworkFails, StatusFails, Headers, Body, BodyFails, UnknownHash,
         LookupRefused, StoreOk, StoreStatusFails, StoreRefused, StillUnknown
<1>2. tries[c] # 0 BY <1>0, <1>1, ClientAssumption DEF ActionOK
<1>3. CASE Aborts(c) \/ NetworkFails(c) \/ StatusFails(c)
  <2>1. PICK why : Retry(c, why) BY <1>3 DEF Aborts, NetworkFails, StatusFails
  <2> QED BY <1>1, <2>1, RetryOK DEF Answered
<1>4. CASE Body(c) \/ BodyFails(c) \/ LookupRefused(c) \/ StoreRefused(c) \/ StillUnknown(c)
  <2>1. UNCHANGED <<control, tries, pause, sent>>
    BY <1>4 DEF Body, BodyFails, LookupRefused, StoreRefused, StillUnknown, Answered
  <2>2. PICK why \in {"other", "stalled", "unknownHash"}, e \in {0, 1} :
          Return(c) \/ Caught(c, why, 1, e)
    BY <1>4 DEF Body, BodyFails, LookupRefused, StoreRefused, StillUnknown, Undecodable, Throw
  <2>3. why \notin Transient BY <2>2 DEF Transient
  <2> QED BY <1>1, <2>1, <2>2, <2>3, ReturnOK, CaughtOK
<1>5. CASE Headers(c) \/ UnknownHash(c) \/ StoreOk(c) \/ StoreStatusFails(c)
  <2>1. UNCHANGED <<way, fallback, tries, pause, reason, records, sent>>
    BY <1>5 DEF Headers, UnknownHash, StoreOk, StoreStatusFails, Answered, control
  <2>2. pc'[c] \in Open /\ \A d \in Calls \ {c} : pc'[d] = pc[d]
    BY <1>0, <1>5 DEF Headers, UnknownHash, StoreOk, StoreStatusFails, Post, ExchangeTypeOK
  <2>3. Others(c) BY <1>0, <2>1, <2>2 DEF Others, Functions
  <2> QED BY <1>0, <1>1, <2>1, <2>2, <2>3 DEF ActionOK, Failed
<1> QED BY <1>3, <1>4, <1>5 DEF Exchange

LEMMA InterceptOK ==
  ASSUME ActionInv, NEW c \in Calls, Intercept(c)
  PROVE  Others(c) /\ ActionOK(c)'
<1>1. pc[c] \in Proxied /\ tries[c] = 0 /\ UNCHANGED <<control, tries, pause, sent>>
  BY DEF Intercept
<1>2. CASE Return(c) BY <1>1, <1>2, ReturnOK
<1>3. CASE ~ Return(c)
  <2>1. PICK n \in {0, 1}, e \in {0, 1} : Caught(c, "other", n, e) /\ e <= n
    BY <1>3 DEF Intercept, Undecodable, Throw
  <2>2. "other" \notin Transient BY DEF Transient
  <2> QED BY <1>1, <2>1, <2>2, CaughtOK
<1> QED BY <1>2, <1>3

LEMMA ActionInit == Init => ActionInv
<1> SUFFICES ASSUME Init PROVE ActionInv OBVIOUS
<1>1. Attempts \in Nat \ {0} /\ Backoff[Attempts] \in Nat BY ClientAssumption, BackoffFacts
<1>2. Functions BY DEF Init, Functions
<1>3. ASSUME NEW c \in Calls PROVE ActionOK(c)
  BY <1>1 DEF Init, ActionOK, Failed, RecordType, NoRecord
<1> QED BY <1>2, <1>3, InitInv DEF ActionInv

LEMMA ActionNext == ActionInv /\ [Next]_vars => ActionInv'
<1> SUFFICES ASSUME ActionInv, [Next]_vars PROVE ActionInv' OBVIOUS
<1>1. ExchangeInv' BY NextInv DEF ActionInv
<1>2. ASSUME NEW c \in Calls, CallNext(c), ~ (StoreRow(c) \/ Miss(c)) PROVE ActionInv'
  <2>1. Others(c) /\ ActionOK(c)'
    BY <1>2, BeginOK, LocalOK, ExchangeOK, InterceptOK DEF CallNext
  <2> QED BY <1>1, <2>1, OneAction
<1>3. ASSUME UNCHANGED <<pc, way, fallback, tries, reason, records, sent>>,
             \A c \in Calls : pause'[c] \in 0..Backoff[Attempts],
             pause' = [c \in Calls |-> pause'[c]]
      PROVE  ActionInv'
  BY <1>1, <1>3 DEF ActionInv, Functions, ActionOK
<1>4. CASE UNCHANGED client
  BY <1>3, <1>4 DEF client, control, ActionInv, ActionOK, Functions
<1>5. CASE Tick
  <2>1. Backoff[Attempts] \in Nat BY ClientAssumption, BackoffFacts
  <2>2. ASSUME NEW c \in Calls PROVE pause'[c] \in 0..Backoff[Attempts]
    <3>1. pause[c] \in 0..Backoff[Attempts] BY DEF ActionInv, ActionOK
    <3>2. pause'[c] = IF pc[c] = "backoff" THEN Down(pause[c]) ELSE pause[c]
      BY <1>5 DEF Tick
    <3> QED BY <2>1, <3>1, <3>2 DEF Down
  <2>3. pause' = [c \in Calls |-> pause'[c]] BY <1>5 DEF Tick
  <2> QED BY <1>3, <1>5, <2>2, <2>3 DEF Tick, control
<1> QED BY <1>2, <1>4, <1>5 DEF Next, StoreRow, Miss, LateStore, Alarm, vars

LEMMA ActionAlways == Spec => []ActionInv
BY ActionInit, ActionNext, PTL DEF Spec

\* The types of every variable; the pause before an attempt is at most delay * 2^n.
THEOREM TypeCorrect == Spec => []TypeOK
<1>1. ActionInv => TypeOK
  <2> SUFFICES ASSUME ActionInv PROVE TypeOK OBVIOUS
  <2>1. Functions /\ \A c \in Calls : ActionOK(c) BY DEF ActionInv
  <2>2. \A c \in Calls : sent[c] \in 0..Attempts
    BY <2>1, ClientAssumption DEF ActionOK
  <2> QED BY <2>1, <2>2 DEF ActionInv, ExchangeInv, TypeOK, Functions, ActionOK, RecordType
<1> QED BY <1>1, ActionAlways, PTL

\* withRetry comes before the fallback: whatever was rejected, timed out or
\* answered 429 or 5xx, and in whatever order, an action that ends that way has
\* used every attempt it has.
THEOREM DirectComesLast == Spec => []RetriedFirst
<1>1. ActionInv => RetriedFirst BY DEF ActionInv, ActionOK, RetriedFirst
<1> QED BY <1>1, ActionAlways, PTL

\* Each action is counted once, when it ends, and a fallback exactly when direct
\* RPC is called.
THEOREM CountedOnce == Spec => []MetricsExact
<1>1. ActionInv => MetricsExact
  <2> SUFFICES ASSUME ActionInv, NEW c \in Calls
               PROVE  /\ pc[c] \in Proxied => records[c] = NoRecord
                      /\ records[c].fallbacks = IF pc[c] \in {"direct", "directDone"} THEN 1 ELSE 0
                      /\ pc[c] = "result" => records[c].requests = 1 /\ records[c].errors = 0
                      /\ pc[c] \in Failed /\ tries[c] > 0 => records[c].requests = 1
                      /\ records[c].errors <= records[c].requests
    BY DEF MetricsExact
  <2>1. ActionOK(c) /\ pc[c] \in Proxied \cup Ended \cup {"direct"}
    BY DEF ActionInv, ExchangeInv, ExchangeTypeOK
  <2>2. CASE pc[c] \in Proxied \cup {"idle"} BY <2>1, <2>2 DEF ActionOK, NoRecord, Failed
  <2>3. CASE pc[c] = "result" BY <2>1, <2>3 DEF ActionOK, Failed
  <2>4. CASE pc[c] \in Failed BY <2>1, <2>4 DEF ActionOK, Failed
  <2> QED BY <2>1, <2>2, <2>3, <2>4 DEF Failed
<1> QED BY <1>1, ActionAlways, PTL
=============================================================================
