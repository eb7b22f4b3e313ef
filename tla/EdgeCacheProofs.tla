--------------------------- MODULE EdgeCacheProofs ---------------------------
(***************************************************************************)
(* Theorems about EdgeCache, for every set of calls and hashes, every TTL  *)
(* of the records and of the cache, every fault, purge and eviction.       *)
(*                                                                         *)
(* A step of EdgeCache is a step of RequestDedup or leaves its variables   *)
(* alone, so the invariant of RequestDedup holds here too.  To it is added *)
(* what is on its way to the cache and what the cache keeps, and, for the  *)
(* purges, that nothing stale is left where it could still get there.      *)
(***************************************************************************)
EXTENDS EdgeCache, RequestDedupProofs

PurgeSets == /\ sending \subseteq Calls /\ late \subseteq sending
             /\ purging \subseteq Keys /\ purged \subseteq Keys
             /\ calm \subseteq purging \cup purged

\* An outcome that may be served: a result, as young as a HIT has to be.
Servable(o) == /\ o \in Outcome /\ o.kind = "result"
               /\ o.age < ResultTtl + ReportDelay

SendingOK == \A c \in sending : pc[c] \in {"hit", "miss"} /\ Servable(outcome[c])

EntriesOK == /\ edge \in [Keys -> [Urls -> Entry \cup {NoEntry}]]
             /\ \A k \in Keys, u \in Urls : edge[k][u].there => Servable(edge[k][u].outcome)

\* Neither the record of k nor an answer for k that is under way is stale.
Clean(k) ==
  /\ ~ row[k].outcome.stale
  /\ \A c \in Calls : key[c] = k =>
       /\ pc[c] \in Reporting => ~ outcome[c].stale
       /\ c \in sending => ~ outcome[c].stale /\ c \notin late

PurgesOK == /\ \A k \in calm : Clean(k)
            /\ \A k \in calm \cap purged : ~ StaleEntry(k, "query")

EdgeInv == DedupInv /\ PurgeSets /\ SendingOK /\ EntriesOK /\ PurgesOK

LEMMA EdgeDedupInit == EdgeInit => Init
BY DEF EdgeInit

\* Every step is a step of the deduplication, or none of its concern.
LEMMA EdgeStep == [EdgeNext]_allVars => [Next]_vars
<1> SUFFICES ASSUME [EdgeNext]_allVars PROVE [Next]_vars OBVIOUS
<1>1. CASE UNCHANGED allVars BY <1>1 DEF allVars
<1>2. ASSUME NEW c \in Calls, Call(c) \/ Keep(c) PROVE [Next]_vars
  BY <1>2 DEF Call, Keep, Next
<1>3. ASSUME NEW k \in Keys, (\E u \in Urls : Drop(k, u)) \/ PurgeRow(k) \/ PurgeEntry(k) \/ PurgeCut(k)
      PROVE  [Next]_vars
  BY <1>3 DEF Drop, PurgeRow, PurgeEntry, PurgeCut, Next
<1>4. CASE PurgeChain \/ EdgeAlarm \/ EdgeTick
  BY <1>4 DEF PurgeChain, EdgeAlarm, EdgeTick, Next
<1> QED BY <1>1, <1>2, <1>3, <1>4 DEF EdgeNext

-----------------------------------------------------------------------------
(***************************************************************************)
(* What a step of one call does to the records and to its own outcome.     *)
(***************************************************************************)
\* It sets no row but its own to what it reports, and registers one.
RowsOf(c) ==
  \A k \in Keys : \/ row'[k] = row[k] \/ row'[k] = NewPending
                  \/ pc[c] \in Reporting /\ key[c] = k /\ row'[k] = SettledWith(outcome[c])

\* An outcome to report is fresh; one to answer with was in the record, or has
\* just been reported.
Served(c) ==
  \/ key'[c] \in Keys /\ VisibleSettled(key'[c]) /\ outcome'[c] = row[key'[c]].outcome
  \/ pc[c] \in Reporting /\ key'[c] = key[c] /\ outcome'[c] = outcome[c]

OutcomeOf(c) ==
  /\ pc'[c] \in Reporting => \E kind \in {"result", "error"} : outcome'[c] = Fresh(kind)
  /\ pc'[c] \in {"hit", "miss"} => Served(c)

Apart(c) == \A d \in Calls \ {c} : pc'[d] = pc[d] /\ key'[d] = key[d] /\ outcome'[d] = outcome[d]

CallEffect(c) == RowsOf(c) /\ OutcomeOf(c) /\ Apart(c)

LEMMA EnterEffect ==
  ASSUME TypeOK, NEW c \in Calls, NEW k \in Keys, NEW to, NEW o, NEW n, NEW l,
         Enter(c, k, to, o, n, l)
  PROVE  Apart(c) /\ pc'[c] = to /\ key'[c] = k /\ outcome'[c] = o
BY DEF Enter, TypeOK, DedupTypeOK, Apart

LEMMA StoreEffect ==
  ASSUME TypeOK, NEW c \in Calls, NEW own, pc[c] \in Reporting,
         Store(c, own) \/ NotStored(c, own)
  PROVE  RowsOf(c)
<1>1. row' = row \/ Settle(key[c], outcome[c]) BY DEF Store, NotStored
<1> QED BY <1>1 DEF Settle, RowsOf, TypeOK, DedupTypeOK, ProxyStateTypeOK

LEMMA BeginEffect ==
  ASSUME TypeOK, NEW c \in Calls, Begin(c)
  PROVE  CallEffect(c)
<1>1. ASSUME NEW k \in Keys, ServeRecord(c, k) PROVE CallEffect(c)
  <2>1. Apart(c) /\ pc'[c] = "hit" /\ key'[c] = k /\ outcome'[c] = row[k].outcome
    BY <1>1, EnterEffect DEF ServeRecord
  <2>2. row' = row /\ VisibleSettled(k) BY <1>1 DEF ServeRecord
  <2> QED BY <2>1, <2>2 DEF CallEffect, RowsOf, OutcomeOf, Served, Reporting
<1>2. ASSUME NEW k \in Keys,
             Join(c, k) \/ Lead(c, k) \/ CheckError(c, k) \/ CheckReject(c, k)
      PROVE  CallEffect(c)
  <2>1. PICK to \in {"sleeping", "executing", "broken"}, l \in Losses :
          Enter(c, k, to, NoOutcome, 0, l)
    BY <1>2 DEF Join, Lead, CheckError, CheckReject, Losses
  <2>2. Apart(c) /\ pc'[c] = to BY <2>1, EnterEffect
  <2>3. row' = row \/ Register(k) BY <1>2 DEF Join, Lead, CheckError, CheckReject
  <2>4. RowsOf(c) BY <2>3 DEF Register, RowsOf, TypeOK, DedupTypeOK, ProxyStateTypeOK
  <2> QED BY <2>2, <2>4 DEF CallEffect, OutcomeOf, Reporting
<1> QED BY <1>1, <1>2 DEF Begin

LEMMA StepEffect ==
  ASSUME TypeOK, NEW c \in Calls, CallNext(c)
  PROVE  CallEffect(c)
<1> USE DEF Reporting, Ended, Waiting
<1>0. /\ pc \in [Calls -> Waiting \cup Flying \cup Ended] /\ key \in [Calls -> Keys]
      /\ outcome \in [Calls -> Outcome \cup {NoOutcome}]
  BY DEF TypeOK, DedupTypeOK
<1>1. CASE Poll(c) \/ LoopAgain(c) \/ Timeout(c)
  <2>1. row' = row /\ Apart(c) /\ key' = key
    BY <1>0, <1>1 DEF Poll, LoopAgain, Timeout, End, Apart
  <2>2. pc'[c] \in {"hit", "sleeping", "polled", "broken", "timeout"}
    BY <1>0, <1>1 DEF Poll, LoopAgain, Timeout, End
  <2>3. pc'[c] = "hit" => VisibleSettled(key[c]) /\ outcome'[c] = row[key[c]].outcome
    BY <1>0, <1>1 DEF Poll, LoopAgain, Timeout, End
  <2> QED BY <1>0, <2>1, <2>2, <2>3 DEF CallEffect, RowsOf, OutcomeOf, Served
<1>2. CASE Answer(c)
  <2>1. PICK kind \in {"result", "error"} : /\ outcome' = [outcome EXCEPT ![c] = Fresh(kind)]
                                            /\ pc' = [pc EXCEPT ![c] = IF kind = "result" THEN "completing" ELSE "failing"]
    BY <1>2 DEF Answer
  <2>2. row' = row /\ key' = key BY <1>2 DEF Answer
  <2> QED BY <1>0, <2>1, <2>2 DEF CallEffect, RowsOf, OutcomeOf, Apart
<1>3. CASE Complete(c) \/ Fail(c)
  <2>1. pc[c] \in Reporting /\ key' = key /\ outcome' = outcome
    BY <1>3 DEF Complete, Fail
  <2>2. RowsOf(c) BY <1>3, <2>1, StoreEffect DEF Complete, Fail
  <2>3. Apart(c) /\ pc'[c] \in {"miss", "broken"}
    BY <1>0, <1>3 DEF Complete, Fail, End, Apart
  <2> QED BY <2>1, <2>2, <2>3 DEF CallEffect, OutcomeOf, Served
<1>4. CASE CompleteReject(c)
  <2>1. RowsOf(c) BY <1>4, StoreEffect DEF CompleteReject
  <2>2. /\ pc' = [pc EXCEPT ![c] = "failing"] /\ key' = key
        /\ outcome' = [outcome EXCEPT ![c] = Fresh("error")]
    BY <1>4 DEF CompleteReject
  <2> QED BY <1>0, <2>1, <2>2 DEF CallEffect, OutcomeOf, Apart
<1>5. CASE Evict(c)
  <2>1. Enter(c, key[c], "idle", NoOutcome, 0, "no") /\ row' = row BY <1>5 DEF Evict
  <2>2. Apart(c) /\ pc'[c] = "idle" BY <1>0, <2>1, EnterEffect
  <2> QED BY <2>1, <2>2 DEF CallEffect, RowsOf, OutcomeOf
<1> QED BY <1>1, <1>2, <1>3, <1>4, <1>5, BeginEffect DEF CallNext, Report

-----------------------------------------------------------------------------
(***************************************************************************)
(* The invariant, action by action.                                        *)
(***************************************************************************)
LEMMA EdgeInvInit == EdgeInit => EdgeInv
<1> SUFFICES ASSUME EdgeInit PROVE EdgeInv OBVIOUS
<1>1. DedupInv BY InvInit, EdgeDedupInit
<1>2. PurgeSets /\ SendingOK /\ PurgesOK BY DEF EdgeInit, PurgeSets, SendingOK, PurgesOK
<1>3. EntriesOK BY DEF EdgeInit, EntriesOK, NoEntry
<1> QED BY <1>1, <1>2, <1>3 DEF EdgeInv

LEMMA NotNone == \A o \in Outcome \cup {NoOutcome} : o.kind = "result" => o \in Outcome
BY NoOutcomeFacts

LEMMA CallInv ==
  ASSUME EdgeInv, DedupInv', NEW c \in Calls, Call(c)
  PROVE  EdgeInv'
<1>0. /\ PurgeSets /\ SendingOK /\ EntriesOK /\ PurgesOK /\ TypeOK /\ CallPhases
      /\ ProxyStateTypeOK /\ RecordsFresh /\ TypeOK'
  BY DEF EdgeInv, DedupInv, TypeOK, DedupTypeOK
<1>1. c \notin sending /\ CallEffect(c) /\ UNCHANGED <<edge, late, purging, calm, purged>>
  BY <1>0, StepEffect DEF Call
<1>2. RowsOf(c) /\ OutcomeOf(c) /\ Apart(c) BY <1>1 DEF CallEffect
<1>3. /\ sending' \in {sending, sending \cup {c}}
      /\ c \in sending' => pc'[c] \in {"hit", "miss"} /\ outcome'[c].kind = "result"
  BY <1>1 DEF Call, Respond
<1>4. PurgeSets' BY <1>0, <1>1, <1>3 DEF PurgeSets
<1>5. EntriesOK' BY <1>0, <1>1 DEF EntriesOK
<1>6. SendingOK'
  <2> SUFFICES ASSUME NEW d \in sending'
               PROVE  pc'[d] \in {"hit", "miss"} /\ Servable(outcome'[d])
    BY DEF SendingOK
  <2>1. CASE d # c
    <3>1. d \in sending /\ d \in Calls BY <1>0, <1>3, <2>1 DEF PurgeSets
    <3> QED BY <1>0, <1>2, <2>1, <3>1 DEF Apart, SendingOK
  <2>2. CASE d = c
    <3>1. pc'[c] \in {"hit", "miss"} /\ outcome'[c].kind = "result" BY <1>3, <2>2
    <3>2. outcome'[c] \in Outcome BY <1>0, <3>1, NotNone DEF TypeOK, DedupTypeOK
    <3>3. Served(c) BY <1>2, <3>1 DEF OutcomeOf
    <3>4. outcome'[c].age < ResultTtl + ReportDelay
      <4>1. CASE key'[c] \in Keys /\ VisibleSettled(key'[c]) /\ outcome'[c] = row[key'[c]].outcome
        BY <1>0, <4>1, ServedYoung
      <4>2. CASE pc[c] \in Reporting /\ outcome'[c] = outcome[c]
        <5>1. outcome[c].age <= ReportDelay BY <1>0, <4>2 DEF CallPhases
        <5>2. outcome[c].age \in Nat BY <3>2, <4>2, CapIsNat DEF Outcome
        <5> QED BY <4>2, <5>1, <5>2, TtlAssumption
      <4> QED BY <3>3, <4>1, <4>2 DEF Served
    <3> QED BY <2>2, <3>1, <3>2, <3>4 DEF Servable
  <2> QED BY <2>1, <2>2
<1>7. PurgesOK'
  <2>1. ASSUME NEW k \in calm PROVE Clean(k)'
    <3>0. Clean(k) /\ k \in Keys BY <1>0, <2>1 DEF PurgesOK, PurgeSets
    <3>1. ~ row'[k].outcome.stale
      <4>1. CASE row'[k] = row[k] BY <3>0, <4>1 DEF Clean
      <4>2. CASE row'[k] = NewPending BY <4>2 DEF NewPending, NoOutcome
      <4>3. CASE pc[c] \in Reporting /\ key[c] = k /\ row'[k] = SettledWith(outcome[c])
        BY <3>0, <4>3 DEF Clean, SettledWith
      <4> QED BY <1>2, <3>0, <4>1, <4>2, <4>3 DEF RowsOf
    <3>2. ASSUME NEW d \in Calls, key'[d] = k
          PROVE  /\ pc'[d] \in Reporting => ~ outcome'[d].stale
                 /\ d \in sending' => ~ outcome'[d].stale /\ d \notin late'
      <4>1. CASE d # c
        <5>1. pc'[d] = pc[d] /\ key'[d] = key[d] /\ outcome'[d] = outcome[d]
              /\ (d \in sending' => d \in sending)
          BY <1>2, <1>3, <4>1 DEF Apart
        <5> QED BY <1>1, <3>0, <3>2, <5>1 DEF Clean
      <4>2. CASE d = c
        <5>1. pc'[c] \in Reporting => ~ outcome'[c].stale
          BY <1>2 DEF OutcomeOf, Fresh
        <5>2. ASSUME c \in sending' PROVE ~ outcome'[c].stale
          <6>1. Served(c) BY <1>2, <1>3, <5>2 DEF OutcomeOf
          <6> QED BY <3>0, <3>2, <4>2, <6>1 DEF Served, Clean
        <5>3. c \notin late' BY <1>0, <1>1 DEF PurgeSets
        <5> QED BY <4>2, <5>1, <5>2, <5>3
      <4> QED BY <4>1, <4>2
    <3> QED BY <3>1, <3>2 DEF Clean
  <2> QED BY <1>0, <1>1, <2>1 DEF PurgesOK, StaleEntry
<1> QED BY <1>4, <1>5, <1>6, <1>7 DEF EdgeInv

\* One entry is replaced.
Replaced(k, u, e) == edge' = [edge EXCEPT ![k][u] = e]

LEMMA OneEntry ==
  ASSUME EntriesOK, NEW k \in Keys, NEW u \in Urls, NEW e \in Entry \cup {NoEntry},
         Replaced(k, u, e), e.there => Servable(e.outcome)
  PROVE  /\ EntriesOK'
         /\ \A j \in Keys, v \in Urls :
              edge'[j][v] = IF j = k /\ v = u THEN e ELSE edge[j][v]
<1>1. \A j \in Keys, v \in Urls : edge'[j][v] = IF j = k /\ v = u THEN e ELSE edge[j][v]
  BY DEF EntriesOK, Replaced
<1>2. edge' \in [Keys -> [Urls -> Entry \cup {NoEntry}]]
  BY DEF EntriesOK, Replaced
<1> QED BY <1>1, <1>2 DEF EntriesOK

\* What gets to the cache is servable, and stale only when a purge overtook it.
LEMMA KeepInv ==
  ASSUME EdgeInv, DedupInv', NEW c \in Calls, Keep(c)
  PROVE  EdgeInv'
<1>0. /\ PurgeSets /\ SendingOK /\ EntriesOK /\ PurgesOK /\ key[c] \in Keys
  BY DEF EdgeInv, DedupInv, TypeOK, DedupTypeOK
<1>1. /\ c \in sending
      /\ sending' = sending \ {c} /\ late' = late \ {c}
      /\ UNCHANGED <<row, pc, key, outcome, purging, calm, purged>>
  BY DEF Keep, vars
<1>2. PICK u \in Urls : Replaced(key[c], u, Kept(c)) BY DEF Keep, Replaced
<1>3. Servable(outcome[c]) BY <1>0, <1>1 DEF SendingOK
<1>4. /\ Kept(c) \in Entry /\ Servable(Kept(c).outcome) /\ Kept(c).there
      /\ Kept(c).outcome.stale = (outcome[c].stale \/ c \in late)
  <2> DEFINE o == [outcome[c] EXCEPT !.stale = @ \/ c \in late]
  <2>1. /\ o \in Outcome /\ o.kind = outcome[c].kind /\ o.age = outcome[c].age
        /\ o.stale = (outcome[c].stale \/ c \in late)
    BY <1>3 DEF Servable, Outcome
  <2>2. Servable(o) BY <1>3, <2>1 DEF Servable
  <2>3. Kept(c) = [there |-> TRUE, age |-> 0, outcome |-> o] BY DEF Kept
  <2> HIDE DEF o
  <2> QED BY <2>1, <2>2, <2>3, EdgeAssumption DEF Entry
<1>5. /\ EntriesOK'
      /\ \A j \in Keys, v \in Urls :
           edge'[j][v] = IF j = key[c] /\ v = u THEN Kept(c) ELSE edge[j][v]
  BY <1>0, <1>2, <1>4, OneEntry
<1>6. PurgeSets' /\ SendingOK' BY <1>0, <1>1 DEF PurgeSets, SendingOK
<1>7. PurgesOK'
  <2>1. ASSUME NEW k \in calm PROVE Clean(k)'
    BY <1>0, <1>1, <2>1 DEF PurgesOK, Clean
  <2>2. ASSUME NEW k \in calm \cap purged PROVE ~ StaleEntry(k, "query")'
    <3>1. k \in Keys /\ Clean(k) /\ ~ StaleEntry(k, "query") /\ "query" \in Urls
      BY <1>0, <2>2 DEF PurgesOK, PurgeSets, Urls
    <3>2. CASE k = key[c] /\ "query" = u
      <4>1. edge'[k]["query"] = Kept(c) BY <1>5, <3>1, <3>2
      <4>2. ~ outcome[c].stale /\ c \notin late BY <1>1, <3>1, <3>2 DEF Clean
      <4> QED BY <1>4, <4>1, <4>2 DEF StaleEntry
    <3>3. CASE ~ (k = key[c] /\ "query" = u)
      BY <1>5, <3>1, <3>3 DEF StaleEntry
    <3> QED BY <3>2, <3>3
  <2> QED BY <1>1, <2>1, <2>2 DEF PurgesOK
<1> QED BY <1>5, <1>6, <1>7 DEF EdgeInv

\* The steps that only take entries from the cache or end a purge.
LEMMA TakeInv ==
  ASSUME EdgeInv, DedupInv', NEW k \in Keys,
         (\E u \in Urls : Drop(k, u)) \/ PurgeEntry(k) \/ PurgeCut(k)
  PROVE  EdgeInv'
<1>0. PurgeSets /\ SendingOK /\ EntriesOK /\ PurgesOK BY DEF EdgeInv
<1>1. /\ UNCHANGED <<row, pc, key, outcome, sending, late>>
      /\ purging' \subseteq purging /\ calm' \subseteq calm
      /\ calm' \subseteq purging' \cup purged'
      /\ \A j \in purged' : j \in purged \/ (j = k /\ PurgeEntry(k))
  BY <1>0 DEF Drop, PurgeEntry, PurgeCut, PurgeSets, vars
<1>2. ~ NoEntry.there BY DEF NoEntry
<1>3. /\ EntriesOK'
      /\ \A j \in Keys, v \in Urls : edge'[j][v] \in {edge[j][v], NoEntry}
      /\ PurgeEntry(k) => edge'[k]["query"] = NoEntry
  <2>1. ASSUME NEW u \in Urls, Replaced(k, u, NoEntry)
        PROVE  /\ EntriesOK' /\ edge'[k][u] = NoEntry
               /\ \A j \in Keys, v \in Urls : edge'[j][v] \in {edge[j][v], NoEntry}
    BY <1>0, <1>2, <2>1, OneEntry
  <2>2. CASE \E u \in Urls : Drop(k, u)
    <3>1. ~ PurgeEntry(k) \/ Replaced(k, "query", NoEntry) BY DEF PurgeEntry, Replaced
    <3>2. PICK u \in Urls : Replaced(k, u, NoEntry) BY <2>2 DEF Drop, Replaced
    <3>3. "query" \in Urls BY DEF Urls
    <3> QED BY <2>1, <3>1, <3>2, <3>3
  <2>3. CASE PurgeEntry(k)
    <3>1. Replaced(k, "query", NoEntry) BY <2>3 DEF PurgeEntry, Replaced
    <3>2. "query" \in Urls BY DEF Urls
    <3> QED BY <2>1, <3>1, <3>2
  <2>4. CASE PurgeCut(k) /\ ~ PurgeEntry(k)
    BY <1>0, <2>4 DEF PurgeCut, EntriesOK
  <2> QED BY <2>2, <2>3, <2>4
<1>4. PurgeSets' /\ SendingOK' BY <1>0, <1>1 DEF PurgeSets, SendingOK
<1>5. PurgesOK'
  <2>1. ASSUME NEW j \in calm' PROVE Clean(j)'
    <3>1. Clean(j) BY <1>0, <1>1, <2>1 DEF PurgesOK
    <3> QED BY <1>1, <3>1 DEF Clean
  <2>2. ASSUME NEW j \in calm' \cap purged' PROVE ~ StaleEntry(j, "query")'
    <3>1. j \in Keys /\ "query" \in Urls BY <1>0, <1>1, <2>2 DEF PurgeSets, Urls
    <3>2. edge'[j]["query"] = NoEntry \/ (j \in purged /\ edge'[j]["query"] = edge[j]["query"])
      BY <1>1, <1>3, <2>2, <3>1
    <3> QED BY <1>0, <1>1, <1>2, <2>2, <3>2 DEF PurgesOK, StaleEntry
  <2> QED BY <2>1, <2>2 DEF PurgesOK
<1> QED BY <1>3, <1>4, <1>5 DEF EdgeInv

\* A purge of the records of ks: what it leaves clean of them is what nobody was
\* answering.
LEMMA PurgeInv ==
  ASSUME EdgeInv, DedupInv', NEW ks \in SUBSET Keys, Purge(ks), Outdated(ks),
         purging' \in SUBSET Keys, purging \subseteq purging'
  PROVE  EdgeInv'
<1>0. PurgeSets /\ SendingOK /\ EntriesOK /\ PurgesOK /\ CallPhases /\ TypeOK
  BY DEF EdgeInv, DedupInv
<1>1. /\ UNCHANGED <<pc, key, sending>>
      /\ row' = [k \in Keys |-> IF k \in ks THEN Absent ELSE row[k]]
      /\ outcome' = [c \in Calls |-> IF key[c] \in ks /\ pc[c] \in Reporting
                                     THEN [outcome[c] EXCEPT !.stale = TRUE] ELSE outcome[c]]
      /\ edge' = [k \in Keys |-> [u \in Urls |->
                   IF k \in ks /\ edge[k][u].there
                   THEN [edge[k][u] EXCEPT !.outcome.stale = TRUE] ELSE edge[k][u]]]
      /\ late' = late \cup {c \in sending : key[c] \in ks}
      /\ calm' = {k \in purging' \cup purged' : IF k \in ks THEN ~ UnderWay(k) ELSE k \in calm}
      /\ purged' = purged \ ks
  BY DEF Purge, Delete, Outdated
<1>2. PurgeSets' BY <1>0, <1>1 DEF PurgeSets
<1>3. SendingOK'
  <2> SUFFICES ASSUME NEW c \in sending PROVE outcome'[c] = outcome[c]
    BY <1>0, <1>1 DEF SendingOK
  <2>1. pc[c] \in {"hit", "miss"} /\ c \in Calls BY <1>0 DEF SendingOK, PurgeSets
  <2> QED BY <1>1, <2>1 DEF Reporting
<1>4. EntriesOK'
  <2> SUFFICES ASSUME NEW k \in Keys, NEW u \in Urls
               PROVE  /\ edge'[k][u] \in Entry \cup {NoEntry}
                      /\ edge'[k][u].there => Servable(edge'[k][u].outcome)
    BY <1>1 DEF EntriesOK
  <2>1. /\ edge[k][u] \in Entry \cup {NoEntry}
        /\ edge[k][u].there => Servable(edge[k][u].outcome)
    BY <1>0 DEF EntriesOK
  <2>2. CASE k \in ks /\ edge[k][u].there
    <3>1. edge[k][u] \in Entry /\ edge[k][u].outcome \in Outcome
      BY <2>1, <2>2 DEF NoEntry, Servable
    <3>2. edge'[k][u] = [edge[k][u] EXCEPT !.outcome = [edge[k][u].outcome EXCEPT !.stale = TRUE]]
      BY <1>1, <2>2
    <3>3. [edge[k][u].outcome EXCEPT !.stale = TRUE] \in Outcome BY <3>1, StaleOutcome
    <3>4. edge'[k][u] \in Entry /\ edge'[k][u].outcome = [edge[k][u].outcome EXCEPT !.stale = TRUE]
      BY <3>1, <3>2, <3>3 DEF Entry
    <3> QED BY <2>1, <2>2, <3>1, <3>4, StaleOutcome DEF Servable
  <2>3. CASE ~ (k \in ks /\ edge[k][u].there)
    <3>1. edge'[k][u] = edge[k][u] BY <1>1, <2>3
    <3> QED BY <2>1, <3>1
  <2> QED BY <2>2, <2>3
<1>5. PurgesOK'
  <2>1. ASSUME NEW k \in calm' PROVE Clean(k)'
    <3>1. k \in Keys BY <1>0, <1>1, <2>1 DEF PurgeSets
    <3>2. CASE k \in ks
      <4>1. ~ UnderWay(k) BY <1>1, <2>1, <3>2
      <4>2. row'[k] = Absent BY <1>1, <3>1, <3>2
      <4> QED BY <1>1, <4>1, <4>2 DEF Clean, UnderWay, Absent, NoOutcome
    <3>3. CASE k \notin ks
      <4>1. Clean(k) BY <1>0, <1>1, <2>1, <3>3 DEF PurgesOK
      <4>2. row'[k] = row[k] /\ \A c \in Calls : key[c] = k => outcome'[c] = outcome[c]
        BY <1>1, <3>1, <3>3
      <4> QED BY <1>1, <3>3, <4>1, <4>2 DEF Clean
    <3> QED BY <3>2, <3>3
  <2>2. ASSUME NEW k \in calm' \cap purged' PROVE ~ StaleEntry(k, "query")'
    <3>1. k \in calm \cap purged /\ k \notin ks /\ k \in Keys /\ "query" \in Urls
      BY <1>0, <1>1, <2>2 DEF PurgeSets, Urls
    <3>2. edge'[k]["query"] = edge[k]["query"] BY <1>1, <3>1
    <3> QED BY <1>0, <3>1, <3>2 DEF PurgesOK, StaleEntry
  <2> QED BY <2>1, <2>2 DEF PurgesOK
<1> QED BY <1>2, <1>3, <1>4, <1>5 DEF EdgeInv

LEMMA EdgeAlarmInv == ASSUME EdgeInv, DedupInv', EdgeAlarm PROVE EdgeInv'
<1>0. PurgeSets /\ SendingOK /\ EntriesOK /\ PurgesOK BY DEF EdgeInv
<1>1. /\ UNCHANGED <<pc, key, outcome, edge, sending, late, purging, calm, purged>>
      /\ \A k \in Keys : row'[k] = row[k] \/ row'[k] = Absent
  BY DEF EdgeAlarm, Alarm, Cleanup, Delete, edgeVars
<1>2. ~ Absent.outcome.stale BY DEF Absent, NoOutcome
<1>3. \A k \in calm : Clean(k)'
  BY <1>0, <1>1, <1>2 DEF PurgesOK, PurgeSets, Clean
<1> QED BY <1>0, <1>1, <1>3 DEF EdgeInv, PurgeSets, SendingOK, EntriesOK, PurgesOK,
                               StaleEntry

LEMMA EdgeTickInv == ASSUME EdgeInv, DedupInv', EdgeTick PROVE EdgeInv'
<1>0. /\ PurgeSets /\ EntriesOK /\ PurgesOK /\ TypeOK /\ ProxyStateTypeOK
  BY DEF EdgeInv, DedupInv, TypeOK, DedupTypeOK
<1>1. /\ UNCHANGED <<pc, key, sending, late, purging, calm, purged>> /\ sending = {}
      /\ \A k \in Keys : row'[k] = OlderRow(row[k])
      /\ \A c \in Calls : outcome'[c] = IF pc[c] \in Reporting THEN OlderOutcome(outcome[c])
                                         ELSE outcome[c]
      /\ edge' = [k \in Keys |-> [u \in Urls |->
                   IF edge[k][u].there /\ edge[k][u].age + 1 < EdgeTtl
                   THEN [edge[k][u] EXCEPT !.age = @ + 1] ELSE NoEntry]]
  BY DEF EdgeTick, Tick, AgeRows
<1>2. \A k \in Keys, u \in Urls :
        \/ edge'[k][u] = NoEntry
        \/ /\ edge[k][u].there /\ edge'[k][u] \in Entry
           /\ edge'[k][u].outcome = edge[k][u].outcome
  <2> TAKE k \in Keys, u \in Urls
  <2>1. edge[k][u] \in Entry \cup {NoEntry} BY <1>0 DEF EntriesOK
  <2>2. CASE edge[k][u].there /\ edge[k][u].age + 1 < EdgeTtl
    <3>1. edge[k][u] \in Entry BY <2>1, <2>2 DEF NoEntry
    <3>2. edge'[k][u] = [edge[k][u] EXCEPT !.age = edge[k][u].age + 1] BY <1>1, <2>2
    <3>3. edge[k][u].age + 1 \in 0..EdgeTtl - 1
      <4>1. edge[k][u].age \in 0..EdgeTtl - 1 BY <3>1 DEF Entry
      <4> QED BY <2>2, <4>1, EdgeAssumption
    <3> QED BY <2>2, <3>1, <3>2, <3>3 DEF Entry
  <2>3. CASE ~ (edge[k][u].there /\ edge[k][u].age + 1 < EdgeTtl) BY <1>1, <2>3
  <2> QED BY <2>2, <2>3
<1>3. ~ NoEntry.there BY DEF NoEntry
<1>4. EntriesOK' BY <1>0, <1>1, <1>2, <1>3 DEF EntriesOK
<1>5. PurgeSets' /\ SendingOK' BY <1>0, <1>1 DEF PurgeSets, SendingOK
<1>6. \A o \in Outcome \cup {NoOutcome} : OlderOutcome(o).stale = o.stale
  BY DEF OlderOutcome, Outcome, NoOutcome
<1>7. ASSUME NEW k \in calm PROVE Clean(k)'
  <2>1. Clean(k) /\ k \in Keys BY <1>0, <1>7 DEF PurgesOK, PurgeSets
  <2>2. row'[k].outcome.stale = row[k].outcome.stale
    <3>1. row'[k] = OlderRow(row[k]) BY <1>1, <2>1
    <3>2. CASE row[k] \in Pending
      <4>1. OlderRow(row[k]) \in Pending BY <3>2, PendingFacts
      <4> QED BY <3>1, <3>2, <4>1 DEF Pending
    <3>3. CASE row[k] \in Settled
      <4>1. OlderRow(row[k]).outcome = OlderOutcome(row[k].outcome) BY <3>3, SettledFacts
      <4>2. row[k].outcome \in Outcome BY <3>3 DEF Settled
      <4> QED BY <1>6, <3>1, <4>1, <4>2
    <3>4. CASE row[k] = Absent BY <3>1, <3>4, AbsentFacts
    <3> QED BY <1>0, <2>1, <3>2, <3>3, <3>4, RowCases
  <2>3. \A c \in Calls : outcome'[c].stale = outcome[c].stale
    BY <1>0, <1>1, <1>6 DEF TypeOK, DedupTypeOK
  <2> QED BY <1>1, <2>1, <2>2, <2>3 DEF Clean
<1>8. \A k \in calm \cap purged : ~ StaleEntry(k, "query")'
  BY <1>0, <1>2, <1>3 DEF PurgesOK, PurgeSets, StaleEntry, Urls
<1>9. PurgesOK' BY <1>1, <1>7, <1>8 DEF PurgesOK
<1> QED BY <1>4, <1>5, <1>9 DEF EdgeInv

LEMMA EdgeInvNext == EdgeInv /\ [EdgeNext]_allVars => EdgeInv'
<1> SUFFICES ASSUME EdgeInv, [EdgeNext]_allVars PROVE EdgeInv' OBVIOUS
<1>1. DedupInv' BY EdgeStep, InvNext DEF EdgeInv
<1>2. ASSUME NEW k \in Keys, PurgeRow(k) PROVE EdgeInv'
  BY <1>1, <1>2, PurgeInv DEF PurgeRow, PurgeOne, EdgeInv, PurgeSets
<1>3. CASE PurgeChain
  BY <1>1, <1>3, PurgeInv DEF PurgeChain, PurgeAll, EdgeInv, PurgeSets
<1>4. CASE UNCHANGED allVars
  BY <1>1, <1>4 DEF allVars, edgeVars, vars, EdgeInv, PurgeSets, SendingOK, EntriesOK, PurgesOK,
                    Clean, StaleEntry
<1> QED
  BY <1>1, <1>2, <1>3, <1>4, CallInv, KeepInv, TakeInv, EdgeAlarmInv, EdgeTickInv DEF EdgeNext

LEMMA EdgeAlways == EdgeSpec => []EdgeInv
BY EdgeInvInit, EdgeInvNext, PTL DEF EdgeSpec

\* The read path with a cache in front of it is a deduplication: whatever holds
\* of every behaviour of RequestDedup holds here.
THEOREM EdgeIsDedup == EdgeSpec => Spec
BY EdgeDedupInit, EdgeStep, PTL DEF EdgeSpec, Spec

\* Behind the cache too, and with purges cut off between the record and the
\* entry, the right to execute a hash is one lease for PENDING_TTL.
THEOREM EdgeKeepsLease == EdgeSpec => LeaseSpec
BY EdgeIsDedup, ImplementsLease

\* The types of the cache, of what is on its way to it, and of the purges.
THEOREM EdgeTypeCorrect == EdgeSpec => []EdgeTypeOK
<1>1. EdgeInv => EdgeTypeOK
  BY DEF EdgeInv, EdgeTypeOK, DedupInv, TypeOK, PurgeSets, EntriesOK
<1> QED BY <1>1, EdgeAlways, PTL

\* The cache serves results only, and none older than the sum of the two TTLs
\* and one report, whoever wrote the entry, however often the record behind it
\* was taken over, and whatever was purged in between.
THEOREM CacheIsYoung == EdgeSpec => []CachedAnswers
<1>1. EdgeInv => CachedAnswers
  <2> SUFFICES ASSUME EdgeInv, NEW k \in Keys, NEW u \in Urls, edge[k][u].there
               PROVE  /\ edge[k][u].outcome.kind = "result"
                      /\ edge[k][u].age + edge[k][u].outcome.age < EdgeTtl + ResultTtl + ReportDelay
    BY DEF CachedAnswers
  <2>1. edge[k][u] \in Entry \cup {NoEntry} /\ Servable(edge[k][u].outcome)
    BY DEF EdgeInv, EntriesOK
  <2>2. edge[k][u].age \in 0..EdgeTtl - 1
    <3>1. edge[k][u] \in Entry BY <2>1 DEF NoEntry
    <3> QED BY <3>1 DEF Entry
  <2>3. edge[k][u].outcome.age \in Nat BY <2>1, CapIsNat DEF Servable, Outcome
  <2> QED BY <2>1, <2>2, <2>3, EdgeAssumption, TtlAssumption DEF Servable
<1> QED BY <1>1, EdgeAlways, PTL

\* A purge whose record was deleted when nobody was answering for the hash holds,
\* for the record and for the URL of a compressed GET: what upstream produced
\* before it comes back to neither.  An entry under /api/v1/cached is left alone.
THEOREM PurgedStaysPurged == EdgeSpec => []PurgeHolds
<1>1. EdgeInv => PurgeHolds BY DEF EdgeInv, PurgesOK, Clean, PurgeHolds
<1> QED BY <1>1, EdgeAlways, PTL
=============================================================================
