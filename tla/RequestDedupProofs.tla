------------------------- MODULE RequestDedupProofs -------------------------
(***************************************************************************)
(* Theorems about RequestDedup, for every set of calls and hashes, every   *)
(* TTL, every combination of faults, with or without purges and evictions. *)
(***************************************************************************)
EXTENDS RequestDedup, TLAPS

LEMMA CapIsNat == OutcomeCap \in Nat /\ OutcomeCap >= 1
BY TtlAssumption DEF OutcomeCap

LEMMA OutcomeAges ==
  ASSUME NEW o \in Outcome
  PROVE  /\ OlderOutcome(o) \in Outcome
         /\ OlderOutcome(o).kind = o.kind
         /\ OlderOutcome(o).age <= o.age + 1
         /\ OlderOutcome(o).age <= OutcomeCap
<1>1. o.kind # "none" /\ o.age \in 0..OutcomeCap
  BY DEF Outcome
<1>2. Older(o.age, OutcomeCap) \in 0..OutcomeCap
      /\ Older(o.age, OutcomeCap) <= o.age + 1
  BY <1>1, CapIsNat DEF Older
<1>3. OlderOutcome(o) = [o EXCEPT !.age = Older(o.age, OutcomeCap)]
  BY <1>1 DEF OlderOutcome
<1> QED BY <1>2, <1>3, CapIsNat DEF Outcome

LEMMA NoOutcomeFacts == /\ OlderOutcome(NoOutcome) = NoOutcome
                        /\ NoOutcome.kind = "none"
                        /\ NoOutcome \notin Outcome
BY DEF Outcome, NoOutcome, OlderOutcome

LEMMA FreshOutcome ==
  ASSUME NEW kind \in {"result", "error"}
  PROVE  /\ Fresh(kind) \in Outcome
         /\ Fresh(kind).kind = kind
         /\ Fresh(kind).age = 0
BY CapIsNat DEF Outcome, Fresh

LEMMA StaleOutcome ==
  ASSUME NEW o \in Outcome
  PROVE  /\ [o EXCEPT !.stale = TRUE] \in Outcome
         /\ [o EXCEPT !.stale = TRUE].age = o.age
         /\ [o EXCEPT !.stale = TRUE].kind = o.kind
BY DEF Outcome

LEMMA PendingFacts ==
  ASSUME NEW r \in Pending
  PROVE  /\ OlderRow(r) \in Pending
         /\ OlderRow(r).age = Older(r.age, PendingTtl + 1)
         /\ OlderRow(r).status = "pending"
<1>1. r.status = "pending" /\ r.outcome = NoOutcome /\ r.age \in 0..PendingTtl + 1
  BY DEF Pending
<1>2. Older(r.age, PendingTtl + 1) \in 0..PendingTtl + 1
  BY <1>1, TtlAssumption DEF Older
<1>3. OlderRow(r) = [r EXCEPT !.age = Older(r.age, PendingTtl + 1),
                              !.outcome = NoOutcome]
  BY <1>1, NoOutcomeFacts DEF OlderRow, Ttl
<1> QED BY <1>1, <1>2, <1>3 DEF Pending

LEMMA SettledFacts ==
  ASSUME NEW r \in Settled
  PROVE  /\ OlderRow(r) \in Settled
         /\ OlderRow(r).age = Older(r.age, ResultTtl + 1)
         /\ OlderRow(r).outcome = OlderOutcome(r.outcome)
         /\ OlderRow(r).status = r.status
<1>1. /\ r.status \in {"completed", "failed"}
      /\ r.outcome \in Outcome
      /\ r.age \in 0..ResultTtl + 1
  BY DEF Settled
<1>2. Older(r.age, ResultTtl + 1) \in 0..ResultTtl + 1
  BY <1>1, TtlAssumption DEF Older
<1>3. OlderOutcome(r.outcome) \in Outcome
  BY <1>1, OutcomeAges
<1>4. OlderRow(r) = [r EXCEPT !.age = Older(r.age, ResultTtl + 1),
                              !.outcome = OlderOutcome(r.outcome)]
  BY <1>1 DEF OlderRow, Ttl
<1> QED BY <1>1, <1>2, <1>3, <1>4 DEF Settled

LEMMA AbsentFacts == OlderRow(Absent) = Absent /\ Absent.status = "absent"
BY DEF OlderRow, Absent

LEMMA NewRows ==
  /\ NewPending \in Pending
  /\ \A o \in Outcome : SettledWith(o) \in Settled
BY TtlAssumption DEF NewPending, Pending, SettledWith, Settled

\* What a record of the table is, by its status.
LEMMA RowCases ==
  ASSUME ProxyStateTypeOK, NEW k \in Keys
  PROVE  /\ row[k].status = "pending" <=> row[k] \in Pending
         /\ row[k].status \in {"completed", "failed"} <=> row[k] \in Settled
         /\ row[k].status = "absent" <=> row[k] = Absent
         /\ row[k] \in Pending \/ row[k] \in Settled \/ row[k] = Absent
BY DEF ProxyStateTypeOK, Pending, Settled, Absent

-----------------------------------------------------------------------------
(***************************************************************************)
(* The operations of the table.                                            *)
(***************************************************************************)
LEMMA RegisterTypes ==
  ASSUME ProxyStateTypeOK, NEW k \in Keys, Register(k)
  PROVE  ProxyStateTypeOK'
BY NewRows DEF ProxyStateTypeOK, Register

LEMMA SettleTypes ==
  ASSUME ProxyStateTypeOK, NEW k \in Keys, NEW o \in Outcome, Settle(k, o)
  PROVE  ProxyStateTypeOK'
BY NewRows DEF ProxyStateTypeOK, Settle

LEMMA DeleteTypes ==
  ASSUME ProxyStateTypeOK, NEW ks, Delete(ks)
  PROVE  ProxyStateTypeOK'
BY DEF ProxyStateTypeOK, Delete

LEMMA AgeTypes ==
  ASSUME ProxyStateTypeOK, AgeRows
  PROVE  ProxyStateTypeOK'
<1> SUFFICES ASSUME NEW k \in Keys
             PROVE  OlderRow(row[k]) \in Pending \cup Settled \cup {Absent}
  BY DEF AgeRows, ProxyStateTypeOK
<1>1. CASE row[k] \in Pending BY <1>1, PendingFacts
<1>2. CASE row[k] \in Settled BY <1>2, SettledFacts
<1>3. CASE row[k] = Absent BY <1>3, AbsentFacts
<1> QED BY <1>1, <1>2, <1>3, RowCases

-----------------------------------------------------------------------------
\* The outcome a visible settled record hands out is a real one.
LEMMA ServedOutcome ==
  ASSUME ProxyStateTypeOK, NEW k \in Keys, VisibleSettled(k)
  PROVE  row[k].outcome \in Outcome
BY RowCases DEF VisibleSettled, Visible, Stored, Settled, Absent

LEMMA TypeInit == Init => TypeOK
BY TtlAssumption
   DEF Init, ProxyStateInit, TypeOK, DedupTypeOK, ProxyStateTypeOK, Ended, Losses

LEMMA TypeNext ==
  ASSUME TypeOK, CallPhases, [Next]_vars
  PROVE  TypeOK'
<1> USE TtlAssumption, DedupAssumption
<1> DEFINE Phase == Waiting \cup Flying \cup Ended
<1>0. /\ ProxyStateTypeOK
      /\ pc \in [Calls -> Phase]
      /\ key \in [Calls -> Keys]
      /\ outcome \in [Calls -> Outcome \cup {NoOutcome}]
      /\ elapsed \in [Calls -> 0..PendingTtl]
      /\ stats \in [Calls -> 0..2]
      /\ lost \in [Calls -> Losses]
  BY DEF TypeOK, DedupTypeOK
<1>r. \A c \in Calls : pc[c] \in Reporting => outcome[c] \in Outcome
  BY <1>0, NoOutcomeFacts DEF CallPhases, Reporting
<1> SUFFICES /\ ProxyStateTypeOK'
             /\ pc' \in [Calls -> Phase]
             /\ key' \in [Calls -> Keys]
             /\ outcome' \in [Calls -> Outcome \cup {NoOutcome}]
             /\ elapsed' \in [Calls -> 0..PendingTtl]
             /\ stats' \in [Calls -> 0..2]
             /\ lost' \in [Calls -> Losses]
  BY DEF TypeOK, DedupTypeOK
<1>s. ASSUME NEW c \in Calls, NEW own \in Losses, pc[c] \in Reporting,
             Store(c, own) \/ NotStored(c, own)
      PROVE  ProxyStateTypeOK' /\ lost' \in [Calls -> Losses]
  <2>1. CASE Store(c, own)
    <3>1. ProxyStateTypeOK' BY <1>0, <1>r, <1>s, <2>1, SettleTypes DEF Store
    <3>2. lost' \in [Calls -> Losses] BY <1>0, <2>1 DEF Store, Losses
    <3> QED BY <3>1, <3>2
  <2>2. CASE NotStored(c, own)
    BY <1>0, <2>2 DEF NotStored, ProxyStateTypeOK
  <2> QED BY <1>s, <2>1, <2>2
<1>1. ASSUME NEW c \in Calls, NEW k \in Keys, ServeRecord(c, k)
      PROVE  TypeOK'
  <2>1. Enter(c, k, "hit", row[k].outcome, 1, "no") /\ row' = row
        /\ row[k].outcome \in Outcome
    BY <1>0, <1>1, ServedOutcome DEF ServeRecord
  <2> QED BY <1>0, <2>1 DEF Enter, Ended, Losses, ProxyStateTypeOK, TypeOK, DedupTypeOK
<1>2. ASSUME NEW c \in Calls, NEW k \in Keys, Join(c, k)
      PROVE  TypeOK'
  <2>1. Enter(c, k, "sleeping", NoOutcome, 0, "no") /\ row' = row
    BY <1>2 DEF Join
  <2> QED BY <1>0, <2>1 DEF Enter, Waiting, Losses, ProxyStateTypeOK, TypeOK, DedupTypeOK
<1>3. ASSUME NEW c \in Calls, NEW k \in Keys, Lead(c, k)
      PROVE  TypeOK'
  <2>1. Enter(c, k, "executing", NoOutcome, 0, "no") /\ ProxyStateTypeOK'
    BY <1>0, <1>3, RegisterTypes DEF Lead
  <2> QED BY <1>0, <2>1 DEF Enter, Flying, Losses, TypeOK, DedupTypeOK
<1>4. ASSUME NEW c \in Calls, NEW k \in Keys, CheckError(c, k)
      PROVE  TypeOK'
  <2>1. Enter(c, k, "executing", NoOutcome, 0, "unregistered") /\ row' = row
    BY <1>4 DEF CheckError
  <2> QED BY <1>0, <2>1 DEF Enter, Flying, Losses, ProxyStateTypeOK, TypeOK, DedupTypeOK
<1>5. ASSUME NEW c \in Calls, NEW k \in Keys, CheckReject(c, k)
      PROVE  TypeOK'
  <2>1. Enter(c, k, "broken", NoOutcome, 0, "no")
    BY <1>5 DEF CheckReject
  <2>2. ProxyStateTypeOK'
    BY <1>0, <1>5, RegisterTypes DEF CheckReject, ProxyStateTypeOK
  <2> QED BY <1>0, <2>1, <2>2 DEF Enter, Ended, Losses, TypeOK, DedupTypeOK
<1>6. ASSUME NEW c \in Calls, Poll(c)
      PROVE  TypeOK'
  <2>1. stats[c] = 0 /\ key[c] \in Keys
    BY <1>0, <1>6 DEF Poll, CallPhases, Waiting
  <2>2. VisibleSettled(key[c]) => row[key[c]].outcome \in Outcome
    BY <1>0, <2>1, ServedOutcome
  <2>3. row' = row /\ key' = key /\ lost' = lost
    BY <1>6 DEF Poll
  <2>4. pc' \in [Calls -> Phase] /\ elapsed' \in [Calls -> 0..PendingTtl]
    BY <1>0, <1>6 DEF Poll, End, Ended, Waiting
  <2>5. outcome' \in [Calls -> Outcome \cup {NoOutcome}] /\ stats' \in [Calls -> 0..2]
    BY <1>0, <1>6, <2>1, <2>2 DEF Poll, Observe
  <2> QED BY <1>0, <2>3, <2>4, <2>5 DEF ProxyStateTypeOK, TypeOK, DedupTypeOK
<1>7. ASSUME NEW c \in Calls, LoopAgain(c)
      PROVE  TypeOK'
  BY <1>0, <1>7 DEF LoopAgain, Waiting, ProxyStateTypeOK, TypeOK, DedupTypeOK
<1>8. ASSUME NEW c \in Calls, Timeout(c)
      PROVE  TypeOK'
  <2>1. stats[c] = 0
    BY <1>8 DEF Timeout, CallPhases, Waiting
  <2> QED BY <1>0, <1>8, <2>1
          DEF Timeout, End, Observe, Ended, ProxyStateTypeOK, TypeOK, DedupTypeOK
<1>9. ASSUME NEW c \in Calls, Answer(c)
      PROVE  TypeOK'
  <2>1. stats[c] = 0
    BY <1>9 DEF Answer, CallPhases
  <2>2. PICK kind \in {"result", "error"} :
          /\ outcome' = [outcome EXCEPT ![c] = Fresh(kind)]
          /\ pc' = [pc EXCEPT ![c] = IF kind = "result" THEN "completing"
                                                        ELSE "failing"]
    BY <1>9 DEF Answer
  <2>3. outcome' \in [Calls -> Outcome \cup {NoOutcome}]
    BY <1>0, <2>2, FreshOutcome
  <2>4. pc' \in [Calls -> Phase]
    BY <1>0, <2>2 DEF Flying, Reporting
  <2> QED BY <1>0, <1>9, <2>1, <2>3, <2>4
          DEF Answer, Observe, ProxyStateTypeOK, TypeOK, DedupTypeOK
<1>10. ASSUME NEW c \in Calls, Complete(c)
       PROVE  TypeOK'
  <2>1. ProxyStateTypeOK' /\ lost' \in [Calls -> Losses]
    BY <1>10, <1>s DEF Complete, Reporting, Losses
  <2>2. pc' \in [Calls -> Phase] /\ elapsed' \in [Calls -> 0..PendingTtl]
    BY <1>0, <1>10 DEF Complete, End, Ended
  <2>3. key' = key /\ outcome' = outcome /\ stats' = stats
    BY <1>10 DEF Complete
  <2> QED BY <1>0, <2>1, <2>2, <2>3 DEF TypeOK, DedupTypeOK
<1>11. ASSUME NEW c \in Calls, CompleteReject(c)
       PROVE  TypeOK'
  <2>1. stats[c] = 1
    BY <1>11 DEF CompleteReject, CallPhases
  <2>2. ProxyStateTypeOK' /\ lost' \in [Calls -> Losses]
    BY <1>0, <1>11, <1>s DEF CompleteReject, Reporting, Losses
  <2>3. outcome' \in [Calls -> Outcome \cup {NoOutcome}]
    BY <1>0, <1>11, FreshOutcome DEF CompleteReject
  <2> QED BY <1>0, <1>11, <2>1, <2>2, <2>3
          DEF CompleteReject, Observe, Flying, Reporting, TypeOK, DedupTypeOK
<1>12. ASSUME NEW c \in Calls, Fail(c)
       PROVE  TypeOK'
  <2>1. ProxyStateTypeOK' /\ lost' \in [Calls -> Losses]
    BY <1>12, <1>s DEF Fail, Reporting, Losses
  <2> QED BY <1>0, <1>12, <2>1 DEF Fail, End, Ended, TypeOK, DedupTypeOK
<1>13. ASSUME NEW c \in Calls, Evict(c)
       PROVE  TypeOK'
  <2>1. Enter(c, key[c], "idle", NoOutcome, 0, "no") /\ row' = row
    BY <1>13 DEF Evict
  <2> QED BY <1>0, <2>1 DEF Enter, Ended, Losses, ProxyStateTypeOK, TypeOK, DedupTypeOK
<1>14. ASSUME NEW ks, Purge(ks)
       PROVE  TypeOK'
  <2>1. ProxyStateTypeOK'
    BY <1>0, <1>14, DeleteTypes DEF Purge
  <2>2. outcome' \in [Calls -> Outcome \cup {NoOutcome}]
    BY <1>0, <1>r, <1>14, StaleOutcome DEF Purge
  <2>3. lost' \in [Calls -> Losses]
    BY <1>0, <1>14 DEF Purge, Losses
  <2> QED BY <1>0, <1>14, <2>1, <2>2, <2>3 DEF Purge, TypeOK, DedupTypeOK
<1>15. ASSUME Alarm PROVE TypeOK'
  <2>1. ProxyStateTypeOK'
    BY <1>0, <1>15, DeleteTypes DEF Alarm, Cleanup
  <2> QED BY <1>0, <1>15, <2>1 DEF Alarm, TypeOK, DedupTypeOK
<1>16. ASSUME Tick PROVE TypeOK'
  <2>1. ProxyStateTypeOK'
    BY <1>0, <1>16, AgeTypes DEF Tick
  <2>2. outcome' \in [Calls -> Outcome \cup {NoOutcome}]
    BY <1>0, <1>r, <1>16, OutcomeAges DEF Tick
  <2>3. elapsed' \in [Calls -> 0..PendingTtl]
    BY <1>0, <1>16 DEF Tick, Older
  <2> QED BY <1>0, <1>16, <2>1, <2>2, <2>3 DEF Tick, TypeOK, DedupTypeOK
<1>17. ASSUME UNCHANGED vars PROVE TypeOK'
  BY <1>0, <1>17 DEF vars, ProxyStateTypeOK, TypeOK, DedupTypeOK
<1> QED
  BY <1>0, <1>1, <1>2, <1>3, <1>4, <1>5, <1>6, <1>7, <1>8, <1>9, <1>10, <1>11, <1>12,
     <1>13, <1>14, <1>15, <1>16, <1>17
  DEF Next, CallNext, Begin, Report, PurgeOne, PurgeAll, TypeOK, DedupTypeOK

-----------------------------------------------------------------------------
(***************************************************************************)
(* The inductive invariant.                                                *)
(***************************************************************************)
LEMMA InvInit == Init => DedupInv
<1> SUFFICES ASSUME Init PROVE DedupInv
  OBVIOUS
<1>1. TypeOK BY TypeInit
<1>2. \A c \in Calls : pc[c] = "idle" BY DEF Init
<1>3. \A k \in Keys : row[k].status = "absent"
  BY DEF Init, ProxyStateInit, Absent
<1>4. SingleFlight /\ RecordOfHolder
  BY <1>2 DEF SingleFlight, RecordOfHolder, Registered, Holds, Flying, Reporting
<1>5. RecordsFresh BY <1>3 DEF RecordsFresh
<1>6. CallPhases BY <1>2 DEF CallPhases, Waiting, Reporting
<1>7. ServedFresh /\ Observed BY <1>2 DEF ServedFresh, Observed
<1> QED BY <1>1, <1>4, <1>5, <1>6, <1>7 DEF DedupInv

\* A hash under which a call holds its registration is visible as pending.
LEMMA HolderVisible ==
  ASSUME TypeOK, RecordOfHolder, NEW c \in Calls, Registered(c)
  PROVE  VisiblePending(key[c]) /\ ~ Expired(key[c])
<1>1. row[key[c]].status = "pending" /\ row[key[c]].age = elapsed[c]
  BY DEF RecordOfHolder
<1>2. elapsed[c] \in 0..PendingTtl /\ elapsed[c] < PendingTtl
  BY DEF Registered, TypeOK, DedupTypeOK
<1> QED BY <1>1, <1>2, TtlAssumption
        DEF VisiblePending, Visible, Stored, Expired, Ttl

\* What every step but Lead and Tick does to the registrations that survive it.
Unmoved(d) == Registered(d)' => /\ Registered(d)
                                /\ key'[d] = key[d]
                                /\ elapsed'[d] = elapsed[d]
                                /\ row'[key[d]] = row[key[d]]

LEMMA UnmovedKeeps ==
  ASSUME SingleFlight, RecordOfHolder, \A d \in Calls : Unmoved(d)
  PROVE  SingleFlight' /\ RecordOfHolder'
<1>1. SingleFlight' BY DEF SingleFlight, Unmoved
<1>2. RecordOfHolder' BY DEF RecordOfHolder, Unmoved
<1> QED BY <1>1, <1>2

LEMMA EnterUnmoved ==
  ASSUME TypeOK, NEW c \in Calls, NEW k \in Keys, NEW to, NEW o, NEW n, NEW l,
         Enter(c, k, to, o, n, l), to \notin Flying \/ l # "no",
         NEW d \in Calls
  PROVE  Registered(d)' => /\ Registered(d)
                           /\ key'[d] = key[d]
                           /\ elapsed'[d] = elapsed[d]
<1>1. CASE d = c
  <2>1. pc'[c] = to /\ lost'[c] = l
    BY DEF Enter, TypeOK, DedupTypeOK
  <2> QED BY <1>1, <2>1 DEF Registered, Holds
<1>2. CASE d # c
  <2>1. /\ pc'[d] = pc[d] /\ key'[d] = key[d]
        /\ elapsed'[d] = elapsed[d] /\ lost'[d] = lost[d]
    BY <1>2 DEF Enter, TypeOK, DedupTypeOK
  <2> QED BY <2>1 DEF Registered, Holds
<1> QED BY <1>1, <1>2

LEMMA RegisterSpares ==
  ASSUME TypeOK, RecordOfHolder, NEW k \in Keys, Register(k),
         NEW d \in Calls, Registered(d)
  PROVE  key[d] # k /\ row'[key[d]] = row[key[d]]
<1>1. key[d] \in Keys BY DEF TypeOK, DedupTypeOK
<1>2. Visible(key[d]) BY HolderVisible DEF VisiblePending
<1> QED BY <1>1, <1>2 DEF Register, TypeOK, DedupTypeOK, ProxyStateTypeOK

\* A report leaves the registrations under other hashes, and takes away those
\* under its own.
LEMMA StoreSpares ==
  ASSUME TypeOK, NEW c \in Calls, NEW own, Store(c, own) \/ NotStored(c, own),
         NEW d \in Calls, d # c, pc'[d] = pc[d], elapsed'[d] = elapsed[d]
  PROVE  Registered(d)' => Registered(d) /\ row'[key[d]] = row[key[d]]
<1>1. key[d] \in Keys /\ key[c] \in Keys BY DEF TypeOK, DedupTypeOK
<1>2. CASE NotStored(c, own)
  <2>1. lost'[d] = lost[d] /\ row' = row
    BY <1>2 DEF NotStored, TypeOK, DedupTypeOK
  <2> QED BY <2>1 DEF Registered, Holds
<1>3. CASE Store(c, own)
  <2>1. lost'[d] = IF Stored(key[c]) /\ key[d] = key[c] /\ Holds(d)
                   THEN "usurped" ELSE lost[d]
    BY <1>3 DEF Store
  <2>2. Registered(d)' => Holds(d) /\ ~ (Stored(key[c]) /\ key[d] = key[c])
    BY <2>1 DEF Registered, Holds
  <2>3. ~ (Stored(key[c]) /\ key[d] = key[c]) => row'[key[d]] = row[key[d]]
    BY <1>1, <1>3 DEF Store, Settle, TypeOK, DedupTypeOK, ProxyStateTypeOK
  <2> QED BY <2>2, <2>3 DEF Registered
<1> QED BY <1>2, <1>3

\* Only Lead creates a registration, and only under a hash where nobody holds
\* one; every other step leaves the surviving ones as they are.
LEMMA RegistrationNext ==
  ASSUME TypeOK, CallPhases, SingleFlight, RecordOfHolder, [Next]_vars
  PROVE  SingleFlight' /\ RecordOfHolder'
<1> USE DEF Waiting, Flying, Reporting, Ended
<1>0. /\ pc \in [Calls -> Waiting \cup Flying \cup Ended]
      /\ key \in [Calls -> Keys]
      /\ elapsed \in [Calls -> 0..PendingTtl]
      /\ lost \in [Calls -> Losses]
  BY DEF TypeOK, DedupTypeOK
<1>1. ASSUME NEW c \in Calls, NEW k \in Keys,
             ServeRecord(c, k) \/ Join(c, k) \/ CheckError(c, k) \/ CheckReject(c, k)
      PROVE  \A d \in Calls : Unmoved(d)
  <2> SUFFICES ASSUME NEW d \in Calls, Registered(d)' PROVE Unmoved(d)
    BY DEF Unmoved
  <2>1. Registered(d) /\ key'[d] = key[d] /\ elapsed'[d] = elapsed[d]
    BY <1>1, EnterUnmoved DEF ServeRecord, Join, CheckError, CheckReject
  <2>2. row'[key[d]] = row[key[d]]
    BY <1>1, <2>1, RegisterSpares DEF ServeRecord, Join, CheckError, CheckReject
  <2> QED BY <2>1, <2>2 DEF Unmoved
<1>2. ASSUME NEW c \in Calls, NEW k \in Keys, Lead(c, k)
      PROVE  SingleFlight' /\ RecordOfHolder'
  <2>1. /\ row'[k] = NewPending /\ key'[c] = k /\ elapsed'[c] = 0
    BY <1>0, <1>2 DEF Lead, Register, Enter, TypeOK, DedupTypeOK, ProxyStateTypeOK
  <2>2. ASSUME NEW d \in Calls, d # c, Registered(d)'
        PROVE  /\ Registered(d) /\ key'[d] = key[d] /\ elapsed'[d] = elapsed[d]
               /\ key[d] # k /\ row'[key[d]] = row[key[d]]
    <3>1. /\ pc'[d] = pc[d] /\ key'[d] = key[d]
          /\ elapsed'[d] = elapsed[d] /\ lost'[d] = lost[d]
      BY <1>0, <1>2, <2>2 DEF Lead, Enter
    <3>2. Registered(d) BY <2>2, <3>1 DEF Registered, Holds
    <3> QED BY <1>2, <3>1, <3>2, RegisterSpares DEF Lead
  <2>3. SingleFlight' BY <2>1, <2>2 DEF SingleFlight
  <2>4. RecordOfHolder' BY <2>1, <2>2 DEF RecordOfHolder, NewPending
  <2> QED BY <2>3, <2>4
<1>3. ASSUME NEW c \in Calls, Poll(c) \/ LoopAgain(c) \/ Timeout(c)
      PROVE  \A d \in Calls : Unmoved(d)
  <2>1. /\ row' = row /\ key' = key /\ lost' = lost
        /\ pc[c] \in Waiting /\ pc'[c] \notin Flying
        /\ \A d \in Calls \ {c} : pc'[d] = pc[d] /\ elapsed'[d] = elapsed[d]
    BY <1>0, <1>3 DEF Poll, LoopAgain, Timeout, End
  <2> QED BY <2>1 DEF Unmoved, Registered, Holds
<1>4. ASSUME NEW c \in Calls, Answer(c)
      PROVE  \A d \in Calls : Unmoved(d)
  <2>1. /\ row' = row /\ key' = key /\ lost' = lost /\ elapsed' = elapsed
        /\ pc[c] \in Flying
        /\ \A d \in Calls \ {c} : pc'[d] = pc[d]
    BY <1>0, <1>4 DEF Answer
  <2> QED BY <2>1 DEF Unmoved, Registered, Holds
<1>5. ASSUME NEW c \in Calls, Complete(c) \/ Fail(c)
      PROVE  \A d \in Calls : Unmoved(d)
  <2>1. /\ key' = key /\ pc'[c] \notin Flying
        /\ \A d \in Calls \ {c} : pc'[d] = pc[d] /\ elapsed'[d] = elapsed[d]
        /\ Store(c, "no") \/ NotStored(c, "no")
    BY <1>0, <1>5 DEF Complete, Fail, End
  <2>2. ~ Registered(c)' BY <2>1 DEF Registered, Holds
  <2> QED BY <2>1, <2>2, StoreSpares DEF Unmoved
<1>6. ASSUME NEW c \in Calls, CompleteReject(c)
      PROVE  \A d \in Calls : Unmoved(d)
  <2>1. /\ key' = key /\ elapsed' = elapsed /\ pc[c] \in Flying
        /\ \A d \in Calls \ {c} : pc'[d] = pc[d]
        /\ \/ Store(c, IF lost[c] = "no" THEN "reported" ELSE lost[c])
           \/ NotStored(c, lost[c])
    BY <1>0, <1>6 DEF CompleteReject
  <2>2. \A d \in Calls \ {c} : Unmoved(d)
    BY <2>1, StoreSpares DEF Unmoved
  <2>3. CASE Store(c, IF lost[c] = "no" THEN "reported" ELSE lost[c])
    <3>1. lost'[c] # "no" BY <2>3 DEF Store
    <3> QED BY <2>2, <3>1 DEF Unmoved, Registered, Holds
  <2>4. CASE NotStored(c, lost[c])
    <3>1. lost'[c] = lost[c] /\ row' = row BY <1>0, <2>4 DEF NotStored
    <3> QED BY <2>1, <2>2, <3>1 DEF Unmoved, Registered, Holds
  <2> QED BY <2>1, <2>3, <2>4
<1>7. ASSUME NEW c \in Calls, Evict(c)
      PROVE  \A d \in Calls : Unmoved(d)
  <2>1. Enter(c, key[c], "idle", NoOutcome, 0, "no") /\ row' = row /\ key[c] \in Keys
    BY <1>0, <1>7 DEF Evict
  <2> QED BY <2>1, EnterUnmoved DEF Unmoved
<1>8. ASSUME NEW ks, Purge(ks)
      PROVE  \A d \in Calls : Unmoved(d)
  <2> SUFFICES ASSUME NEW d \in Calls, Registered(d)' PROVE Unmoved(d)
    BY DEF Unmoved
  <2>1. /\ pc' = pc /\ key' = key /\ elapsed' = elapsed
        /\ lost'[d] = IF key[d] \in ks /\ Holds(d) THEN "purged" ELSE lost[d]
    BY <1>8 DEF Purge
  <2>2. Registered(d) /\ key[d] \notin ks
    BY <2>1 DEF Registered, Holds
  <2>3. row'[key[d]] = row[key[d]]
    BY <1>0, <1>8, <2>2 DEF Purge, Delete
  <2> QED BY <2>1, <2>2, <2>3 DEF Unmoved
<1>9. ASSUME Alarm PROVE \A d \in Calls : Unmoved(d)
  <2> SUFFICES ASSUME NEW d \in Calls, Registered(d)' PROVE Unmoved(d)
    BY DEF Unmoved
  <2>1. pc' = pc /\ key' = key /\ elapsed' = elapsed /\ lost' = lost
    BY <1>9 DEF Alarm
  <2>2. Registered(d) BY <2>1 DEF Registered, Holds
  <2>3. ~ Expired(key[d]) BY <2>2, HolderVisible
  <2>4. row'[key[d]] = row[key[d]]
    BY <1>0, <1>9, <2>3 DEF Alarm, Cleanup, Delete
  <2> QED BY <2>1, <2>2, <2>4 DEF Unmoved
<1>10. ASSUME Tick PROVE SingleFlight' /\ RecordOfHolder'
  <2>1. pc' = pc /\ key' = key /\ lost' = lost
    BY <1>10 DEF Tick
  <2>2. ASSUME NEW d \in Calls, Registered(d)'
        PROVE  Registered(d) /\ elapsed'[d] = elapsed[d] + 1
    <3>1. pc[d] \in Flying /\ lost[d] = "no" /\ elapsed'[d] < PendingTtl
      BY <2>1, <2>2 DEF Registered, Holds
    <3>2. elapsed'[d] = Older(elapsed[d], PendingTtl)
      BY <1>10, <3>1 DEF Tick
    <3>3. elapsed[d] \in 0..PendingTtl BY <1>0
    <3> QED BY <3>1, <3>2, <3>3, TtlAssumption DEF Older, Registered, Holds
  <2>3. SingleFlight' BY <2>1, <2>2 DEF SingleFlight
  <2>4. ASSUME NEW d \in Calls, Registered(d)'
        PROVE  row'[key[d]].status = "pending" /\ row'[key[d]].age = elapsed'[d]
    <3>1. /\ row[key[d]].status = "pending" /\ row[key[d]].age = elapsed[d]
          /\ elapsed'[d] = elapsed[d] + 1 /\ key[d] \in Keys
      BY <1>0, <2>2, <2>4 DEF RecordOfHolder
    <3>2. row[key[d]] \in Pending
      BY <3>1, RowCases DEF TypeOK, DedupTypeOK
    <3>3. row'[key[d]] = OlderRow(row[key[d]])
      BY <1>10, <3>1 DEF Tick, AgeRows
    <3>4. elapsed[d] \in 0..PendingTtl BY <1>0
    <3> QED BY <3>1, <3>2, <3>3, <3>4, PendingFacts, TtlAssumption DEF Older
  <2> QED BY <2>1, <2>3, <2>4 DEF RecordOfHolder
<1>11. ASSUME UNCHANGED vars PROVE \A d \in Calls : Unmoved(d)
  BY <1>11 DEF vars, Unmoved, Registered, Holds
<1> QED
  BY <1>1, <1>2, <1>3, <1>4, <1>5, <1>6, <1>7, <1>8, <1>9, <1>10, <1>11, UnmovedKeeps
  DEF Next, CallNext, Begin, Report, PurgeOne, PurgeAll

-----------------------------------------------------------------------------
\* Records become settled only by a report, whose outcome is one report old.
LEMMA RecordsFreshNext ==
  ASSUME TypeOK, CallPhases, RecordsFresh, [Next]_vars
  PROVE  RecordsFresh'
<1>0. ProxyStateTypeOK /\ key \in [Calls -> Keys]
  BY DEF TypeOK, DedupTypeOK
<1>1. ASSUME UNCHANGED row PROVE RecordsFresh'
  BY <1>1 DEF RecordsFresh
<1>2. ASSUME NEW k \in Keys, Register(k) PROVE RecordsFresh'
  BY <1>0, <1>2 DEF RecordsFresh, Register, NewPending, ProxyStateTypeOK
<1>3. ASSUME NEW ks, Delete(ks) PROVE RecordsFresh'
  BY <1>0, <1>3 DEF RecordsFresh, Delete, Absent, ProxyStateTypeOK
<1>4. ASSUME NEW c \in Calls, pc[c] \in Reporting, Settle(key[c], outcome[c])
      PROVE  RecordsFresh'
  <2>1. outcome[c].age <= ReportDelay BY <1>4 DEF CallPhases
  <2>2. CASE ~ Stored(key[c]) BY <1>1, <1>4, <2>2 DEF Settle
  <2>3. CASE Stored(key[c])
    <3> SUFFICES ASSUME NEW k \in Keys, row'[k].status \in {"completed", "failed"}
                 PROVE  row'[k].outcome.age <= row'[k].age + ReportDelay
      BY DEF RecordsFresh
    <3>1. CASE k = key[c]
      <4>1. row'[k] = SettledWith(outcome[c])
        BY <1>0, <1>4, <2>3, <3>1 DEF Settle, ProxyStateTypeOK
      <4> QED BY <2>1, <4>1, TtlAssumption DEF SettledWith
    <3>2. CASE k # key[c]
      <4>1. row'[k] = row[k]
        BY <1>0, <1>4, <2>3, <3>2 DEF Settle, ProxyStateTypeOK
      <4> QED BY <4>1 DEF RecordsFresh
    <3> QED BY <3>1, <3>2
  <2> QED BY <2>2, <2>3
<1>5. ASSUME AgeRows PROVE RecordsFresh'
  <2> SUFFICES ASSUME NEW k \in Keys, row'[k].status \in {"completed", "failed"}
               PROVE  row'[k].outcome.age <= row'[k].age + ReportDelay
    BY DEF RecordsFresh
  <2>1. row'[k] = OlderRow(row[k]) BY <1>5 DEF AgeRows
  <2>2. row[k] \in Settled
    BY <1>0, <2>1, RowCases, PendingFacts, AbsentFacts
  <2>3. /\ row'[k].age = Older(row[k].age, ResultTtl + 1)
        /\ row'[k].outcome = OlderOutcome(row[k].outcome)
    BY <2>1, <2>2, SettledFacts
  <2>4. /\ row[k].age \in 0..ResultTtl + 1
        /\ row[k].outcome \in Outcome
        /\ row[k].status \in {"completed", "failed"}
    BY <2>2 DEF Settled
  <2>5. row[k].outcome.age <= row[k].age + ReportDelay
    BY <2>4 DEF RecordsFresh
  <2>6. /\ row[k].outcome.age \in Nat
        /\ OlderOutcome(row[k].outcome).age \in Nat
        /\ OlderOutcome(row[k].outcome).age <= row[k].outcome.age + 1
        /\ OlderOutcome(row[k].outcome).age <= ResultTtl + ReportDelay
    BY <2>4, OutcomeAges DEF Outcome, OutcomeCap
  <2> QED BY <2>3, <2>4, <2>5, <2>6, TtlAssumption DEF Older
<1>6. ASSUME NEW c \in Calls, NEW own, pc[c] \in Reporting,
             Store(c, own) \/ NotStored(c, own)
      PROVE  RecordsFresh'
  BY <1>1, <1>4, <1>6 DEF Store, NotStored
<1>7. ASSUME NEW c \in Calls, CallNext(c) PROVE RecordsFresh'
  <2>1. CASE Begin(c)
    BY <1>1, <1>2, <2>1
    DEF Begin, ServeRecord, Join, Lead, CheckError, CheckReject
  <2>2. CASE Poll(c) \/ LoopAgain(c) \/ Timeout(c) \/ Answer(c) \/ Evict(c)
    BY <1>1, <2>2 DEF Poll, LoopAgain, Timeout, Answer, Evict
  <2>3. CASE Complete(c) \/ Fail(c)
    BY <1>6, <2>3 DEF Complete, Fail, Reporting
  <2>4. CASE CompleteReject(c)
    BY <1>6, <2>4 DEF CompleteReject, Reporting
  <2> QED BY <1>7, <2>1, <2>2, <2>3, <2>4 DEF CallNext, Report
<1>8. ASSUME NEW ks, Purge(ks) PROVE RecordsFresh'
  BY <1>3, <1>8 DEF Purge
<1>9. CASE Alarm BY <1>3, <1>9 DEF Alarm, Cleanup
<1>10. CASE Tick BY <1>5, <1>10 DEF Tick
<1>11. CASE UNCHANGED vars BY <1>1, <1>11 DEF vars
<1> QED BY <1>7, <1>8, <1>9, <1>10, <1>11 DEF Next, PurgeOne, PurgeAll

-----------------------------------------------------------------------------
\* What CallPhases, ServedFresh and Observed together say of one call.
PhaseOK(p, o, n) ==
  /\ p \in Waiting \cup {"executing"} => n = 0
  /\ p = "completing" => n = 1 /\ o.kind = "result"
  /\ p = "failing" => n \in {1, 2} /\ o.kind = "error"
  /\ p \in Reporting => o.age <= ReportDelay
  /\ p = "hit" => o.age < ResultTtl + ReportDelay
  /\ p \in {"hit", "miss", "timeout"} =>
       n = 1 \/ (n = 2 /\ p = "miss" /\ o.kind = "error")

AllPhasesOK == \A c \in Calls : PhaseOK(pc[c], outcome[c], stats[c])

LEMMA PhasesAre == AllPhasesOK <=> CallPhases /\ ServedFresh /\ Observed
BY DEF AllPhasesOK, PhaseOK, CallPhases, ServedFresh, Observed

LEMMA ServedYoung ==
  ASSUME ProxyStateTypeOK, RecordsFresh, NEW k \in Keys, VisibleSettled(k)
  PROVE  row[k].outcome.age < ResultTtl + ReportDelay
<1>1. row[k] \in Settled /\ row[k].age < ResultTtl
  BY RowCases DEF VisibleSettled, Visible, Stored, Ttl, Settled, Absent, Pending
<1>2. /\ row[k].outcome.age \in Nat /\ row[k].age \in Nat
      /\ row[k].status \in {"completed", "failed"}
  BY <1>1, CapIsNat DEF Settled, Outcome
<1>3. row[k].outcome.age <= row[k].age + ReportDelay
  BY <1>2 DEF RecordsFresh
<1> QED BY <1>1, <1>2, <1>3, TtlAssumption

LEMMA PhasesNext ==
  ASSUME TypeOK, RecordsFresh, AllPhasesOK, [Next]_vars
  PROVE  AllPhasesOK'
<1> USE DEF Waiting, Flying, Reporting, Ended
<1>0. /\ ProxyStateTypeOK
      /\ pc \in [Calls -> Waiting \cup Flying \cup Ended]
      /\ key \in [Calls -> Keys]
      /\ outcome \in [Calls -> Outcome \cup {NoOutcome}]
      /\ stats \in [Calls -> 0..2]
  BY DEF TypeOK, DedupTypeOK
<1>1. ASSUME NEW c \in Calls,
             \A d \in Calls \ {c} : /\ pc'[d] = pc[d] /\ outcome'[d] = outcome[d]
                                    /\ stats'[d] = stats[d],
             PhaseOK(pc'[c], outcome'[c], stats'[c])
      PROVE  AllPhasesOK'
  BY <1>1 DEF AllPhasesOK
<1>2. ASSUME NEW c \in Calls, NEW k \in Keys, ServeRecord(c, k)
      PROVE  AllPhasesOK'
  <2>1. row[k].outcome.age < ResultTtl + ReportDelay
    BY <1>0, <1>2, ServedYoung DEF ServeRecord
  <2>2. Enter(c, k, "hit", row[k].outcome, 1, "no") BY <1>2 DEF ServeRecord
  <2> QED BY <1>0, <1>1, <2>1, <2>2 DEF Enter, PhaseOK
<1>3. ASSUME NEW c \in Calls, NEW k \in Keys,
             Join(c, k) \/ Lead(c, k) \/ CheckError(c, k) \/ CheckReject(c, k)
      PROVE  AllPhasesOK'
  <2>1. PICK to \in {"sleeping", "executing", "broken"}, l \in Losses :
          Enter(c, k, to, NoOutcome, 0, l)
    BY <1>3 DEF Join, Lead, CheckError, CheckReject, Losses
  <2> QED BY <1>0, <1>1, <2>1 DEF Enter, PhaseOK
<1>4. ASSUME NEW c \in Calls, Poll(c) PROVE AllPhasesOK'
  <2>1. stats[c] = 0 /\ key[c] \in Keys
    BY <1>0, <1>4 DEF Poll, AllPhasesOK, PhaseOK
  <2>2. VisibleSettled(key[c]) => row[key[c]].outcome.age < ResultTtl + ReportDelay
    BY <1>0, <2>1, ServedYoung
  <2>3. PhaseOK(pc'[c], outcome'[c], stats'[c])
    BY <1>0, <1>4, <2>1, <2>2 DEF Poll, End, Observe, PhaseOK
  <2> QED BY <1>0, <1>1, <1>4, <2>3 DEF Poll, End, Observe
<1>5. ASSUME NEW c \in Calls, LoopAgain(c) \/ Timeout(c) PROVE AllPhasesOK'
  <2>1. stats[c] = 0
    BY <1>5 DEF LoopAgain, Timeout, AllPhasesOK, PhaseOK
  <2> QED BY <1>0, <1>1, <1>5, <2>1 DEF LoopAgain, Timeout, End, Observe, PhaseOK
<1>6. ASSUME NEW c \in Calls, Answer(c) PROVE AllPhasesOK'
  <2>1. stats[c] = 0
    BY <1>6 DEF Answer, AllPhasesOK, PhaseOK
  <2>2. PICK kind \in {"result", "error"} :
          /\ outcome' = [outcome EXCEPT ![c] = Fresh(kind)]
          /\ pc' = [pc EXCEPT ![c] = IF kind = "result" THEN "completing"
                                                        ELSE "failing"]
    BY <1>6 DEF Answer
  <2>3. PhaseOK(pc'[c], outcome'[c], stats'[c])
    BY <1>0, <1>6, <2>1, <2>2, FreshOutcome, TtlAssumption DEF Answer, Observe, PhaseOK
  <2> QED BY <1>0, <1>1, <1>6, <2>2, <2>3 DEF Answer, Observe
<1>7. ASSUME NEW c \in Calls, Complete(c) PROVE AllPhasesOK'
  <2>1. stats[c] = 1 BY <1>7 DEF Complete, AllPhasesOK, PhaseOK
  <2> QED BY <1>0, <1>1, <1>7, <2>1 DEF Complete, End, PhaseOK
<1>8. ASSUME NEW c \in Calls, CompleteReject(c) PROVE AllPhasesOK'
  <2>1. stats[c] = 1 BY <1>8 DEF CompleteReject, AllPhasesOK, PhaseOK
  <2>2. PhaseOK(pc'[c], outcome'[c], stats'[c])
    BY <1>0, <1>8, <2>1, FreshOutcome, TtlAssumption DEF CompleteReject, Observe, PhaseOK
  <2> QED BY <1>0, <1>1, <1>8, <2>2 DEF CompleteReject, Observe
<1>9. ASSUME NEW c \in Calls, Fail(c) PROVE AllPhasesOK'
  <2>1. stats[c] \in {1, 2} /\ outcome[c].kind = "error"
    BY <1>9 DEF Fail, AllPhasesOK, PhaseOK
  <2> QED BY <1>0, <1>1, <1>9, <2>1 DEF Fail, End, PhaseOK
<1>10. ASSUME NEW c \in Calls, Evict(c) PROVE AllPhasesOK'
  <2>1. Enter(c, key[c], "idle", NoOutcome, 0, "no") BY <1>10 DEF Evict
  <2> QED BY <1>0, <1>1, <2>1 DEF Enter, PhaseOK
<1>11. ASSUME NEW ks, Purge(ks) PROVE AllPhasesOK'
  <2> SUFFICES ASSUME NEW c \in Calls PROVE PhaseOK(pc'[c], outcome'[c], stats'[c])
    BY DEF AllPhasesOK
  <2>1. /\ pc'[c] = pc[c] /\ stats'[c] = stats[c]
        /\ \/ outcome'[c] = outcome[c]
           \/ outcome'[c] = [outcome[c] EXCEPT !.stale = TRUE] /\ pc[c] \in Reporting
    BY <1>11 DEF Purge
  <2>2. pc[c] \in Reporting => outcome[c] \in Outcome
    BY <1>0, NoOutcomeFacts DEF AllPhasesOK, PhaseOK
  <2>3. PhaseOK(pc[c], outcome[c], stats[c]) BY DEF AllPhasesOK
  <2> QED BY <2>1, <2>2, <2>3, StaleOutcome DEF PhaseOK
<1>12. ASSUME Tick PROVE AllPhasesOK'
  <2> SUFFICES ASSUME NEW c \in Calls PROVE PhaseOK(pc'[c], outcome'[c], stats'[c])
    BY DEF AllPhasesOK
  <2>1. pc'[c] = pc[c] /\ stats'[c] = stats[c] BY <1>12 DEF Tick
  <2>2. PhaseOK(pc[c], outcome[c], stats[c]) BY DEF AllPhasesOK
  <2>3. CASE pc[c] \in Reporting
    <3>1. outcome'[c] = OlderOutcome(outcome[c]) /\ outcome[c].age < ReportDelay
      BY <1>12, <2>3 DEF Tick
    <3>2. outcome[c] \in Outcome
      BY <1>0, <2>2, <2>3, NoOutcomeFacts DEF PhaseOK
    <3>3. outcome'[c].kind = outcome[c].kind /\ outcome'[c].age <= ReportDelay
      BY <3>1, <3>2, OutcomeAges, TtlAssumption DEF Outcome
    <3> QED BY <2>1, <2>2, <2>3, <3>3 DEF PhaseOK
  <2>4. CASE pc[c] \notin Reporting
    <3>1. outcome'[c] = outcome[c] BY <1>12, <2>4 DEF Tick
    <3> QED BY <2>1, <2>2, <3>1
  <2> QED BY <2>3, <2>4
<1>13. ASSUME Alarm \/ UNCHANGED vars PROVE AllPhasesOK'
  BY <1>13 DEF Alarm, vars, AllPhasesOK
<1> QED
  BY <1>2, <1>3, <1>4, <1>5, <1>6, <1>7, <1>8, <1>9, <1>10, <1>11, <1>12, <1>13
  DEF Next, CallNext, Begin, Report, PurgeOne, PurgeAll

-----------------------------------------------------------------------------
LEMMA InvNext == DedupInv /\ [Next]_vars => DedupInv'
<1> SUFFICES ASSUME DedupInv, [Next]_vars PROVE DedupInv'
  OBVIOUS
<1>0. /\ TypeOK /\ SingleFlight /\ RecordOfHolder /\ RecordsFresh
      /\ CallPhases /\ AllPhasesOK
  BY PhasesAre DEF DedupInv
<1>1. TypeOK' BY <1>0, TypeNext
<1>2. SingleFlight' /\ RecordOfHolder' BY <1>0, RegistrationNext
<1>3. RecordsFresh' BY <1>0, RecordsFreshNext
<1>4. AllPhasesOK' BY <1>0, PhasesNext
<1>5. CallPhases' /\ ServedFresh' /\ Observed'
  BY <1>4 DEF AllPhasesOK, PhaseOK, CallPhases, ServedFresh, Observed
<1> QED BY <1>1, <1>2, <1>3, <1>5 DEF DedupInv

\* The inductive invariant holds in every reachable state of the deduplication
\* of executeWithDeduplication over ProxyState.
THEOREM Invariance == Spec => []DedupInv
BY InvInit, InvNext, PTL DEF Spec

\* Every variable of the deduplication keeps its type.
THEOREM TypeCorrect == Spec => []TypeOK
<1>1. DedupInv => TypeOK BY DEF DedupInv
<1> QED BY Invariance, <1>1, PTL

\* At most one call holds a registration of a hash, for any number of calls:
\* the deduplication fails only through purges, lost records and overruns.
THEOREM OneFlightPerHash == Spec => []SingleFlight
<1>1. DedupInv => SingleFlight BY DEF DedupInv
<1> QED BY Invariance, <1>1, PTL

\* A HIT is never staler than RESULT_TTL plus one report.
THEOREM HitsAreFresh == Spec => []ServedFresh
<1>1. DedupInv => ServedFresh BY DEF DedupInv
<1> QED BY Invariance, <1>1, PTL

\* Every answered call has recorded an observation, and two only when its
\* report was rejected.
THEOREM AnswersAreObserved == Spec => []Observed
<1>1. DedupInv => Observed BY DEF DedupInv
<1> QED BY Invariance, <1>1, PTL

\* The step behind OutcomeKept: a served record is overwritten only by a call
\* that does not hold the registration.
LEMMA OverwriteStep ==
  ASSUME DedupInv, [Next]_vars, NEW k \in Keys, Overwritten(k)
  PROVE  \E c \in Calls : pc[c] \in Reporting /\ key[c] = k /\ ~ Registered(c)
<1>0. /\ ProxyStateTypeOK /\ key \in [Calls -> Keys] /\ RecordOfHolder /\ TypeOK
  BY DEF DedupInv, TypeOK, DedupTypeOK
<1>1. /\ row[k].status \in {"completed", "failed"}
      /\ row'[k] # row[k] /\ row'[k].status \in {"completed", "failed"}
      /\ row'[k].age = 0
  BY <1>0, RowCases
  DEF Overwritten, VisibleSettled, Visible, Stored, Pending, Settled, Absent
<1>2. ASSUME NEW c \in Calls, pc[c] \in Reporting, Settle(key[c], outcome[c])
      PROVE  pc[c] \in Reporting /\ key[c] = k /\ ~ Registered(c)
  <2>1. key[c] = k
    BY <1>0, <1>1, <1>2 DEF Settle, ProxyStateTypeOK
  <2>2. ~ Registered(c) BY <1>0, <1>1, <2>1 DEF RecordOfHolder
  <2> QED BY <1>2, <2>1, <2>2
<1>3. ASSUME NEW j \in Keys, Register(j) PROVE FALSE
  <2>1. row'[k] = row[k] \/ row'[k] = NewPending
    BY <1>0, <1>3 DEF Register, ProxyStateTypeOK
  <2> QED BY <1>1, <2>1 DEF NewPending
<1>4. ASSUME NEW ks, Delete(ks) PROVE FALSE
  <2>1. row'[k] = row[k] \/ row'[k] = Absent
    BY <1>4 DEF Delete
  <2> QED BY <1>1, <2>1 DEF Absent
<1>5. ASSUME AgeRows PROVE FALSE
  <2>1. row[k] \in Settled BY <1>0, <1>1, RowCases
  <2>2. row'[k].age = Older(row[k].age, ResultTtl + 1) /\ row[k].age \in Nat
    BY <1>5, <2>1, SettledFacts DEF AgeRows, Settled
  <2> QED BY <1>1, <2>2, TtlAssumption DEF Older
<1>6. ASSUME row' = row PROVE FALSE
  BY <1>1, <1>6
<1>7. ASSUME NEW c \in Calls, NEW own, pc[c] \in Reporting,
             Store(c, own) \/ NotStored(c, own)
      PROVE  pc[c] \in Reporting /\ key[c] = k /\ ~ Registered(c)
  BY <1>2, <1>6, <1>7 DEF Store, NotStored
<1>8. ASSUME NEW c \in Calls, CallNext(c)
      PROVE  pc[c] \in Reporting /\ key[c] = k /\ ~ Registered(c)
  <2>1. CASE Begin(c)
    BY <1>3, <1>6, <2>1 DEF Begin, ServeRecord, Join, Lead, CheckError, CheckReject
  <2>2. CASE Poll(c) \/ LoopAgain(c) \/ Timeout(c) \/ Answer(c) \/ Evict(c)
    BY <1>6, <2>2 DEF Poll, LoopAgain, Timeout, Answer, Evict
  <2>3. CASE Report(c)
    BY <1>7, <2>3 DEF Report, Complete, CompleteReject, Fail, Reporting
  <2> QED BY <1>8, <2>1, <2>2, <2>3 DEF CallNext
<1>9. ASSUME NEW ks, Purge(ks) PROVE FALSE
  BY <1>4, <1>9 DEF Purge
<1>10. ~ Alarm /\ ~ Tick
  BY <1>4, <1>5 DEF Alarm, Cleanup, Tick
<1> QED BY <1>6, <1>8, <1>9, <1>10 DEF Next, PurgeOne, PurgeAll, vars

\* A fresh result or cached error stays what it is until it expires or is
\* purged, unless an executor without a registration reports over it.
THEOREM OutcomesAreKept == Spec => OutcomeKept
<1>1. DedupInv /\ [Next]_vars =>
        [\A k \in Keys : Overwritten(k) =>
           \E c \in Calls : /\ pc[c] \in Reporting /\ key[c] = k
                            /\ ~ Registered(c)]_vars
  BY OverwriteStep
<1> QED BY Invariance, <1>1, PTL DEF Spec, OutcomeKept

-----------------------------------------------------------------------------
(***************************************************************************)
(* The lease of a hash.                                                    *)
(***************************************************************************)
Lessees(k) == {c \in Calls : Registered(c) /\ key[c] = k}
TimeLeft(k) == IF VisiblePending(k) THEN PendingTtl - row[k].age ELSE 0

LEMMA LeaseFacts ==
  ASSUME TypeOK, RecordOfHolder, NEW k \in Keys
  PROVE  /\ TimeLeft(k) \in 0..PendingTtl
         /\ VisiblePending(k) <=> TimeLeft(k) > 0
         /\ VisiblePending(k) => row[k] \in Pending /\ row[k].age \in Nat
         /\ \A c \in Lessees(k) : /\ VisiblePending(k) /\ row[k].age = elapsed[c]
                                  /\ TimeLeft(k) = PendingTtl - elapsed[c]
<1>1. VisiblePending(k) => /\ row[k] \in Pending /\ row[k].age \in Nat
                           /\ row[k].age < PendingTtl
  BY RowCases DEF VisiblePending, Visible, Ttl, Pending, TypeOK, DedupTypeOK
<1>2. \A c \in Lessees(k) : VisiblePending(k) /\ row[k].age = elapsed[c]
  BY HolderVisible DEF Lessees, RecordOfHolder
<1> QED BY <1>1, <1>2, TtlAssumption DEF TimeLeft

\* What a step leaves alone of the lease of a hash.
SameLease(k) == Lessees(k)' = Lessees(k) /\ TimeLeft(k)' = TimeLeft(k)

LEMMA SameRow ==
  ASSUME NEW k \in Keys, row'[k] = row[k]
  PROVE  TimeLeft(k)' = TimeLeft(k)
BY DEF TimeLeft, VisiblePending, Visible, Stored

\* A hash that has no visible pending record is free.
LEMMA FreeHash ==
  ASSUME TypeOK, RecordOfHolder, NEW k \in Keys, ~ VisiblePending(k)
  PROVE  Lessees(k) = {} /\ TimeLeft(k) = 0
BY LeaseFacts DEF TimeLeft

\* A new record is a lease of the full term, for whoever gets to know of it.
LEMMA RegisterLease ==
  ASSUME TypeOK, RecordOfHolder, NEW k \in Keys, Register(k)
  PROVE  /\ Lessees(k) = {} /\ TimeLeft(k) = 0 /\ TimeLeft(k)' = PendingTtl
         /\ \A j \in Keys \ {k} : TimeLeft(j)' = TimeLeft(j)
<1>1. ~ VisiblePending(k) BY DEF Register, VisiblePending
<1>2. row'[k] = NewPending /\ \A j \in Keys \ {k} : row'[j] = row[j]
  BY DEF Register, TypeOK, DedupTypeOK, ProxyStateTypeOK
<1>3. TimeLeft(k)' = PendingTtl
  BY <1>2, TtlAssumption
  DEF TimeLeft, VisiblePending, Visible, Stored, Ttl, NewPending
<1> QED BY <1>1, <1>2, <1>3, FreeHash, SameRow

\* A report ends every lease of its hash, and no other.
LEMMA StoreLease ==
  ASSUME TypeOK, RecordOfHolder, NEW c \in Calls, NEW own, Store(c, own),
         key' = key, pc'[c] \notin Flying \/ own # "no",
         \A d \in Calls \ {c} : pc'[d] = pc[d] /\ elapsed'[d] = elapsed[d]
  PROVE  /\ Lessees(key[c])' = {} /\ TimeLeft(key[c])' = 0
         /\ \A k \in Keys \ {key[c]} : SameLease(k)
<1> DEFINE h == key[c]
<1>1. h \in Keys BY DEF TypeOK, DedupTypeOK
<1>2. ~ Registered(c)' BY DEF Store, Registered, Holds
<1>3. ASSUME NEW d \in Calls, d # c
      PROVE  Registered(d)' <=> Registered(d) /\ key[d] # h
  <2>1. lost'[d] = IF Stored(h) /\ key[d] = h /\ Holds(d) THEN "usurped" ELSE lost[d]
    BY <1>3 DEF Store
  <2>2. Registered(d) /\ key[d] = h => Stored(h)
    BY HolderVisible DEF VisiblePending, Visible
  <2>3. pc'[d] = pc[d] /\ elapsed'[d] = elapsed[d] BY <1>3
  <2> QED BY <2>1, <2>2, <2>3 DEF Registered, Holds
<1>4. Lessees(h)' = {} BY <1>2, <1>3 DEF Lessees
<1>5. \A k \in Keys \ {h} : row'[k] = row[k]
  BY <1>1 DEF Store, Settle, TypeOK, DedupTypeOK, ProxyStateTypeOK
<1>6. TimeLeft(h)' = 0
  <2>1. row'[h].status # "pending"
    BY <1>1 DEF Store, Settle, SettledWith, Stored, TypeOK, DedupTypeOK, ProxyStateTypeOK
  <2> QED BY <2>1 DEF TimeLeft, VisiblePending
<1>7. ASSUME NEW k \in Keys \ {h} PROVE Lessees(k)' = Lessees(k)
  BY <1>2, <1>3, <1>7 DEF Lessees
<1> QED BY <1>4, <1>5, <1>6, <1>7, SameRow DEF SameLease

\* A holder that ends without a report leaves the lease running.
LEMMA LeaveLease ==
  ASSUME TypeOK, NEW c \in Calls, row' = row, key'[c] = key[c], ~ Registered(c)',
         \A d \in Calls \ {c} : /\ Registered(d)' <=> Registered(d)
                                /\ key'[d] = key[d]
  PROVE  /\ \A k \in Keys : TimeLeft(k)' = TimeLeft(k)
         /\ Lessees(key[c])' = Lessees(key[c]) \ {c}
         /\ \A k \in Keys \ {key[c]} : Lessees(k)' = Lessees(k)
BY SameRow DEF Lessees

\* What a deletion does to leases: those of its hashes end.
LEMMA DeleteLease ==
  ASSUME TypeOK, NEW ks, Delete(ks), NEW k \in Keys
  PROVE  TimeLeft(k)' = IF k \in ks THEN 0 ELSE TimeLeft(k)
<1>1. k \in ks => row'[k].status # "pending" BY DEF Delete, Absent
<1>2. k \notin ks => row'[k] = row[k] BY DEF Delete
<1> QED BY <1>1, <1>2, SameRow DEF TimeLeft, VisiblePending

\* A tick shortens every lease by one, for its record and for its holder.
LEMMA TickLease ==
  ASSUME TypeOK, RecordOfHolder, Tick, NEW k \in Keys
  PROVE  /\ TimeLeft(k)' = IF TimeLeft(k) > 0 THEN TimeLeft(k) - 1 ELSE 0
         /\ Lessees(k)' = IF TimeLeft(k) > 1 THEN Lessees(k) ELSE {}
<1>0. elapsed \in [Calls -> 0..PendingTtl] /\ ProxyStateTypeOK
  BY DEF TypeOK, DedupTypeOK
<1>1. row'[k] = OlderRow(row[k]) BY DEF Tick, AgeRows
<1>2. TimeLeft(k)' = IF TimeLeft(k) > 0 THEN TimeLeft(k) - 1 ELSE 0
  <2>1. CASE row[k] \in Pending
    <3>1. row'[k].status = "pending" /\ row'[k].age = Older(row[k].age, PendingTtl + 1)
      BY <1>1, <2>1, PendingFacts
    <3>2. row[k].status = "pending" /\ row[k].age \in 0..PendingTtl + 1
      BY <2>1 DEF Pending
    <3>3. TimeLeft(k) = IF row[k].age < PendingTtl THEN PendingTtl - row[k].age ELSE 0
      BY <3>2 DEF TimeLeft, VisiblePending, Visible, Stored, Ttl
    <3>4. TimeLeft(k)' = IF row'[k].age < PendingTtl THEN PendingTtl - row'[k].age ELSE 0
      BY <3>1 DEF TimeLeft, VisiblePending, Visible, Stored, Ttl
    <3> QED BY <3>1, <3>2, <3>3, <3>4, TtlAssumption DEF Older
  <2>2. CASE row[k] \notin Pending
    <3>1. row[k].status # "pending" /\ row'[k].status # "pending"
      BY <1>0, <1>1, <2>2, RowCases, SettledFacts, AbsentFacts
    <3> QED BY <3>1 DEF TimeLeft, VisiblePending
  <2> QED BY <2>1, <2>2
<1>3. ASSUME NEW d \in Calls
      PROVE  Registered(d)' <=> Registered(d) /\ elapsed[d] + 1 < PendingTtl
  <2>1. pc' = pc /\ lost' = lost BY DEF Tick
  <2>2. pc[d] \in Flying => elapsed'[d] = Older(elapsed[d], PendingTtl) BY DEF Tick
  <2>3. elapsed[d] \in 0..PendingTtl BY <1>0
  <2> QED BY <2>1, <2>2, <2>3, TtlAssumption DEF Older, Registered, Holds
<1>4. key' = key BY DEF Tick
<1>5. \A d \in Lessees(k) : TimeLeft(k) > 1 <=> elapsed[d] + 1 < PendingTtl
  BY <1>0, LeaseFacts, TtlAssumption DEF Lessees
<1>6. Lessees(k)' = IF TimeLeft(k) > 1 THEN Lessees(k) ELSE {}
  BY <1>3, <1>4, <1>5 DEF Lessees
<1> QED BY <1>2, <1>6

\* Every step of the deduplication grants, leaves, withdraws or ages leases as
\* the abstract specification does, or leaves them alone.
LEMMA LeaseStep ==
  DedupInv /\ [Next]_vars =>
    [Lease!Next]_<<[k \in Keys |-> Lessees(k)], [k \in Keys |-> TimeLeft(k)]>>
<1> DEFINE held == [k \in Keys |-> Lessees(k)]
           time == [k \in Keys |-> TimeLeft(k)]
<1> SUFFICES ASSUME DedupInv, [Next]_vars
             PROVE  Lease!Next \/ (held' = held /\ time' = time)
  OBVIOUS
<1> USE DEF Waiting, Flying, Reporting, Ended
<1>0. /\ TypeOK /\ RecordOfHolder
      /\ pc \in [Calls -> Waiting \cup Flying \cup Ended]
      /\ key \in [Calls -> Keys] /\ elapsed \in [Calls -> 0..PendingTtl]
      /\ lost \in [Calls -> Losses]
  BY DEF DedupInv, TypeOK, DedupTypeOK
<1>a. (\A k \in Keys : SameLease(k)) => held' = held /\ time' = time
  BY DEF SameLease
<1>b. ASSUME row' = row, \A d \in Calls : /\ Registered(d)' <=> Registered(d)
                                          /\ Registered(d) => key'[d] = key[d]
      PROVE  \A k \in Keys : SameLease(k)
  BY <1>b, SameRow DEF SameLease, Lessees
<1>c. ASSUME NEW c \in Calls, row' = row, key'[c] = key[c], ~ Registered(c)',
             \A d \in Calls \ {c} : /\ Registered(d)' <=> Registered(d)
                                    /\ key'[d] = key[d]
      PROVE  Lease!Next \/ (held' = held /\ time' = time)
  <2>1. CASE Registered(c)
    <3>1. PICK h \in Keys : h = key[c] BY <1>0
    <3>2. c \in held[h] BY <2>1, <3>1 DEF Lessees
    <3>3. held' = [held EXCEPT ![h] = held[h] \ {c}] /\ time' = time
      <4>1. Lessees(h)' = Lessees(h) \ {c} BY <1>0, <1>c, <3>1, LeaveLease
      <4>2. \A k \in Keys \ {h} : Lessees(k)' = Lessees(k)
        BY <1>0, <1>c, <3>1, LeaveLease
      <4>3. \A k \in Keys : TimeLeft(k)' = TimeLeft(k) BY <1>0, <1>c, LeaveLease
      <4> QED BY <3>1, <4>1, <4>2, <4>3
    <3>4. Lease!Abandon(c, h) BY <3>2, <3>3 DEF Lease!Abandon, Lessees, TimeLeft
    <3> QED BY <3>4 DEF Lease!Next
  <2>2. CASE ~ Registered(c)
    <3>1. \A d \in Calls : /\ Registered(d)' <=> Registered(d)
                           /\ Registered(d) => key'[d] = key[d]
      BY <1>c, <2>2
    <3> QED BY <1>a, <1>b, <1>c, <3>1
  <2> QED BY <2>1, <2>2
<1>d. ASSUME NEW ks \in SUBSET Keys,
             \A k \in Keys : /\ k \in ks => Lessees(k)' = {} /\ TimeLeft(k)' = 0
                             /\ k \notin ks => SameLease(k)
      PROVE  Lease!Next
  <2>1. /\ held' = [k \in Keys |-> IF k \in ks THEN {} ELSE held[k]]
        /\ time' = [k \in Keys |-> IF k \in ks THEN 0 ELSE time[k]]
    BY <1>d DEF SameLease
  <2>2. Lease!Withdraw(ks) BY <2>1 DEF Lease!Withdraw, Lessees, TimeLeft
  <2> QED BY <2>2 DEF Lease!Next
<1>e. ASSUME NEW c \in Calls, NEW own, Store(c, own),
             key' = key, pc'[c] \notin Flying \/ own # "no",
             \A d \in Calls \ {c} : pc'[d] = pc[d] /\ elapsed'[d] = elapsed[d]
      PROVE  Lease!Next
  <2>1. PICK ks \in SUBSET Keys : ks = {key[c]} BY <1>0
  <2>2. /\ Lessees(key[c])' = {} /\ TimeLeft(key[c])' = 0
        /\ \A k \in Keys \ {key[c]} : SameLease(k)
    BY <1>0, <1>e, StoreLease
  <2>3. \A k \in Keys : /\ k \in ks => Lessees(k)' = {} /\ TimeLeft(k)' = 0
                        /\ k \notin ks => SameLease(k)
    BY <1>e, <2>1, <2>2
  <2> HIDE DEF held, time
  <2> QED BY <1>d, <2>3
<1>1. ASSUME NEW c \in Calls, NEW k \in Keys,
             ServeRecord(c, k) \/ Join(c, k) \/ CheckError(c, k)
               \/ (CheckReject(c, k) /\ row' = row)
      PROVE  held' = held /\ time' = time
  <2>1. /\ row' = row /\ pc[c] \in Ended
        /\ pc'[c] \notin Flying \/ lost'[c] # "no"
        /\ \A d \in Calls \ {c} : /\ pc'[d] = pc[d] /\ key'[d] = key[d]
                                  /\ elapsed'[d] = elapsed[d] /\ lost'[d] = lost[d]
    BY <1>0, <1>1 DEF ServeRecord, Join, CheckError, CheckReject, Enter
  <2>2. \A d \in Calls : /\ Registered(d)' <=> Registered(d)
                         /\ Registered(d) => key'[d] = key[d]
    BY <2>1 DEF Registered, Holds
  <2> QED BY <1>a, <1>b, <2>1, <2>2
<1>2. ASSUME NEW c \in Calls, NEW k \in Keys, CheckReject(c, k), Register(k)
      PROVE  Lease!Next
  <2>1. /\ pc[c] \in Ended /\ pc'[c] \notin Flying
        /\ \A d \in Calls \ {c} : /\ pc'[d] = pc[d] /\ key'[d] = key[d]
                                  /\ elapsed'[d] = elapsed[d] /\ lost'[d] = lost[d]
    BY <1>0, <1>2 DEF CheckReject, Enter
  <2>2. \A j \in Keys : Lessees(j)' = Lessees(j)
    BY <2>1 DEF Lessees, Registered, Holds
  <2>3. /\ Lessees(k) = {} /\ TimeLeft(k) = 0 /\ TimeLeft(k)' = PendingTtl
        /\ \A j \in Keys \ {k} : TimeLeft(j)' = TimeLeft(j)
    BY <1>0, <1>2, RegisterLease
  <2>4. /\ time[k] = 0 /\ held' = [held EXCEPT ![k] = {}]
        /\ time' = [time EXCEPT ![k] = PendingTtl]
    BY <2>2, <2>3
  <2>5. Lease!GrantLost(k) BY <2>4 DEF Lease!GrantLost, Lease!Grant, Lessees, TimeLeft
  <2> QED BY <2>5 DEF Lease!Next
<1>3. ASSUME NEW c \in Calls, NEW k \in Keys, Lead(c, k)
      PROVE  Lease!Next
  <2>1. /\ pc[c] \in Ended /\ pc'[c] = "executing" /\ lost'[c] = "no"
        /\ key'[c] = k /\ elapsed'[c] = 0 /\ Register(k)
        /\ \A d \in Calls \ {c} : /\ pc'[d] = pc[d] /\ key'[d] = key[d]
                                  /\ elapsed'[d] = elapsed[d] /\ lost'[d] = lost[d]
    BY <1>0, <1>3 DEF Lead, Enter
  <2>2. Registered(c)' /\ ~ Registered(c)
    BY <2>1, TtlAssumption DEF Registered, Holds
  <2>3. \A d \in Calls \ {c} : Registered(d)' <=> Registered(d)
    BY <2>1 DEF Registered, Holds
  <2>4. /\ Lessees(k) = {} /\ TimeLeft(k) = 0 /\ TimeLeft(k)' = PendingTtl
        /\ \A j \in Keys \ {k} : TimeLeft(j)' = TimeLeft(j)
    BY <1>0, <2>1, RegisterLease
  <2>5. Lessees(k)' = {c} BY <2>1, <2>2, <2>3, <2>4 DEF Lessees
  <2>6. \A j \in Keys \ {k} : Lessees(j)' = Lessees(j)
    BY <2>1, <2>2, <2>3 DEF Lessees
  <2>7. /\ time[k] = 0 /\ held' = [held EXCEPT ![k] = {c}]
        /\ time' = [time EXCEPT ![k] = PendingTtl]
    BY <2>4, <2>5, <2>6
  <2>8. Lease!HoldsNone(c) BY <2>2 DEF Lease!HoldsNone, Lessees
  <2>9. Lease!GrantTo(c, k)
    BY <2>7, <2>8 DEF Lease!GrantTo, Lease!Grant, Lessees, TimeLeft
  <2> QED BY <2>9 DEF Lease!Next
<1>4. ASSUME NEW c \in Calls, Poll(c) \/ LoopAgain(c) \/ Timeout(c) \/ Answer(c)
      PROVE  held' = held /\ time' = time
  <2>1. /\ row' = row /\ key' = key /\ lost' = lost
        /\ \A d \in Calls \ {c} : pc'[d] = pc[d] /\ elapsed'[d] = elapsed[d]
        /\ \/ pc[c] \notin Flying /\ pc'[c] \notin Flying
           \/ pc[c] \in Flying /\ pc'[c] \in Flying /\ elapsed'[c] = elapsed[c]
    BY <1>0, <1>4 DEF Poll, LoopAgain, Timeout, Answer, End
  <2>2. \A d \in Calls : Registered(d)' <=> Registered(d)
    BY <2>1 DEF Registered, Holds
  <2> QED BY <1>a, <1>b, <2>1, <2>2
<1>5. ASSUME NEW c \in Calls, Complete(c) \/ Fail(c)
      PROVE  Lease!Next \/ (held' = held /\ time' = time)
  <2>1. /\ key' = key /\ pc'[c] \notin Flying
        /\ \A d \in Calls \ {c} : pc'[d] = pc[d] /\ elapsed'[d] = elapsed[d]
        /\ Store(c, "no") \/ NotStored(c, "no")
    BY <1>0, <1>5 DEF Complete, Fail, End
  <2>2. CASE Store(c, "no") BY <1>e, <2>1, <2>2
  <2>3. CASE NotStored(c, "no")
    <3>1. row' = row /\ \A d \in Calls \ {c} : lost'[d] = lost[d]
      BY <1>0, <2>3 DEF NotStored
    <3>2. ~ Registered(c)' /\ \A d \in Calls \ {c} : Registered(d)' <=> Registered(d)
      BY <2>1, <3>1 DEF Registered, Holds
    <3> QED BY <1>c, <2>1, <3>1, <3>2
  <2> QED BY <2>1, <2>2, <2>3
<1>6. ASSUME NEW c \in Calls, CompleteReject(c)
      PROVE  Lease!Next \/ (held' = held /\ time' = time)
  <2>1. /\ key' = key /\ elapsed' = elapsed /\ pc[c] \in Flying /\ pc'[c] \in Flying
        /\ \A d \in Calls \ {c} : pc'[d] = pc[d]
        /\ \/ Store(c, IF lost[c] = "no" THEN "reported" ELSE lost[c])
           \/ NotStored(c, lost[c])
    BY <1>0, <1>6 DEF CompleteReject
  <2>2. CASE Store(c, IF lost[c] = "no" THEN "reported" ELSE lost[c])
    <3>1. (IF lost[c] = "no" THEN "reported" ELSE lost[c]) # "no" OBVIOUS
    <3> QED BY <1>e, <2>1, <2>2, <3>1
  <2>3. CASE NotStored(c, lost[c])
    <3>1. row' = row /\ lost' = lost BY <1>0, <2>3 DEF NotStored
    <3>2. \A d \in Calls : Registered(d)' <=> Registered(d)
      BY <2>1, <3>1 DEF Registered, Holds
    <3> QED BY <1>a, <1>b, <2>1, <3>1, <3>2
  <2> QED BY <2>1, <2>2, <2>3
<1>7. ASSUME NEW c \in Calls, Evict(c)
      PROVE  Lease!Next \/ (held' = held /\ time' = time)
  <2>1. /\ row' = row /\ pc'[c] = "idle" /\ key' = key
        /\ \A d \in Calls \ {c} : /\ pc'[d] = pc[d] /\ key'[d] = key[d]
                                  /\ elapsed'[d] = elapsed[d] /\ lost'[d] = lost[d]
    BY <1>0, <1>7 DEF Evict, Enter
  <2>2. ~ Registered(c)' /\ \A d \in Calls \ {c} : Registered(d)' <=> Registered(d)
    BY <2>1 DEF Registered, Holds
  <2> QED BY <1>c, <2>1, <2>2
<1>8. ASSUME NEW ks \in SUBSET Keys, Purge(ks)
      PROVE  Lease!Next
  <2>1. ASSUME NEW d \in Calls
        PROVE  Registered(d)' <=> Registered(d) /\ key[d] \notin ks
    <3>1. /\ pc' = pc /\ elapsed' = elapsed
          /\ lost'[d] = IF key[d] \in ks /\ Holds(d) THEN "purged" ELSE lost[d]
      BY <1>8 DEF Purge
    <3> QED BY <3>1 DEF Registered, Holds
  <2>2. key' = key /\ Delete(ks) BY <1>8 DEF Purge
  <2>3. \A k \in Keys : Lessees(k)' = IF k \in ks THEN {} ELSE Lessees(k)
    BY <2>1, <2>2 DEF Lessees
  <2>4. \A k \in Keys : TimeLeft(k)' = IF k \in ks THEN 0 ELSE TimeLeft(k)
    BY <1>0, <2>2, DeleteLease
  <2> QED BY <1>d, <2>3, <2>4 DEF SameLease
<1>9. ASSUME Alarm PROVE held' = held /\ time' = time
  <2> DEFINE old == {k \in Keys : Expired(k)}
  <2>1. /\ pc' = pc /\ key' = key /\ elapsed' = elapsed /\ lost' = lost /\ Delete(old)
    BY <1>9 DEF Alarm, Cleanup
  <2>2. ASSUME NEW k \in old PROVE TimeLeft(k) = 0
    <3>1. Stored(k) /\ row[k].age > Ttl(row[k].status) /\ k \in Keys
      BY <2>2 DEF Expired
    <3>2. row[k] \in Pending \/ row[k] \in Settled
      BY <1>0, <3>1, RowCases DEF Stored, Absent, TypeOK, DedupTypeOK
    <3>3. row[k].age \in Nat BY <3>2, TtlAssumption DEF Pending, Settled
    <3>4. Ttl(row[k].status) \in Nat BY TtlAssumption DEF Ttl
    <3>5. ~ Visible(k) BY <3>1, <3>3, <3>4 DEF Visible
    <3> QED BY <3>5 DEF TimeLeft, VisiblePending
  <2>3. \A k \in Keys : TimeLeft(k)' = TimeLeft(k)
    <3> HIDE DEF old
    <3> QED BY <1>0, <2>1, <2>2, DeleteLease
  <2>4. \A k \in Keys : Lessees(k)' = Lessees(k)
    BY <2>1 DEF Lessees, Registered, Holds
  <2> QED BY <2>3, <2>4
<1>10. ASSUME Tick PROVE Lease!Next
  <2>1. /\ held' = [k \in Keys |-> IF time[k] > 1 THEN held[k] ELSE {}]
        /\ time' = [k \in Keys |-> IF time[k] > 0 THEN time[k] - 1 ELSE 0]
    BY <1>0, <1>10, TickLease
  <2>2. Lease!Pass BY <2>1 DEF Lease!Pass, Lessees, TimeLeft
  <2> QED BY <2>2 DEF Lease!Next
<1>11. ASSUME UNCHANGED vars PROVE held' = held /\ time' = time
  <2>1. \A d \in Calls : Registered(d)' <=> Registered(d)
    BY <1>11 DEF vars, Registered, Holds
  <2>2. row' = row /\ key' = key BY <1>11 DEF vars
  <2> QED BY <1>a, <1>b, <2>1, <2>2
<1>12. ASSUME NEW c \in Calls, NEW k \in Keys, CheckReject(c, k)
       PROVE  Lease!Next \/ (held' = held /\ time' = time)
  BY <1>1, <1>2, <1>12 DEF CheckReject
<1>13. (\E k \in Keys : PurgeOne(k)) \/ PurgeAll => Lease!Next
  BY <1>8 DEF PurgeOne, PurgeAll
<1> HIDE DEF held, time
<1> QED
  BY <1>1, <1>3, <1>4, <1>5, <1>6, <1>7, <1>9, <1>10, <1>11, <1>12, <1>13
  DEF Next, CallNext, Begin, Report

\* The deduplication implements one lease per hash, for PENDING_TTL: whatever
\* is lost, evicted, purged or cleaned up, and whoever reports, nobody is granted
\* a hash before the lease of it is over or withdrawn.
THEOREM ImplementsLease == Spec => LeaseSpec
<1>1. Init => Lease!Init
  <2> SUFFICES ASSUME Init PROVE Lease!Init OBVIOUS
  <2>1. \A c \in Calls : ~ Registered(c)
    BY DEF Init, Registered, Holds, Flying, Reporting
  <2>2. \A k \in Keys : ~ VisiblePending(k)
    BY DEF Init, ProxyStateInit, Absent, VisiblePending
  <2> QED BY <2>1, <2>2 DEF Lease!Init
<1>2. DedupInv /\ [Next]_vars => [Lease!Next]_(Lease!vars)
  BY LeaseStep DEF Lease!vars, Lessees, TimeLeft
<1> QED BY <1>1, <1>2, Invariance, PTL DEF Spec, LeaseSpec, Lease!Spec
=============================================================================
