----------------------------- MODULE ProxyState -----------------------------
(***************************************************************************)
(* The ProxyState Durable Object (workers/src/durable-objects/             *)
(* proxy-state.ts): one table of request records per chain, keyed by the   *)
(* request hash.  The object handles one event at a time and no statement  *)
(* of a handler waits for anything but its own storage, so every operation *)
(* below is one atomic step.                                               *)
(*                                                                         *)
(* Timestamps are kept as ages: the age of a pending record is             *)
(* Date.now() - created_at, that of a settled one Date.now() -             *)
(* completed_at.  An age stops one past the record's TTL, because no       *)
(* query of the object tells larger ages apart; no bound on time is needed.*)
(***************************************************************************)
EXTENDS Naturals

CONSTANTS Keys,          \* the request hashes of one chain
          ResultTtl,     \* RESULT_TTL_MS, in ticks
          PendingTtl,    \* PENDING_TTL_MS, in ticks
          ReportDelay    \* ticks an outcome may take to reach the object

ASSUME TtlAssumption == /\ ResultTtl \in Nat \ {0}
                        /\ PendingTtl \in Nat \ {0}
                        /\ ReportDelay \in Nat \ {0}

VARIABLE row             \* row[k]: the record of hash k, or Absent

(***************************************************************************)
(* An outcome is what one execution of a request produced: the upstream    *)
(* result or the error message.  Its payload never matters here; what      *)
(* matters is how long ago upstream produced it (age, which saturates at   *)
(* OutcomeCap) and whether a purge of its hash came after that (stale).    *)
(***************************************************************************)
OutcomeCap == ResultTtl + ReportDelay

Outcome == [kind : {"result", "error"}, age : 0..OutcomeCap, stale : BOOLEAN]
NoOutcome == [kind |-> "none", age |-> 0, stale |-> FALSE]
Fresh(kind) == [kind |-> kind, age |-> 0, stale |-> FALSE]

\* Mutant: the two TTLs swapped.
TtlSwapped(status) == IF status = "pending" THEN ResultTtl ELSE PendingTtl

Ttl(status) == IF status = "pending" THEN PendingTtl ELSE ResultTtl

Pending == [status : {"pending"}, age : 0..PendingTtl + 1, outcome : {NoOutcome}]
Settled == [status : {"completed", "failed"}, age : 0..ResultTtl + 1,
            outcome : Outcome]
Absent == [status |-> "absent", age |-> 0, outcome |-> NoOutcome]

ProxyStateTypeOK == row \in [Keys -> Pending \cup Settled \cup {Absent}]

ProxyStateInit == row = [k \in Keys |-> Absent]

-----------------------------------------------------------------------------
(***************************************************************************)
(* checkPendingRequest: what the read path lets a caller see.  A record    *)
(* whose age reached its TTL is treated as nonexistent.                    *)
(***************************************************************************)
Stored(k) == row[k].status # "absent"
\* Mutants: >= for > in the freshness filter; no filter on pending records.
VisibleLate(k) == Stored(k) /\ row[k].age <= Ttl(row[k].status)
VisibleIfPending(k) == Stored(k) /\ (row[k].status = "pending" \/ row[k].age < ResultTtl)
Visible(k) == Stored(k) /\ row[k].age < Ttl(row[k].status)
VisiblePending(k) == Visible(k) /\ row[k].status = "pending"
\* Mutant: settled records served without a freshness filter.
VisibleUnfiltered(k) == Stored(k) /\ row[k].status # "pending"
VisibleSettled(k) == Visible(k) /\ row[k].status # "pending"

(***************************************************************************)
(* POST /requests: the check and the creation are one event.  When nothing *)
(* is visible the stale record, if there is one, is deleted and a pending  *)
(* one inserted; createPendingRequest never finds its key taken here.      *)
(***************************************************************************)
NewPending == [status |-> "pending", age |-> 0, outcome |-> NoOutcome]

Register(k) == /\ ~ Visible(k)
               /\ row' = [row EXCEPT ![k] = NewPending]

(***************************************************************************)
(* completeRequest and failRequest: UPDATE ... WHERE request_hash = ?.     *)
(* The statement names no owner and no status, so it settles whatever      *)
(* record has the hash, and does nothing when there is none.               *)
(***************************************************************************)
\* Mutant: the UPDATE forgets the outcome's column.
SettledWithout(o) == [status |-> IF o.kind = "result" THEN "completed" ELSE "failed",
                      age |-> 0, outcome |-> NoOutcome]

SettledWith(o) == [status |-> IF o.kind = "result" THEN "completed" ELSE "failed",
                   age |-> 0, outcome |-> o]

Settle(k, o) == row' = IF Stored(k) THEN [row EXCEPT ![k] = SettledWith(o)]
                                    ELSE row

\* deleteRequest and purgeAllRequests: no freshness filter.
Delete(ks) == row' = [k \in Keys |-> IF k \in ks THEN Absent ELSE row[k]]

\* Mutant: the clean-up takes pending records at the age of results.
ExpiredAll(k) == Stored(k) /\ row[k].age >= ResultTtl

\* cleanup, run by the hourly alarm; a record exactly as old as its TTL stays.
Expired(k) == Stored(k) /\ row[k].age > Ttl(row[k].status)
Cleanup == Delete({k \in Keys : Expired(k)})

-----------------------------------------------------------------------------
\* One tick of time for ages and outcomes.
Older(age, cap) == IF age < cap THEN age + 1 ELSE cap

OlderOutcome(o) == IF o.kind = "none" THEN o
                   ELSE [o EXCEPT !.age = Older(@, OutcomeCap)]

OlderRow(r) == IF r.status = "absent" THEN r
               ELSE [r EXCEPT !.age = Older(@, Ttl(r.status) + 1),
                              !.outcome = OlderOutcome(@)]

AgeRows == row' = [k \in Keys |-> OlderRow(row[k])]
=============================================================================
