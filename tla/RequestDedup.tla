---------------------------- MODULE RequestDedup ----------------------------
(***************************************************************************)
(* Request deduplication of the Worker: the executeWithDeduplication of    *)
(* handlers/actions.ts (single actions, batch items, hash references) and  *)
(* of handlers/proxy.ts, run by concurrent calls against one ProxyState    *)
(* object.  A call checks its hash, then is served from the record, waits  *)
(* for whoever registered it, or registers it and asks upstream itself.    *)
(*                                                                         *)
(* Between any two steps of a call other calls run, the object may be      *)
(* purged or cleaned, time may pass, and the isolate that runs the call    *)
(* may be evicted.  A fetch to the object may be answered with a 500       *)
(* ("error") or rejected ("reject"); when it is rejected the object may or *)
(* may not have done its part.                                             *)
(***************************************************************************)
EXTENDS ProxyState

CONSTANTS Calls,         \* concurrent invocations; each is reused for ever
          MaxWait,       \* maxWait, in ticks
          Faults,        \* the ways a fetch to the object may fail
          Purging,       \* whether the administrator purges
          Evicting       \* whether an isolate may be evicted

ASSUME DedupAssumption == /\ MaxWait \in Nat \ {0}
                          /\ MaxWait <= PendingTtl
                          /\ Faults \subseteq {"error", "reject"}
                          /\ Purging \in BOOLEAN
                          /\ Evicting \in BOOLEAN

VARIABLES pc,        \* pc[c]: where the call is
          key,       \* key[c]: the hash it is for
          outcome,   \* outcome[c]: what it holds or answered with
          elapsed,   \* elapsed[c]: ticks since it registered or began to wait
          stats,     \* stats[c]: observations the call has recorded
          lost       \* lost[c]: how an executing call lost its record (history)

vars == <<row, pc, key, outcome, elapsed, stats, lost>>

Waiting == {"sleeping", "polled"}            \* inside the poll loop
Reporting == {"completing", "failing"}       \* an outcome is on its way to the object
Flying == {"executing"} \cup Reporting       \* past the check, as an executor
Ended == {"idle", "hit", "miss", "timeout", "broken"}

\* Ways to execute without a record of one's own: it was never created, a
\* purge deleted it, somebody else settled it, or one's own report did.
Losses == {"no", "unregistered", "purged", "usurped", "reported"}

DedupTypeOK ==
  /\ ProxyStateTypeOK
  /\ pc \in [Calls -> Waiting \cup Flying \cup Ended]
  /\ key \in [Calls -> Keys]
  /\ outcome \in [Calls -> Outcome \cup {NoOutcome}]
  /\ elapsed \in [Calls -> 0..PendingTtl]
  /\ stats \in [Calls -> 0..2]
  /\ lost \in [Calls -> Losses]

Init ==
  /\ ProxyStateInit
  /\ pc = [c \in Calls |-> "idle"]
  /\ key \in [Calls -> Keys]
  /\ outcome = [c \in Calls |-> NoOutcome]
  /\ elapsed = [c \in Calls |-> 0]
  /\ stats = [c \in Calls |-> 0]
  /\ lost = [c \in Calls |-> "no"]

-----------------------------------------------------------------------------
(***************************************************************************)
(* The first fetch of a call: POST /requests, and the branch taken on its  *)
(* answer.                                                                 *)
(***************************************************************************)
Enter(c, k, to, o, n, l) ==
  /\ pc' = [pc EXCEPT ![c] = to]
  /\ key' = [key EXCEPT ![c] = k]
  /\ outcome' = [outcome EXCEPT ![c] = o]
  /\ elapsed' = [elapsed EXCEPT ![c] = 0]
  /\ stats' = [stats EXCEPT ![c] = n]
  /\ lost' = [lost EXCEPT ![c] = l]

ServeRecord(c, k) ==
  /\ pc[c] \in Ended
  /\ VisibleSettled(k)
  /\ Enter(c, k, "hit", row[k].outcome, 1, "no")
  /\ UNCHANGED row

Join(c, k) ==
  /\ pc[c] \in Ended
  /\ VisiblePending(k)
  /\ Enter(c, k, "sleeping", NoOutcome, 0, "no")
  /\ UNCHANGED row

Lead(c, k) ==
  /\ pc[c] \in Ended
  /\ Register(k)
  /\ Enter(c, k, "executing", NoOutcome, 0, "no")

\* A 500 carries no "exists", so the call executes without a record of its own.
CheckError(c, k) ==
  /\ "error" \in Faults
  /\ pc[c] \in Ended
  /\ Enter(c, k, "executing", NoOutcome, 0, "unregistered")
  /\ UNCHANGED row

\* A rejected check ends the call; the record may have been created anyway.
CheckReject(c, k) ==
  /\ "reject" \in Faults
  /\ pc[c] \in Ended
  /\ Enter(c, k, "broken", NoOutcome, 0, "no")
  /\ Register(k) \/ UNCHANGED row

-----------------------------------------------------------------------------
(***************************************************************************)
(* The poll loop of a call that found the hash pending.  Its timeout is    *)
(* looked at only after a poll that brought nothing, in a step of its own. *)
(***************************************************************************)
\* The call returns or throws: its timer and its registration are forgotten.
End(c, how) == /\ pc' = [pc EXCEPT ![c] = how]
               /\ elapsed' = [elapsed EXCEPT ![c] = 0]

Observe(c) == stats' = [stats EXCEPT ![c] = @ + 1]

Poll(c) ==
  /\ pc[c] = "sleeping"
  /\ \/ /\ VisibleSettled(key[c])
        /\ End(c, "hit")
        /\ outcome' = [outcome EXCEPT ![c] = row[key[c]].outcome]
        /\ Observe(c)
     \/ /\ ~ VisibleSettled(key[c]) \/ "error" \in Faults
        /\ pc' = [pc EXCEPT ![c] = "polled"]
        /\ UNCHANGED <<outcome, elapsed, stats>>
     \/ /\ "reject" \in Faults
        /\ End(c, "broken")
        /\ UNCHANGED <<outcome, stats>>
  /\ UNCHANGED <<row, key, lost>>

\* Mutant: while (true).
LoopForever(c) ==
  /\ pc[c] = "polled"
  /\ pc' = [pc EXCEPT ![c] = "sleeping"]
  /\ UNCHANGED <<row, key, outcome, elapsed, stats, lost>>

LoopAgain(c) ==
  /\ pc[c] = "polled"
  /\ elapsed[c] < MaxWait
  /\ pc' = [pc EXCEPT ![c] = "sleeping"]
  /\ UNCHANGED <<row, key, outcome, elapsed, stats, lost>>

\* Mutant: a timeout is not counted.
TimeoutUnobserved(c) ==
  /\ pc[c] = "polled"
  /\ elapsed[c] >= MaxWait
  /\ End(c, "timeout")
  /\ UNCHANGED <<row, key, outcome, stats, lost>>

Timeout(c) ==
  /\ pc[c] = "polled"
  /\ elapsed[c] >= MaxWait
  /\ End(c, "timeout")
  /\ Observe(c)
  /\ UNCHANGED <<row, key, outcome, lost>>

-----------------------------------------------------------------------------
(***************************************************************************)
(* The executor.  Both branches record an observation before they report.  *)
(***************************************************************************)
Answer(c) ==
  /\ pc[c] = "executing"
  /\ \E kind \in {"result", "error"} :
       /\ outcome' = [outcome EXCEPT ![c] = Fresh(kind)]
       /\ pc' = [pc EXCEPT ![c] = IF kind = "result" THEN "completing"
                                                     ELSE "failing"]
  /\ Observe(c)
  /\ UNCHANGED <<row, key, elapsed, lost>>

Holds(c) == pc[c] \in Flying /\ lost[c] = "no"

\* The report of c settles the record of its hash.  Whoever else was executing
\* under that record loses it; own is what c itself is left with.
Store(c, own) ==
  /\ Settle(key[c], outcome[c])
  /\ lost' = [d \in Calls |->
                IF d = c THEN own
                ELSE IF Stored(key[c]) /\ key[d] = key[c] /\ Holds(d)
                THEN "usurped" ELSE lost[d]]

\* The report does not reach the record.
NotStored(c, own) == /\ lost' = [lost EXCEPT ![c] = own]
                     /\ UNCHANGED row

\* Mutant: the report of a failure is in a finally, and follows every success.
CompleteThenFail(c) ==
  /\ pc[c] = "completing"
  /\ Store(c, "no") \/ ("error" \in Faults /\ NotStored(c, "no"))
  /\ pc' = [pc EXCEPT ![c] = "failing"]
  /\ outcome' = [outcome EXCEPT ![c] = Fresh("error")]
  /\ UNCHANGED <<key, elapsed, stats>>

\* The response to the report is not looked at: a 500 ends the call the same way.
Complete(c) ==
  /\ pc[c] = "completing"
  /\ Store(c, "no") \/ ("error" \in Faults /\ NotStored(c, "no"))
  /\ End(c, "miss")
  /\ UNCHANGED <<key, outcome, stats>>

\* Mutant: a rejected report runs the action again.
CompleteRetry(c) ==
  /\ "reject" \in Faults
  /\ pc[c] = "completing"
  /\ pc' = [pc EXCEPT ![c] = "executing"]
  /\ outcome' = [outcome EXCEPT ![c] = NoOutcome]
  /\ stats' = [stats EXCEPT ![c] = 0]
  /\ UNCHANGED <<row, key, elapsed, lost>>

\* A rejected report is caught by the handler's one catch: the call turns
\* into a failure, recorded a second time, although upstream answered.
CompleteReject(c) ==
  /\ "reject" \in Faults
  /\ pc[c] = "completing"
  /\ \/ Store(c, IF lost[c] = "no" THEN "reported" ELSE lost[c])
     \/ NotStored(c, lost[c])
  /\ pc' = [pc EXCEPT ![c] = "failing"]
  /\ outcome' = [outcome EXCEPT ![c] = Fresh("error")]
  /\ Observe(c)
  /\ UNCHANGED <<key, elapsed>>

Fail(c) ==
  /\ pc[c] = "failing"
  /\ \/ /\ Store(c, "no") \/ ("error" \in Faults /\ NotStored(c, "no"))
        /\ End(c, "miss")
     \/ /\ "reject" \in Faults
        /\ Store(c, "no") \/ NotStored(c, "no")
        /\ End(c, "broken")
  /\ UNCHANGED <<key, outcome, stats>>

-----------------------------------------------------------------------------
\* The isolate is evicted: the call is gone, its record stays.
Evict(c) ==
  /\ Evicting
  /\ pc[c] \in Waiting \cup Flying
  /\ Enter(c, key[c], "idle", NoOutcome, 0, "no")
  /\ UNCHANGED row

Purge(ks) ==
  /\ Purging
  /\ Delete(ks)
  /\ outcome' = [c \in Calls |->
                   IF key[c] \in ks /\ pc[c] \in Reporting
                   THEN [outcome[c] EXCEPT !.stale = TRUE] ELSE outcome[c]]
  /\ lost' = [c \in Calls |->
                IF key[c] \in ks /\ Holds(c)
                THEN "purged" ELSE lost[c]]
  /\ UNCHANGED <<pc, key, elapsed, stats>>

PurgeOne(k) == Purge({k})      \* DELETE /requests/:hash
PurgeAll == Purge(Keys)        \* POST /purge

Alarm == /\ Cleanup
         /\ UNCHANGED <<pc, key, outcome, elapsed, stats, lost>>

(***************************************************************************)
(* Time.  A report is a single fetch: it does not take longer than         *)
(* ReportDelay ticks.  Nothing bounds the upstream call, whose fetch has   *)
(* no timeout, nor how late a poll comes.                                  *)
(***************************************************************************)
Tick ==
  /\ \A c \in Calls : pc[c] \in Reporting => outcome[c].age < ReportDelay
  /\ AgeRows
  /\ outcome' = [c \in Calls |-> IF pc[c] \in Reporting
                                 THEN OlderOutcome(outcome[c]) ELSE outcome[c]]
  /\ elapsed' = [c \in Calls |-> IF pc[c] \in Waiting \cup Flying
                                 THEN Older(elapsed[c], PendingTtl)
                                 ELSE elapsed[c]]
  /\ UNCHANGED <<pc, key, stats, lost>>

-----------------------------------------------------------------------------
Begin(c) == \E k \in Keys : \/ ServeRecord(c, k) \/ Join(c, k) \/ Lead(c, k)
                            \/ CheckError(c, k) \/ CheckReject(c, k)

Report(c) == Complete(c) \/ CompleteReject(c) \/ Fail(c)

CallNext(c) == \/ Begin(c) \/ Poll(c) \/ LoopAgain(c) \/ Timeout(c)
               \/ Answer(c) \/ Report(c) \/ Evict(c)

Next == \/ \E c \in Calls : CallNext(c)
        \/ \E k \in Keys : PurgeOne(k)
        \/ PurgeAll
        \/ Alarm
        \/ Tick

Spec == Init /\ [][Next]_vars

(***************************************************************************)
(* What the runtime schedules: timers fire, fetches to the object return   *)
(* and time passes.  Calls need not arrive, and upstream need not answer.  *)
(***************************************************************************)
RuntimeFairness == /\ \A c \in Calls : /\ WF_vars(Poll(c))
                                       /\ WF_vars(LoopAgain(c) \/ Timeout(c))
                                       /\ WF_vars(Report(c))
                   /\ WF_vars(Tick)

FairSpec == Spec /\ RuntimeFairness

\* Upstream, whose failover runs to its end, answers every call.
UpstreamAnswers == \A c \in Calls : WF_vars(Answer(c))

-----------------------------------------------------------------------------
(***************************************************************************)
(* Safety.                                                                 *)
(***************************************************************************)
TypeOK == DedupTypeOK

\* A call holds its registration: within PENDING_TTL, and nothing took the
\* record it created.
Registered(c) == Holds(c) /\ elapsed[c] < PendingTtl

\* Of the calls that are past the check for one hash, at most one still holds
\* its registration: executeWithDeduplication asks upstream twice at a time
\* only after a purge, a lost record or an execution longer than PENDING_TTL.
SingleFlight ==
  \A c, d \in Calls : Registered(c) /\ Registered(d) /\ key[c] = key[d] => c = d

\* What a HIT answers with, result or cached error, was produced by upstream
\* less than RESULT_TTL plus the time of one report ago, whoever wrote the
\* record and however often it was taken over in between.
ServedFresh ==
  \A c \in Calls : pc[c] = "hit" => outcome[c].age < ResultTtl + ReportDelay

\* Every call that runs to an answer has recorded an observation, and a second
\* one only when it answers with an error after a report that was rejected.
Observed ==
  \A c \in Calls : pc[c] \in {"hit", "miss", "timeout"} =>
    \/ stats[c] = 1
    \/ stats[c] = 2 /\ pc[c] = "miss" /\ outcome[c].kind = "error"

\* A settled record is not overwritten while it is served, except by a call
\* that no longer held its registration: a late, purged or unregistered
\* executor, or one that reports a second time.
Overwritten(k) == /\ VisibleSettled(k)
                  /\ row'[k] # row[k]
                  /\ row'[k].status \in {"completed", "failed"}
                  /\ row'[k].age = 0

OutcomeKept ==
  [][\A k \in Keys : Overwritten(k) =>
       \E c \in Calls : /\ pc[c] \in Reporting /\ key[c] = k
                        /\ ~ Registered(c)]_vars

(***************************************************************************)
(* The inductive invariant behind the safety properties.                   *)
(***************************************************************************)
\* A call that holds its registration faces its own pending record.
RecordOfHolder ==
  \A c \in Calls : Registered(c) => /\ row[key[c]].status = "pending"
                                    /\ row[key[c]].age = elapsed[c]

\* An outcome in a record is older than the record by one report at most.
RecordsFresh ==
  \A k \in Keys : row[k].status \in {"completed", "failed"} =>
    row[k].outcome.age <= row[k].age + ReportDelay

\* What a call holds and has recorded at each point of its way.
CallPhases ==
  \A c \in Calls :
    /\ pc[c] \in Waiting \cup {"executing"} => stats[c] = 0
    /\ pc[c] = "completing" => stats[c] = 1 /\ outcome[c].kind = "result"
    /\ pc[c] = "failing" => stats[c] \in {1, 2} /\ outcome[c].kind = "error"
    /\ pc[c] \in Reporting => outcome[c].age <= ReportDelay

DedupInv == /\ TypeOK
            /\ SingleFlight
            /\ RecordOfHolder
            /\ RecordsFresh
            /\ CallPhases
            /\ ServedFresh
            /\ Observed

(***************************************************************************)
(* Refinement: a visible pending record is a lease of its hash, of which   *)
(* RESULT_TTL says nothing and PENDING_TTL everything.                     *)
(***************************************************************************)
Lease == INSTANCE HashLease WITH
           Term <- PendingTtl,
           holders <- [k \in Keys |-> {c \in Calls : Registered(c) /\ key[c] = k}],
           left <- [k \in Keys |-> IF VisiblePending(k) THEN PendingTtl - row[k].age ELSE 0]

\* Who may execute: the table of records, which names no owners, together with
\* calls that come and go, purges, lost answers and a clean-up, implements one
\* lease per hash.
LeaseSpec == Lease!Spec

(***************************************************************************)
(* Liveness.                                                               *)
(***************************************************************************)
\* A call that waits for another ends, whether or not that other one ever
\* reports and whether or not upstream answers.
WaitersEnd == \A c \in Calls : pc[c] \in Waiting ~> pc[c] \in Ended

\* A hash does not stay blocked: an abandoned pending record stops being
\* visible, so the next call for it executes.
KeyNeverStuck == \A k \in Keys : []<> ~ VisiblePending(k)

\* Provided that upstream answers, every call ends.
CallsEnd == UpstreamAnswers => \A c \in Calls : pc[c] \in Flying ~> pc[c] \in Ended

(***************************************************************************)
(* What the documentation says, and the code does not do.                  *)
(***************************************************************************)
\* README: identical concurrent requests execute a single RPC call.  Nobody
\* purges and both executions are within PENDING_TTL of their registration.
OneUpstreamCall ==
  \A c, d \in Calls :
    /\ pc[c] = "executing" /\ pc[d] = "executing" /\ key[c] = key[d]
    /\ elapsed[c] < PendingTtl /\ elapsed[d] < PendingTtl
    => c = d
=============================================================================
