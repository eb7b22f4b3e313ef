----------------------------- MODULE ProxyClient -----------------------------
(***************************************************************************)
(* A proxied action of the client library: the try / catch of every        *)
(* src/actions/*.client.ts around makeProxyRequest, its middleware chain,  *)
(* its two ways of sending (one request, or the hash-reference exchange    *)
(* with GET /cached and POST /store), withRetry, the metrics, and the      *)
(* fallback to direct RPC.                                                 *)
(*                                                                         *)
(* The Worker is seen through its answers.  It can give any answer to any  *)
(* request, with two exceptions, which are the point of the exchange: POST *)
(* /store is acknowledged only after the ParamStore object has written the *)
(* row, and GET /cached answers "unknown hash" only when the object did    *)
(* not see the hash.  What the object does and the arrival of the answer   *)
(* are separate steps, up to a timeout apart.  A middleware that calls     *)
(* next() more than once, or changes the method's name, is left out.       *)
(***************************************************************************)
EXTENDS ParamStore, FiniteSets

CONSTANTS Calls,         \* concurrent actions; each is reused for ever
          Attempts,      \* retryOptions.attempts
          Delay,         \* retryOptions.delay, in ticks
          Timeout        \* timeout, in ticks

ASSUME ClientAssumption == /\ Attempts \in Nat \ {0}
                           /\ Delay \in Nat
                           /\ Timeout \in Nat \ {0}
                           /\ 2 * Timeout <= ParamTtl    \* 30 s, 30 days

VARIABLES pc,            \* pc[c]: where the action is
          way,           \* way[c]: how it is sent
          hash,          \* hash[c]: the hash of its params
          fallback,      \* fallback[c]: whether the client falls back
          tries,         \* tries[c]: attempts begun
          signal,        \* signal[c]: ticks left to its AbortSignal
          pause,         \* pause[c]: ticks left to its backoff
          reason,        \* reason[c]: why the action failed
          records,       \* records[c]: request metrics and fallback events
          sent,          \* sent[c]: attempts that sent anything (history)
          saved,         \* saved[c]: the last store was acknowledged (history)
          done           \* done[c]: what the ParamStore object has done with the
                         \* request of c that is on the wire

control == <<way, hash, fallback>>
client == <<pc, control, tries, signal, pause, reason, records, sent, saved>>
vars == <<mapping, done, client>>

\* A request is on the wire, and the body of its response is being read.
Wire == {"sending", "probing", "storing", "reprobing"}
Open == Wire \cup {"reading"}
Proxied == Open \cup {"ready", "backoff"}
Ended == {"idle", "result", "threw", "directDone"}

\* classifyFallbackReason, with 429 and 5xx as one, "status", a timeout under
\* the body apart, "stalled", and an unknown hash apart from the other errors.
Reasons == {"none", "network", "timeout", "status", "stalled", "unknownHash", "other"}
Transient == {"network", "timeout", "status"}

\* The part of the types that the exchange with the store depends on.
ExchangeTypeOK ==
  /\ ParamStoreTypeOK
  /\ pc \in [Calls -> Proxied \cup Ended \cup {"direct"}]
  /\ hash \in [Calls -> Hashes]
  /\ signal \in [Calls -> 0..Timeout]
  /\ reason \in [Calls -> Reasons]
  /\ saved \in [Calls -> BOOLEAN]
  /\ done \in [Calls -> {"no", "stored", "missed"}]

\* The pause before attempt n + 2: delay * 2^n.
Backoff[n \in Nat] == IF n = 0 THEN Delay ELSE 2 * Backoff[n - 1]

TypeOK ==
  /\ ExchangeTypeOK
  /\ way \in [Calls -> {"plain", "cached"}]
  /\ fallback \in [Calls -> BOOLEAN]
  /\ tries \in [Calls -> 0..Attempts]
  /\ pause \in [Calls -> 0..Backoff[Attempts]]
  /\ records \in [Calls -> [requests : 0..1, errors : 0..1, fallbacks : 0..1]]
  /\ sent \in [Calls -> 0..Attempts]

NoRecord == [requests |-> 0, errors |-> 0, fallbacks |-> 0]

Init ==
  /\ ParamStoreInit
  /\ pc = [c \in Calls |-> "idle"]
  /\ way = [c \in Calls |-> "plain"]
  /\ hash \in [Calls -> Hashes]
  /\ fallback = [c \in Calls |-> TRUE]
  /\ tries = [c \in Calls |-> 0]
  /\ signal = [c \in Calls |-> 0]
  /\ pause = [c \in Calls |-> 0]
  /\ reason = [c \in Calls |-> "none"]
  /\ records = [c \in Calls |-> NoRecord]
  /\ sent = [c \in Calls |-> 0]
  /\ saved = [c \in Calls |-> FALSE]
  /\ done = [c \in Calls |-> "no"]

-----------------------------------------------------------------------------
(***************************************************************************)
(* The end of makeProxyRequest and of the action around it.  On success    *)
(* one request metric; the action may still fail to decode the result.     *)
(* On failure one request metric with an error, then, if the client falls  *)
(* back, one fallback event and the call to direct RPC.                    *)
(***************************************************************************)
Drop(c) == signal' = [signal EXCEPT ![c] = 0]     \* nothing listens to it any more

Return(c) ==
  /\ Drop(c)
  /\ pc' = [pc EXCEPT ![c] = "result"]
  /\ records' = [records EXCEPT ![c].requests = @ + 1]
  /\ UNCHANGED reason

\* The catch of the action: whether to fall back; n requests and e errors have
\* been recorded on the way here.
Caught(c, why, n, e) ==
  /\ Drop(c)
  /\ reason' = [reason EXCEPT ![c] = why]
  /\ pc' = [pc EXCEPT ![c] = IF fallback[c] THEN "direct" ELSE "threw"]
  /\ records' = [records EXCEPT
                   ![c] = [requests |-> @.requests + n, errors |-> @.errors + e,
                           fallbacks |-> IF fallback[c] THEN @.fallbacks + 1
                                                        ELSE @.fallbacks]]

Undecodable(c) == Caught(c, "other", 1, 0)

\* Mutant: the fallback is recorded as a request of its own.
ThrowTwice(c, why) == Caught(c, why, IF fallback[c] THEN 2 ELSE 1, 1)

Throw(c, why) == Caught(c, why, 1, 1)

\* Mutants: one attempt too many; a timeout is not a RetryableError.
RetryMore(c, why) ==
  IF tries[c] <= Attempts
  THEN /\ pc' = [pc EXCEPT ![c] = "backoff"]
       /\ pause' = [pause EXCEPT ![c] = Delay]
       /\ UNCHANGED <<signal, reason, records>>
  ELSE Throw(c, why) /\ UNCHANGED pause

RetryNoTimeout(c, why) ==
  IF tries[c] < Attempts /\ why # "timeout"
  THEN /\ pc' = [pc EXCEPT ![c] = "backoff"]
       /\ pause' = [pause EXCEPT ![c] = Delay]
       /\ UNCHANGED <<signal, reason, records>>
  ELSE Throw(c, why) /\ UNCHANGED pause

\* withRetry: a RetryableError waits for the next attempt, unless this was the
\* last one.
Retry(c, why) ==
  IF tries[c] < Attempts
  THEN /\ pc' = [pc EXCEPT ![c] = "backoff"]
       /\ pause' = [pause EXCEPT ![c] = Backoff[tries[c] - 1]]
       /\ UNCHANGED <<signal, reason, records>>
  ELSE Throw(c, why) /\ UNCHANGED pause

-----------------------------------------------------------------------------
(***************************************************************************)
(* An action begins.  A plain send creates its AbortSignal once, just      *)
(* before the first attempt, and every attempt of the retry loop uses it;  *)
(* the hash-reference exchange creates one per request.                    *)
(***************************************************************************)
Begin(c, w, h, f) ==
  /\ pc[c] \in Ended
  /\ pc' = [pc EXCEPT ![c] = "ready"]
  /\ way' = [way EXCEPT ![c] = w]
  /\ hash' = [hash EXCEPT ![c] = h]
  /\ fallback' = [fallback EXCEPT ![c] = f]
  /\ tries' = [tries EXCEPT ![c] = 0]
  /\ signal' = [signal EXCEPT ![c] = 0]
  /\ pause' = [pause EXCEPT ![c] = 0]
  /\ reason' = [reason EXCEPT ![c] = "none"]
  /\ records' = [records EXCEPT ![c] = NoRecord]
  /\ sent' = [sent EXCEPT ![c] = 0]
  /\ saved' = [saved EXCEPT ![c] = FALSE]
  /\ UNCHANGED <<mapping, done>>

\* A middleware answers by itself or throws before anything is sent; or the
\* call data cannot be encoded (readContract) and no request is even recorded.
Intercept(c) ==
  /\ pc[c] = "ready" /\ tries[c] = 0
  /\ Return(c) \/ Undecodable(c) \/ Throw(c, "other") \/ Caught(c, "other", 0, 0)
  /\ UNCHANGED <<mapping, control, tries, pause, sent, saved, done>>

\* A request leaves the client.
Post(c, to) ==
  /\ pc' = [pc EXCEPT ![c] = to]
  /\ signal' = [signal EXCEPT ![c] = IF way[c] = "cached" \/ tries[c] = 0
                                    THEN Timeout ELSE @]

\* fetch with a signal that was aborted already: rejected, nothing is sent.
Aborted(c) == way[c] = "plain" /\ tries[c] > 0 /\ signal[c] = 0

AttemptAborted(c) ==
  /\ pc[c] = "ready" /\ Aborted(c)
  /\ tries' = [tries EXCEPT ![c] = @ + 1]
  /\ pc' = [pc EXCEPT ![c] = "sending"]
  /\ UNCHANGED <<mapping, control, signal, pause, reason, records, sent, saved, done>>

Attempt(c) ==
  /\ pc[c] = "ready"
  /\ ~ Aborted(c)
  /\ tries' = [tries EXCEPT ![c] = @ + 1]
  /\ sent' = [sent EXCEPT ![c] = @ + 1]
  /\ Post(c, IF way[c] = "plain" THEN "sending" ELSE "probing")
  /\ UNCHANGED <<mapping, control, pause, reason, records, saved, done>>

Wake(c) ==
  /\ pc[c] = "backoff" /\ pause[c] = 0
  /\ pc' = [pc EXCEPT ![c] = "ready"]
  /\ UNCHANGED <<mapping, control, tries, signal, pause, reason, records, sent, saved, done>>

-----------------------------------------------------------------------------
(***************************************************************************)
(* What the ParamStore object does while a request is on its way to it and *)
(* its answer on the way back: the answer arrives later, or never.         *)
(***************************************************************************)
StoreRow(c) ==
  /\ pc[c] = "storing" /\ done[c] = "no"
  /\ Put(hash[c])
  /\ done' = [done EXCEPT ![c] = "stored"]
  /\ UNCHANGED client

Miss(c) ==
  /\ pc[c] \in {"probing", "reprobing"} /\ done[c] = "no"
  /\ ~ Known(hash[c])
  /\ done' = [done EXCEPT ![c] = "missed"]
  /\ UNCHANGED <<mapping, client>>

\* The store request of an action that gave up on it, or of another program.
LateStore(h) == Put(h) /\ UNCHANGED <<done, client>>

-----------------------------------------------------------------------------
\* The answers.  After one no request of the action is on the wire, or a new one.
Answered(c) ==
  /\ done' = [done EXCEPT ![c] = "no"]
  /\ UNCHANGED <<control, tries, sent>>

\* fetch rejects, or the signal aborts it: a RetryableError.
NetworkFails(c) ==
  /\ pc[c] \in Wire /\ signal[c] > 0
  /\ Retry(c, "network")
  /\ UNCHANGED <<mapping, saved>> /\ Answered(c)

\* Mutant: the store request has no signal.
AbortsNoStore(c) ==
  /\ pc[c] \in Wire \ {"storing"} /\ signal[c] = 0
  /\ Retry(c, "timeout")
  /\ UNCHANGED <<mapping, saved>> /\ Answered(c)

Aborts(c) ==
  /\ pc[c] \in Wire /\ signal[c] = 0
  /\ Retry(c, "timeout")
  /\ UNCHANGED <<mapping, saved>> /\ Answered(c)

\* 429 or 5xx to the request itself or to one of the two lookups.
StatusFails(c) ==
  /\ pc[c] \in {"sending", "probing", "reprobing"} /\ signal[c] > 0
  /\ Retry(c, "status")
  /\ UNCHANGED <<mapping, saved>> /\ Answered(c)

\* The headers of an answer.  A lookup may get one although the store does not
\* see the hash any more: a cache between the two may hold it.
Headers(c) ==
  /\ pc[c] \in {"sending", "probing", "reprobing"} /\ signal[c] > 0
  /\ done[c] # "missed"
  /\ pc' = [pc EXCEPT ![c] = "reading"]
  /\ UNCHANGED <<mapping, signal, pause, reason, records, saved>> /\ Answered(c)

\* The body: a result, an error message, or garbage.
Body(c) ==
  /\ pc[c] = "reading" /\ signal[c] > 0
  /\ Return(c) \/ Undecodable(c) \/ Throw(c, "other")
  /\ UNCHANGED <<mapping, pause, saved>> /\ Answered(c)

\* The connection breaks, or the signal aborts, under response.json(): its
\* rejection is not a RetryableError.
BodyFails(c) ==
  /\ pc[c] = "reading"
  /\ Throw(c, IF signal[c] = 0 THEN "stalled" ELSE "other")
  /\ UNCHANGED <<mapping, pause, saved>> /\ Answered(c)

-----------------------------------------------------------------------------
(***************************************************************************)
(* The hash-reference exchange: on an unknown hash the params are stored   *)
(* and the lookup is repeated once.                                        *)
(***************************************************************************)
UnknownHash(c) ==
  /\ pc[c] = "probing" /\ signal[c] > 0
  /\ done[c] = "missed"
  /\ Post(c, "storing")
  /\ UNCHANGED <<mapping, pause, reason, records, saved>> /\ Answered(c)

\* A lookup that is refused, whatever the store holds: 400, 401, 403, a 404
\* without the code of an unknown hash, or one whose body the signal cuts off.
LookupRefused(c) ==
  /\ pc[c] \in {"probing", "reprobing"}
  /\ Throw(c, "other")
  /\ UNCHANGED <<mapping, pause, saved>> /\ Answered(c)

\* Mutant: the store handler answers before its put is done.
StoreOkUnawaited(c) ==
  /\ pc[c] = "storing" /\ signal[c] > 0
  /\ saved' = [saved EXCEPT ![c] = TRUE]
  /\ Post(c, "reprobing")
  /\ UNCHANGED <<mapping, pause, reason, records>> /\ Answered(c)

\* The acknowledgement: the row is as old as the answer took to arrive.
StoreOk(c) ==
  /\ pc[c] = "storing" /\ signal[c] > 0
  /\ done[c] = "stored"
  /\ saved' = [saved EXCEPT ![c] = TRUE]
  /\ Post(c, "reprobing")
  /\ UNCHANGED <<mapping, pause, reason, records>> /\ Answered(c)

\* 429 or 5xx to the store: the client looks the hash up again all the same.
StoreStatusFails(c) ==
  /\ pc[c] = "storing" /\ signal[c] > 0
  /\ saved' = [saved EXCEPT ![c] = FALSE]
  /\ Post(c, "reprobing")
  /\ UNCHANGED <<mapping, pause, reason, records>> /\ Answered(c)

\* 400, 413, ...: the params are too large, or are refused, before any put.
StoreRefused(c) ==
  /\ pc[c] = "storing" /\ signal[c] > 0
  /\ done[c] = "no"
  /\ Throw(c, "other")
  /\ UNCHANGED <<mapping, pause, saved>> /\ Answered(c)

\* The second lookup does not find the hash: an error like any other.
StillUnknown(c) ==
  /\ pc[c] = "reprobing" /\ signal[c] > 0
  /\ done[c] = "missed"
  /\ Throw(c, "unknownHash")
  /\ UNCHANGED <<mapping, pause, saved>> /\ Answered(c)

-----------------------------------------------------------------------------
\* viem answers or fails by itself.
Direct(c) ==
  /\ pc[c] = "direct"
  /\ pc' = [pc EXCEPT ![c] = "directDone"]
  /\ UNCHANGED <<mapping, control, tries, signal, pause, reason, records, sent, saved, done>>

Alarm == Sweep /\ UNCHANGED <<done, client>>

Down(n) == IF n > 0 THEN n - 1 ELSE 0

Tick ==
  /\ signal' = [c \in Calls |-> IF pc[c] \in Proxied THEN Down(signal[c]) ELSE signal[c]]
  /\ pause' = [c \in Calls |-> IF pc[c] = "backoff" THEN Down(pause[c]) ELSE pause[c]]
  /\ AgeMappings
  /\ UNCHANGED <<pc, control, tries, reason, records, sent, saved, done>>

Local(c) == AttemptAborted(c) \/ Attempt(c) \/ Wake(c)

Expires(c) == Aborts(c) \/ (signal[c] = 0 /\ BodyFails(c))

Exchange(c) == \/ NetworkFails(c) \/ StatusFails(c) \/ Headers(c) \/ Body(c)
               \/ BodyFails(c) \/ UnknownHash(c) \/ LookupRefused(c)
               \/ StoreOk(c) \/ StoreStatusFails(c) \/ StoreRefused(c)
               \/ StillUnknown(c)

CallNext(c) ==
  \/ \E w \in {"plain", "cached"}, h \in Hashes, f \in BOOLEAN : Begin(c, w, h, f)
  \/ Intercept(c) \/ Local(c) \/ Aborts(c) \/ Exchange(c) \/ Direct(c)
  \/ StoreRow(c) \/ Miss(c)

Next == \/ \E c \in Calls : CallNext(c)
        \/ \E h \in Hashes : LateStore(h)
        \/ Alarm
        \/ Tick

Spec == Init /\ [][Next]_vars

\* Timers and promise callbacks run; the Worker need not answer anything.
FairSpec == /\ Spec
            /\ \A c \in Calls : WF_vars(Local(c)) /\ WF_vars(Expires(c))
            /\ WF_vars(Tick)

-----------------------------------------------------------------------------
Failed == {"direct", "threw", "directDone"}

\* An action that failed on a rejected fetch or on a 429 or 5xx answer had used
\* all its attempts, on either way of sending: direct RPC comes last.
RetriedFirst ==
  \A c \in Calls : pc[c] \in Failed /\ reason[c] \in Transient => tries[c] = Attempts

\* The metrics count every action once, at its end, as a success or an error,
\* and a fallback exactly when direct RPC was called, however many attempts and
\* requests it took.  Only what a middleware or the encoding of the call stopped
\* can be missing from the requests.
MetricsExact ==
  \A c \in Calls :
    /\ pc[c] \in Proxied => records[c] = NoRecord
    /\ records[c].fallbacks = IF pc[c] \in {"direct", "directDone"} THEN 1 ELSE 0
    /\ pc[c] = "result" => records[c].requests = 1 /\ records[c].errors = 0
    /\ pc[c] \in Failed /\ tries[c] > 0 => records[c].requests = 1
    /\ records[c].errors <= records[c].requests

\* A store that was acknowledged is seen by the lookup that follows it, however
\* long the acknowledgement and the lookup were under way, and even when the old
\* row was about to expire or the alarm runs in between.
StoredIsFound == \A c \in Calls : reason[c] = "unknownHash" => ~ saved[c]

\* Why StoredIsFound holds.  A row is at most one timeout old when its
\* acknowledgement arrives, and so less than two while a lookup after it can
\* still be answered.
SavedIsYoung ==
  \A c \in Calls : signal[c] > 0 =>
    /\ pc[c] = "storing" /\ done[c] = "stored" =>
         mapping[hash[c]].there /\ mapping[hash[c]].age + signal[c] <= Timeout
    /\ pc[c] = "reprobing" /\ saved[c] =>
         /\ mapping[hash[c]].there /\ mapping[hash[c]].age + signal[c] < 2 * Timeout
         /\ done[c] # "missed"

ExchangeInv == /\ ExchangeTypeOK
               /\ \A c \in Calls : pc[c] \in Proxied => reason[c] = "none"
               /\ SavedIsYoung
               /\ StoredIsFound

\* Every action gets to a result, an error or direct RPC, although the Worker
\* may never answer any of its requests.
ProxiedEnds == \A c \in Calls : pc[c] \in Proxied ~> pc[c] \notin Proxied

\* add-retry-and-trace: timeouts are transient failures and are retried.  An
\* action whose last fetch timed out has sent something in each of its attempts.
TimeoutsRetried ==
  \A c \in Calls : pc[c] \in Failed /\ reason[c] = "timeout" => sent[c] = Attempts
=============================================================================
