--------------------------- MODULE GatewayProofs ---------------------------
(***************************************************************************)
(* Theorems about Gateway, for every finite set of requests and whatever   *)
(* they may be, every limit, number of minutes and retention of rows, and  *)
(* every configuration of chains, origins and API key.                     *)
(***************************************************************************)
EXTENDS Gateway, FiniteSetTheorems, TLAPS

\* What may be charged: requests of a limited route that got past the door.
Chargeable(req) == /\ req.route \in Api \ (RATE_LIMIT_EXEMPT_PATHS \cup {"preflight"})
                   /\ ~ Foreign(req)
                   /\ req.body # "query"

\* Only the request that is charged now gets a minute, which is the present one.
Charges ==
  \A r \in Requests :
    /\ charged[r] # Never => charged[r] <= now
    /\ pc[r] \in {"new", "limiting"} => charged[r] = Never /\ verdict[r] = "none"
    /\ pc[r] = "limiting" \/ charged[r] # Never => Chargeable(what[r])

Counts == \A u \in Clients, m \in Minutes :
            ~ Stale(m, now) => counters[u][m] = Cardinality(ChargedIn(u, m))

\* A rejection is one of somebody who is over the limit ...
Rejections ==
  \A r \in Requests : verdict[r] = "rejected" =>
    /\ charged[r] # Never
    /\ Cardinality(ChargedIn(what[r].client, charged[r]) \ {r}) >= Limit

\* ... and a 429 comes of a rejection.
Replies == \A r \in Requests : reply[r].status = 429 => verdict[r] = "rejected"

RateInv == /\ GatewayTypeOK
           /\ reply = [r \in Requests |-> reply[r]]
           /\ Charges
           /\ Counts
           /\ WindowBound
           /\ Rejections
           /\ Replies

Statuses == {0, 200, 204, 400, 401, 403, 404, 413, 429, 500, 501, 502}

-----------------------------------------------------------------------------
\* One request is answered, with a status that is no verdict of the limiter,
\* or goes on; the object it may make is one its route and chain justify.
Justified(req) == /\ req.chain \in Servable \/ req.route = "purge"
                  /\ ApiKey => req.key

Moved(r, req, statuses) ==
  \/ \E status \in statuses : Answer(r, status) /\ objects' = objects
  \/ Goto(r, "looking") /\ objects' = objects /\ Justified(req)
  \/ Goto(r, "executing") /\ objects' = objects
  \/ Goto(r, "executing") /\ objects' = objects \cup {req.chain} /\ Justified(req)

Verdictless == {200, 204, 400, 401, 403, 404, 413, 500, 501}

LEMMA HandleMoves ==
  ASSUME NEW r, NEW req, Handle(r, req), ~ Unauthorized(req)
  PROVE  Moved(r, req, Verdictless)
<1> USE DEF Moved, Verdictless, Reply, Execute, Supported
<1>0. req.route \in Api \ PUBLIC_API_PATHS => (ApiKey => req.key)
  BY DEF Unauthorized
<1>a. {"compressed", "cached", "action", "batch", "purge"} \subseteq Api \ PUBLIC_API_PATHS
  BY DEF Api, PUBLIC_API_PATHS
<1>1. CASE req.route \in {"root", "dashboard", "health"}
  <2>1. Reply(r, 200) BY <1>1 DEF Handle
  <2> QED BY <2>1
<1>2. CASE req.route = "compressed"
  <2>1. HandleCompressed(r, req) BY <1>2 DEF Handle
  <2> QED BY <1>0, <1>a, <1>2, <2>1 DEF HandleCompressed, Justified
<1>3. CASE req.route = "cached"
  <2>1. HandleCached(r, req) BY <1>3 DEF Handle
  <2> QED BY <1>0, <1>a, <1>3, <2>1 DEF HandleCached, Justified
<1>4. CASE req.route = "action"
  <2>1. HandleAction(r, req) BY <1>4 DEF Handle
  <2> QED BY <1>0, <1>a, <1>4, <2>1 DEF HandleAction, Justified
<1>5. CASE req.route = "direct"
  <2>1. HandleDirect(r, req) BY <1>5 DEF Handle
  <2> QED BY <2>1 DEF HandleDirect
<1>6. CASE req.route = "batch"
  <2>1. HandleBatch(r, req) BY <1>6 DEF Handle
  <2> QED BY <1>0, <1>a, <1>6, <2>1 DEF HandleBatch, Justified
<1>7. CASE req.route = "store"
  <2>1. HandleStore(r, req) BY <1>7 DEF Handle
  <2> QED BY <2>1 DEF HandleStore
<1>8. CASE req.route = "purge"
  <2>1. HandlePurge(r, req) BY <1>8 DEF Handle
  <2> QED BY <1>0, <1>a, <1>8, <2>1 DEF HandlePurge, Justified
<1>9. CASE req.route = "stats"
  <2>1. HandleStats(r, req) BY <1>9 DEF Handle
  <2> QED BY <2>1 DEF HandleStats
<1>10. CASE req.route \notin {"root", "dashboard", "health", "compressed", "cached",
                             "action", "direct", "batch", "store", "purge", "stats"}
  <2>1. Reply(r, 404) BY <1>10 DEF Handle
  <2> QED BY <2>1
<1> QED BY <1>1, <1>2, <1>3, <1>4, <1>5, <1>6, <1>7, <1>8, <1>9, <1>10

LEMMA EnterMoves ==
  ASSUME NEW r, NEW req, Enter(r, req)
  PROVE  Moved(r, req, Verdictless)
<1>1. CASE Unauthorized(req)
  BY <1>1 DEF Enter, Reply, Moved, Verdictless
<1>2. CASE ~ Unauthorized(req)
  BY <1>2, HandleMoves DEF Enter
<1> QED BY <1>1, <1>2

\* Nothing but request r has moved, to an answer with one of the statuses or
\* onwards.
Progress(r, statuses) ==
  /\ pc' \in [Requests -> States]
  /\ reply' = [q \in Requests |-> reply'[q]]
  /\ objects' \subseteq Nat
  /\ \A q \in Requests \ {r} : pc'[q] = pc[q] /\ reply'[q] = reply[q]
  /\ \/ /\ pc'[r] = "answered"
        /\ reply'[r].status \in statuses
        /\ reply'[r] # NoReply
        /\ reply'[r].ttl > 0 => reply'[r].status = 200
     \/ /\ pc'[r] \in {"limiting", "decided", "looking", "executing"}
        /\ reply'[r] = reply[r]

LEMMA AnswerProgress ==
  ASSUME RateInv, NEW r \in Requests, NEW status \in Statuses \ {0}, Answer(r, status),
         objects' \subseteq Nat
  PROVE  Progress(r, {status})
<1>1. /\ pc \in [Requests -> States] /\ reply = [q \in Requests |-> reply[q]]
  BY DEF RateInv, GatewayTypeOK
<1>2. pc' \in [Requests -> States] /\ pc'[r] = "answered"
  BY <1>1 DEF Answer, States
<1>3. reply'[r] = [status |-> status, ttl |-> 0] /\ reply'[r] # NoReply
  BY <1>1 DEF Answer, NoReply, Statuses
<1>4. reply' = [q \in Requests |-> reply'[q]] BY <1>1 DEF Answer
<1>5. \A q \in Requests \ {r} : pc'[q] = pc[q] /\ reply'[q] = reply[q]
  BY <1>1 DEF Answer
<1> QED BY <1>2, <1>3, <1>4, <1>5 DEF Progress

LEMMA KeepProgress ==
  ASSUME RateInv, NEW r \in Requests, NEW ttl, Keep(r, ttl), objects' \subseteq Nat
  PROVE  Progress(r, {200})
<1>1. /\ pc \in [Requests -> States] /\ reply = [q \in Requests |-> reply[q]]
  BY DEF RateInv, GatewayTypeOK
<1>2. pc' \in [Requests -> States] /\ pc'[r] = "answered"
  BY <1>1 DEF Keep, States
<1>3. reply'[r] = [status |-> 200, ttl |-> ttl] /\ reply'[r] # NoReply
  BY <1>1 DEF Keep, NoReply
<1>4. reply' = [q \in Requests |-> reply'[q]] BY <1>1 DEF Keep
<1>5. \A q \in Requests \ {r} : pc'[q] = pc[q] /\ reply'[q] = reply[q]
  BY <1>1 DEF Keep
<1> QED BY <1>2, <1>3, <1>4, <1>5 DEF Progress

LEMMA GotoProgress ==
  ASSUME RateInv, NEW r \in Requests, NEW state \in {"limiting", "looking", "executing"},
         Goto(r, state), objects' \subseteq Nat, NEW statuses
  PROVE  Progress(r, statuses) /\ pc'[r] = state
<1>1. /\ pc \in [Requests -> States] /\ reply = [q \in Requests |-> reply[q]]
  BY DEF RateInv, GatewayTypeOK
<1>2. pc' \in [Requests -> States] /\ pc'[r] = state
  BY <1>1 DEF Goto, States
<1>3. \A q \in Requests \ {r} : pc'[q] = pc[q]
  BY <1>1 DEF Goto
<1> QED BY <1>1, <1>2, <1>3 DEF Progress, Goto

LEMMA MovedProgress ==
  ASSUME RateInv, NEW r \in Requests, Moved(r, what[r], Verdictless)
  PROVE  Progress(r, Verdictless) /\ pc'[r] # "limiting"
<1>1. objects \subseteq Nat /\ what[r].chain \in Nat
  BY RequestsAssumption DEF RateInv, GatewayTypeOK
<1>2. objects' \subseteq Nat BY <1>1 DEF Moved
<1>3. ASSUME NEW status \in Verdictless, Answer(r, status)
      PROVE  Progress(r, Verdictless) /\ pc'[r] # "limiting"
  <2>1. Progress(r, {status}) BY <1>2, <1>3, AnswerProgress DEF Statuses, Verdictless
  <2>2. pc'[r] = "answered" BY <1>3 DEF Answer, RateInv, GatewayTypeOK
  <2> QED BY <2>1, <2>2 DEF Progress
<1>4. CASE Goto(r, "looking") BY <1>2, <1>4, GotoProgress
<1>5. CASE Goto(r, "executing") BY <1>2, <1>5, GotoProgress
<1> QED BY <1>3, <1>4, <1>5 DEF Moved

\* The parts about charges go with a step that neither charges nor decides.
LEMMA ProgressInv ==
  ASSUME RateInv, NEW r \in Requests, pc[r] # "answered",
         NEW statuses \in SUBSET Statuses, Progress(r, statuses),
         429 \in statuses => verdict[r] = "rejected",
         pc'[r] = "limiting" => pc[r] = "new" /\ Chargeable(what[r]),
         UNCHANGED <<counters, what, verdict, charged, now>>
  PROVE  RateInv'
<1>1. /\ pc \in [Requests -> States] /\ reply[r] = NoReply /\ pc[r] # "answered"
      /\ pc' \in [Requests -> States]
  BY DEF RateInv, GatewayTypeOK, Progress
<1>2. GatewayTypeOK'
  <2>1. ASSUME NEW q \in Requests
        PROVE  /\ reply'[q].status \in Statuses
               /\ reply'[q].ttl > 0 => reply'[q].status = 200
               /\ pc'[q] = "answered" <=> reply'[q] # NoReply
    <3>0. /\ reply[q].status \in Statuses
          /\ reply[q].ttl > 0 => reply[q].status = 200
          /\ pc[q] = "answered" <=> reply[q] # NoReply
      BY DEF RateInv, GatewayTypeOK, Statuses
    <3>1. CASE q # r BY <3>0, <3>1 DEF Progress
    <3>2. CASE q = r BY <1>1, <3>0, <3>2 DEF Progress
    <3> QED BY <3>1, <3>2
  <2>2. RateLimiterTypeOK' BY DEF RateInv, GatewayTypeOK, RateLimiterTypeOK
  <2> QED BY <2>1, <2>2 DEF RateInv, GatewayTypeOK, Progress, Statuses
<1>3. Charges'
  <2>1. ASSUME NEW q \in Requests
        PROVE  /\ charged[q] # Never => charged[q] <= now
               /\ pc'[q] \in {"new", "limiting"} => charged[q] = Never /\ verdict[q] = "none"
               /\ pc'[q] = "limiting" \/ charged[q] # Never => Chargeable(what[q])
    <3>1. CASE q # r BY <3>1 DEF RateInv, Charges, Progress
    <3>2. CASE q = r
      <4>1. pc'[r] # "new" BY DEF Progress
      <4> QED BY <3>2, <4>1 DEF RateInv, Charges
    <3> QED BY <3>1, <3>2
  <2> QED BY <2>1 DEF Charges, Chargeable, Foreign
<1>4. Counts' /\ WindowBound' /\ Rejections'
  BY DEF RateInv, Counts, WindowBound, Rejections, ChargedIn, Of, Stale
<1>5. Replies'
  <2>1. ASSUME NEW q \in Requests, reply'[q].status = 429 PROVE verdict[q] = "rejected"
    <3>1. CASE q # r BY <2>1, <3>1 DEF RateInv, Replies, Progress
    <3>2. CASE q = r BY <1>1, <2>1, <3>2 DEF Progress, NoReply
    <3> QED BY <3>1, <3>2
  <2> QED BY <2>1 DEF Replies
<1> QED BY <1>2, <1>3, <1>4, <1>5 DEF RateInv, Progress

-----------------------------------------------------------------------------
LEMMA ArriveInv ==
  ASSUME RateInv, NEW r \in Requests, Arrive(r)
  PROVE  RateInv'
<1> DEFINE req == what[r]
<1>1. /\ pc[r] = "new" /\ pc[r] # "answered"
      /\ UNCHANGED <<counters, what, verdict, charged, now>>
      /\ objects \subseteq Nat /\ req.route \in Routes
  BY DEF Arrive, RateInv, GatewayTypeOK
<1>2. ASSUME NEW status \in {204, 400, 403}, Reply(r, status) PROVE RateInv'
  <2>1. Progress(r, {status}) BY <1>1, <1>2, AnswerProgress DEF Reply, Statuses
  <2>2. pc'[r] # "limiting" BY <1>2 DEF Reply, Answer, RateInv, GatewayTypeOK
  <2>3. {status} \in SUBSET Statuses BY DEF Statuses
  <2> QED BY <1>1, <2>1, <2>2, <2>3, ProgressInv
<1>3. ASSUME Goto(r, "limiting"), UNCHANGED objects, Limited(req), ~ Foreign(req),
             req.body # "query" \/ req.route \notin Api, req.route # "preflight"
      PROVE  RateInv'
  <2>1. Progress(r, {}) BY <1>1, <1>3, GotoProgress
  <2>2. Chargeable(req) BY <1>3 DEF Chargeable, Limited
  <2> QED BY <1>1, <2>1, <2>2, ProgressInv
<1>4. ASSUME Enter(r, req) PROVE RateInv'
  <2>1. Moved(r, req, Verdictless) BY <1>4, EnterMoves
  <2>2. Progress(r, Verdictless) /\ pc'[r] # "limiting" BY <2>1, MovedProgress
  <2>3. Verdictless \in SUBSET Statuses /\ 429 \notin Verdictless
    BY DEF Verdictless, Statuses
  <2> QED BY <1>1, <2>2, <2>3, ProgressInv
<1> QED BY <1>2, <1>3, <1>4 DEF Arrive

LEMMA DecideInv ==
  ASSUME RateInv, NEW r \in Requests, Decide(r)
  PROVE  RateInv'
<1>1. /\ pc[r] = "decided" /\ pc[r] # "answered"
      /\ UNCHANGED <<counters, what, verdict, charged, now>>
      /\ objects \subseteq Nat
  BY DEF Decide, RateInv, GatewayTypeOK
<1>2. ASSUME verdict[r] = "rejected", Reply(r, 429) PROVE RateInv'
  <2>1. Progress(r, {429}) BY <1>1, <1>2, AnswerProgress DEF Reply, Statuses
  <2>2. pc'[r] # "limiting" BY <1>2 DEF Reply, Answer, RateInv, GatewayTypeOK
  <2>3. {429} \in SUBSET Statuses BY DEF Statuses
  <2> QED BY <1>1, <1>2, <2>1, <2>2, <2>3, ProgressInv
<1>3. ASSUME Enter(r, what[r]) PROVE RateInv'
  <2>1. Moved(r, what[r], Verdictless) BY <1>3, EnterMoves
  <2>2. Progress(r, Verdictless) /\ pc'[r] # "limiting" BY <2>1, MovedProgress
  <2>3. Verdictless \in SUBSET Statuses /\ 429 \notin Verdictless
    BY DEF Verdictless, Statuses
  <2> QED BY <1>1, <2>2, <2>3, ProgressInv
<1> QED BY <1>2, <1>3 DEF Decide

LEMMA LookUpInv ==
  ASSUME RateInv, NEW r \in Requests, LookUp(r)
  PROVE  RateInv'
<1>1. /\ pc[r] = "looking" /\ pc[r] # "answered"
      /\ UNCHANGED <<counters, what, verdict, charged, now>>
      /\ objects \subseteq Nat /\ what[r].chain \in Nat
  BY RequestsAssumption DEF LookUp, RateInv, GatewayTypeOK
<1>2. ASSUME NEW status \in {404, 500}, Reply(r, status) PROVE RateInv'
  <2>1. Progress(r, {status}) BY <1>1, <1>2, AnswerProgress DEF Reply, Statuses
  <2>2. pc'[r] # "limiting" BY <1>2 DEF Reply, Answer, RateInv, GatewayTypeOK
  <2>3. {status} \in SUBSET Statuses BY DEF Statuses
  <2> QED BY <1>1, <2>1, <2>2, <2>3, ProgressInv
<1>3. ASSUME Execute(r, what[r].chain) PROVE RateInv'
  <2>1. Progress(r, {}) /\ pc'[r] = "executing"
    BY <1>1, <1>3, GotoProgress DEF Execute
  <2> QED BY <1>1, <2>1, ProgressInv
<1> QED BY <1>2, <1>3 DEF LookUp

\* How an execution may end.
LEMMA FinishMoves ==
  ASSUME NEW r \in Requests, Finish(r)
  PROVE  (\E ttl : Keep(r, ttl)) \/ \E status \in {500, 502} : Answer(r, status)
<1> DEFINE route == what[r].route
<1>1. CASE route \in {"compressed", "cached", "action"} BY <1>1 DEF Finish
<1>2. CASE route \in {"direct", "store"} BY <1>2 DEF Finish
<1>3. CASE route \in {"purge", "stats"} BY <1>3 DEF Finish
<1>4. CASE route \notin {"compressed", "cached", "action", "direct", "store", "purge", "stats"}
  <2>1. Keep(r, 0) BY <1>4 DEF Finish
  <2> QED BY <2>1
<1> QED BY <1>1, <1>2, <1>3, <1>4

LEMMA FinishInv ==
  ASSUME RateInv, NEW r \in Requests, Finish(r)
  PROVE  RateInv'
<1>1. /\ pc[r] = "executing" /\ pc[r] # "answered"
      /\ UNCHANGED <<counters, what, verdict, charged, now>>
      /\ objects' \subseteq Nat
  BY DEF Finish, RateInv, GatewayTypeOK
<1>2. ASSUME NEW ttl, Keep(r, ttl) PROVE RateInv'
  <2>1. Progress(r, {200}) BY <1>1, <1>2, KeepProgress
  <2>2. pc'[r] # "limiting" BY <1>2 DEF Keep, RateInv, GatewayTypeOK
  <2>3. {200} \in SUBSET Statuses BY DEF Statuses
  <2> QED BY <1>1, <2>1, <2>2, <2>3, ProgressInv
<1>3. ASSUME NEW status \in {500, 502}, Answer(r, status) PROVE RateInv'
  <2>1. Progress(r, {status}) BY <1>1, <1>3, AnswerProgress DEF Statuses
  <2>2. pc'[r] # "limiting" BY <1>3 DEF Answer, RateInv, GatewayTypeOK
  <2>3. {status} \in SUBSET Statuses BY DEF Statuses
  <2> QED BY <1>1, <2>1, <2>2, <2>3, ProgressInv
<1> QED BY <1>2, <1>3, FinishMoves

LEMMA UnreachableInv ==
  ASSUME RateInv, NEW r \in Requests, Unreachable(r)
  PROVE  RateInv'
<1>1. /\ pc[r] = "limiting" /\ pc[r] # "answered"
      /\ UNCHANGED <<counters, what, verdict, charged, now, reply, objects>>
      /\ pc' = [pc EXCEPT ![r] = "decided"]
  BY DEF Unreachable
<1>2. Progress(r, {}) BY <1>1 DEF Progress, RateInv, GatewayTypeOK, States
<1>3. pc'[r] # "limiting" BY <1>1 DEF RateInv, GatewayTypeOK
<1> QED BY <1>1, <1>2, <1>3, ProgressInv

LEMMA TickInv ==
  ASSUME RateInv, Tick
  PROVE  RateInv'
<1>1. /\ now \in Nat /\ now' = now + 1 /\ now' \in Minutes /\ Minutes \subseteq Nat
      /\ Retained \in Nat
      /\ UNCHANGED <<counters, pc, what, verdict, charged, reply, objects>>
  BY RateAssumption DEF Tick, RateInv, GatewayTypeOK, Minutes
<1>2. GatewayTypeOK'
  BY <1>1 DEF RateInv, GatewayTypeOK, RateLimiterTypeOK
<1>3. Charges'
  <2>1. \A r \in Requests : charged[r] # Never => charged[r] <= now'
    <3> SUFFICES ASSUME NEW r \in Requests, charged[r] # Never PROVE charged[r] <= now'
      OBVIOUS
    <3>1. charged[r] \in Nat /\ charged[r] <= now
      BY <1>1 DEF RateInv, Charges, GatewayTypeOK
    <3> QED BY <1>1, <3>1
  <2> QED BY <1>1, <2>1 DEF RateInv, Charges, Chargeable, Foreign
<1>4. Counts'
  <2>1. \A m \in Minutes : Stale(m, now) => Stale(m, now')
    BY <1>1 DEF Stale
  <2> QED BY <1>1, <2>1 DEF RateInv, Counts, ChargedIn, Of
<1>5. WindowBound' /\ Rejections' /\ Replies'
  BY <1>1 DEF RateInv, WindowBound, Rejections, Replies, ChargedIn, Of
<1> QED BY <1>1, <1>2, <1>3, <1>4, <1>5 DEF RateInv

-----------------------------------------------------------------------------
\* The requests charged to a minute are finitely many.
LEMMA ChargedFinite ==
  ASSUME NEW u, NEW m
  PROVE  /\ IsFiniteSet(ChargedIn(u, m)) /\ Cardinality(ChargedIn(u, m)) \in Nat
         /\ \A S \in SUBSET ChargedIn(u, m) :
              IsFiniteSet(S) /\ Cardinality(S) \in Nat /\ Cardinality(S) <= Cardinality(ChargedIn(u, m))
<1>1. ChargedIn(u, m) \in SUBSET Requests BY DEF ChargedIn, Of
<1>2. IsFiniteSet(ChargedIn(u, m)) BY <1>1, FS_Subset, RequestsAssumption
<1> QED BY <1>2, FS_Subset, FS_CardinalityType

\* What a charge does to these sets.
LEMMA ChargeSets ==
  ASSUME RateInv, NEW r \in Requests, Charge(r)
  PROVE  /\ r \notin ChargedIn(what[r].client, now)
         /\ ChargedIn(what[r].client, now)' = ChargedIn(what[r].client, now) \cup {r}
         /\ \A u \in Clients, m \in Minutes :
              <<u, m>> # <<what[r].client, now>> => ChargedIn(u, m)' = ChargedIn(u, m)
<1>1. /\ charged \in [Requests -> Minutes \cup {Never}] /\ now \in Minutes
      /\ charged[r] = Never /\ charged' = [charged EXCEPT ![r] = now]
      /\ UNCHANGED <<what, now>>
  BY DEF Charge, RateInv, GatewayTypeOK, Charges
<1>2. Never \notin Minutes BY RateAssumption DEF Never, Minutes
<1>3. charged'[r] = now /\ \A q \in Requests \ {r} : charged'[q] = charged[q] BY <1>1
<1> QED BY <1>1, <1>2, <1>3 DEF ChargedIn, Of

LEMMA ChargeInv ==
  ASSUME RateInv, NEW r \in Requests, Charge(r)
  PROVE  RateInv'
<1> DEFINE u == what[r].client
           C == ChargedIn(u, now)
<1>1. /\ u \in Clients /\ now \in Minutes /\ Limit \in Nat /\ Minutes \subseteq Nat
      /\ pc[r] = "limiting" /\ reply[r] = NoReply
      /\ counters \in [Clients -> [Minutes -> Nat]]
      /\ charged \in [Requests -> Minutes \cup {Never}] /\ Never \notin Minutes
      /\ verdict \in [Requests -> {"none", "allowed", "rejected"}]
      /\ pc \in [Requests -> States]
      /\ charged' = [charged EXCEPT ![r] = now]
      /\ pc' = [pc EXCEPT ![r] = "decided"]
      /\ Consume(u, now)
      /\ UNCHANGED <<what, reply, objects, now>>
  BY RequestsAssumption, GatewayAssumption, RateAssumption
  DEF Charge, RateInv, GatewayTypeOK, RateLimiterTypeOK, Minutes, Never
<1>2. /\ charged'[r] = now /\ pc'[r] = "decided"
      /\ \A q \in Requests \ {r} : charged'[q] = charged[q] /\ pc'[q] = pc[q]
  BY <1>1
<1>3. /\ verdict' \in [Requests -> {"none", "allowed", "rejected"}]
      /\ verdict'[r] = "allowed" => counters[u][now] + 1 <= Limit
      /\ verdict'[r] = "rejected" => ~ (counters[u][now] + 1 <= Limit)
      /\ \A q \in Requests \ {r} : verdict'[q] = verdict[q]
  BY <1>1 DEF Charge, Allowed
<1>4. /\ r \notin C /\ C' = C \cup {r}
      /\ \A v \in Clients, m \in Minutes :
           <<v, m>> # <<u, now>> => ChargedIn(v, m)' = ChargedIn(v, m)
  BY ChargeSets
<1>5. ~ Stale(now, now) BY <1>1, RateAssumption DEF Stale
<1>6. counters[u][now] = Cardinality(C) BY <1>1, <1>5 DEF RateInv, Counts
<1>7. /\ IsFiniteSet(C) /\ Cardinality(C) \in Nat
      /\ Cardinality(C \cup {r}) = Cardinality(C) + 1
  BY <1>4, ChargedFinite, FS_AddElement
<1>8. /\ counters' \in [Clients -> [Minutes -> Nat]]
      /\ counters'[u][now] = counters[u][now] + 1
      /\ \A v \in Clients, m \in Minutes :
           ~ Stale(m, now) /\ <<v, m>> # <<u, now>> => counters'[v][m] = counters[v][m]
  BY <1>1 DEF Consume
<1>9. GatewayTypeOK'
  <2>1. charged' \in [Requests -> Minutes \cup {Never}] BY <1>1
  <2>2. pc' \in [Requests -> States] BY <1>1 DEF States
  <2>3. \A q \in Requests : pc'[q] = "answered" <=> reply'[q] # NoReply
    BY <1>1, <1>2 DEF RateInv, GatewayTypeOK
  <2>4. RateLimiterTypeOK' BY <1>8 DEF RateLimiterTypeOK
  <2> QED BY <1>1, <1>3, <2>1, <2>2, <2>3, <2>4 DEF RateInv, GatewayTypeOK
<1>10. Charges'
  <2>1. Chargeable(what[r]) BY <1>1 DEF RateInv, Charges
  <2>2. ASSUME NEW q \in Requests
        PROVE  /\ charged'[q] # Never => charged'[q] <= now
               /\ pc'[q] \in {"new", "limiting"} => charged'[q] = Never /\ verdict'[q] = "none"
               /\ pc'[q] = "limiting" \/ charged'[q] # Never => Chargeable(what[q])
    <3>1. CASE q = r BY <1>1, <1>2, <2>1, <3>1
    <3>2. CASE q # r BY <1>2, <1>3, <3>2 DEF RateInv, Charges
    <3> QED BY <3>1, <3>2
  <2> QED BY <1>1, <2>2 DEF Charges, Chargeable, Foreign
<1>11. Counts'
  <2>1. ASSUME NEW v \in Clients, NEW m \in Minutes, ~ Stale(m, now)
        PROVE  counters'[v][m] = Cardinality(ChargedIn(v, m)')
    <3>1. CASE v = u /\ m = now BY <1>1, <1>4, <1>6, <1>7, <1>8, <3>1
    <3>2. CASE <<v, m>> # <<u, now>>
      BY <1>4, <1>8, <2>1, <3>2 DEF RateInv, Counts
    <3> QED BY <3>1, <3>2
  <2> QED BY <1>1, <2>1 DEF Counts, Stale
<1>12. WindowBound'
  <2>1. ASSUME NEW v \in Clients, NEW m \in Minutes
        PROVE  Cardinality({q \in ChargedIn(v, m)' : verdict'[q] = "allowed"}) <= Limit
    <3> DEFINE A == {q \in ChargedIn(v, m) : verdict[q] = "allowed"}
               B == {q \in ChargedIn(v, m)' : verdict'[q] = "allowed"}
    <3>0. Cardinality(A) <= Limit BY DEF RateInv, WindowBound
    <3>1. CASE v = u /\ m = now /\ verdict'[r] = "allowed"
      <4>1. Cardinality(C) + 1 <= Limit BY <1>3, <1>6, <3>1
      <4>2. B \in SUBSET (C \cup {r}) /\ IsFiniteSet(C \cup {r})
        BY <1>1, <1>4, <1>7, <3>1, FS_AddElement
      <4>3. Cardinality(B) <= Cardinality(C) + 1 /\ Cardinality(B) \in Nat
        BY <1>7, <4>2, FS_Subset, FS_CardinalityType
      <4> HIDE DEF B, C
      <4> QED BY <1>1, <1>7, <4>1, <4>3 DEF B
    <3>2. CASE v = u /\ m = now /\ verdict'[r] # "allowed"
      <4>1. B = A BY <1>1, <1>3, <1>4, <3>2 DEF ChargedIn, Of
      <4> QED BY <3>0, <4>1
    <3>3. CASE <<v, m>> # <<u, now>>
      <4>1. ChargedIn(v, m)' = ChargedIn(v, m) BY <1>4, <3>3
      <4>2. r \notin ChargedIn(v, m)
        BY <1>1 DEF RateInv, Charges, ChargedIn
      <4>3. B = A BY <1>3, <4>1, <4>2 DEF ChargedIn, Of
      <4> QED BY <3>0, <4>3
    <3> QED BY <3>1, <3>2, <3>3
  <2> QED BY <2>1 DEF WindowBound
<1>13. Rejections'
  <2> DEFINE Rejected(q) == /\ charged[q] # Never
                            /\ Cardinality(ChargedIn(what[q].client, charged[q]) \ {q}) >= Limit
  <2>1. ASSUME NEW q \in Requests, verdict'[q] = "rejected" PROVE Rejected(q)'
    <3>1. CASE q = r
      <4>1. Cardinality(C) >= Limit BY <1>1, <1>3, <1>6, <1>7, <2>1, <3>1
      <4>2. (ChargedIn(what[r].client, charged[r]) \ {r})' = C
        BY <1>1, <1>2, <1>4 DEF ChargedIn, Of
      <4> QED BY <1>1, <1>2, <3>1, <4>1, <4>2
    <3>2. CASE q # r
      <4>0. Rejected(q) BY <1>3, <2>1, <3>2 DEF RateInv, Rejections
      <4>1. PICK v \in Clients, m \in Minutes : v = what[q].client /\ m = charged[q]
        BY <1>1, <4>0, RequestsAssumption DEF RateInv, GatewayTypeOK
      <4>2. charged'[q] = m /\ what'[q].client = v BY <1>1, <1>2, <3>2, <4>1
      <4>3. ChargedIn(v, m) \subseteq ChargedIn(v, m)'
        <5>1. CASE <<v, m>> = <<u, now>> BY <1>1, <1>4, <5>1
        <5>2. CASE <<v, m>> # <<u, now>> BY <1>4, <5>2
        <5> QED BY <5>1, <5>2
      <4>4. IsFiniteSet(ChargedIn(v, m)')
        <5>1. ChargedIn(v, m)' \in SUBSET Requests BY DEF ChargedIn, Of
        <5> QED BY <5>1, FS_Subset, RequestsAssumption
      <4>5. IsFiniteSet(ChargedIn(v, m)' \ {q}) BY <4>4, FS_RemoveElement
      <4>6. /\ Cardinality(ChargedIn(v, m) \ {q}) <= Cardinality(ChargedIn(v, m)' \ {q})
            /\ Cardinality(ChargedIn(v, m) \ {q}) \in Nat
            /\ Cardinality(ChargedIn(v, m)' \ {q}) \in Nat
        BY <4>3, <4>5, FS_Subset, FS_CardinalityType
      <4>7. Cardinality(ChargedIn(v, m)' \ {q}) >= Limit BY <1>1, <4>0, <4>1, <4>6
      <4>8. (ChargedIn(what[q].client, charged[q]) \ {q})' = ChargedIn(v, m)' \ {q}
        BY <4>2 DEF ChargedIn, Of
      <4> QED BY <4>0, <4>1, <4>2, <4>7, <4>8
    <3> QED BY <3>1, <3>2
  <2> QED BY <1>1, <2>1 DEF Rejections
<1>14. Replies'
  <2>1. ASSUME NEW q \in Requests, reply[q].status = 429 PROVE verdict'[q] = "rejected"
    <3>1. q # r BY <1>1, <2>1 DEF NoReply
    <3> QED BY <1>3, <2>1, <3>1 DEF RateInv, Replies
  <2> QED BY <1>1, <2>1 DEF Replies
<1> QED BY <1>1, <1>9, <1>10, <1>11, <1>12, <1>13, <1>14 DEF RateInv

LEMMA RateInit == Init => RateInv
<1> SUFFICES ASSUME Init PROVE RateInv OBVIOUS
<1>1. /\ MaxMinute \in Nat /\ 0 \in Minutes /\ Never \notin Minutes /\ now = 0
      /\ Limit \in Nat
  BY RateAssumption, GatewayAssumption DEF Minutes, Never, Init
<1>2. GatewayTypeOK /\ reply = [r \in Requests |-> reply[r]]
  <2>1. RateLimiterTypeOK BY DEF Init, RateLimiterInit, RateLimiterTypeOK
  <2>2. \A r \in Requests : what[r] \in Inputs BY DEF Init
  <2> QED BY <1>1, <2>1, <2>2, RequestsAssumption
          DEF Init, GatewayTypeOK, States, NoReply
<1>3. Charges BY DEF Init, Charges
<1>4. \A u, m : m \in Minutes => ChargedIn(u, m) = {}
  BY <1>1 DEF Init, ChargedIn, Of
<1>5. Counts BY <1>4, FS_EmptySet DEF Init, RateLimiterInit, Counts
<1>6. WindowBound
  <2>1. ASSUME NEW u \in Clients, NEW m \in Minutes
        PROVE  Cardinality({r \in ChargedIn(u, m) : verdict[r] = "allowed"}) <= Limit
    <3>1. {r \in ChargedIn(u, m) : verdict[r] = "allowed"} = {} BY <1>4
    <3> QED BY <1>1, <3>1, FS_EmptySet
  <2> QED BY <2>1 DEF WindowBound
<1>7. Rejections /\ Replies BY DEF Init, Rejections, Replies, NoReply
<1> QED BY <1>2, <1>3, <1>5, <1>6, <1>7 DEF RateInv

LEMMA RateNext == RateInv /\ [Next]_vars => RateInv'
<1> SUFFICES ASSUME RateInv, [Next]_vars PROVE RateInv' OBVIOUS
<1>1. CASE UNCHANGED vars
  BY <1>1 DEF vars, RateInv, GatewayTypeOK, RateLimiterTypeOK, Charges, Chargeable, Foreign,
     Counts, WindowBound, Rejections, Replies, ChargedIn, Of
<1> QED BY <1>1, ArriveInv, ChargeInv, UnreachableInv, DecideInv, LookUpInv, FinishInv,
           TickInv DEF Next, Step

-----------------------------------------------------------------------------
THEOREM Invariance == Spec => []RateInv
BY RateInit, RateNext, PTL DEF Spec

\* The gateway's variables keep their types: a request is answered exactly once,
\* with one of the statuses of the handlers, and only a 200 may be kept.
THEOREM TypeCorrect == Spec => []GatewayTypeOK
<1>1. RateInv => GatewayTypeOK BY DEF RateInv
<1> QED BY Invariance, <1>1, PTL

\* consume's budget holds whatever the order of charges and verdicts, and
\* whatever rows the object has dropped.
THEOREM BudgetHolds == Spec => []WindowBound
<1>1. RateInv => WindowBound BY DEF RateInv
<1> QED BY Invariance, <1>1, PTL

\* The middleware's 429 is deserved.
THEOREM RejectionsDeserved == Spec => []NoFalseRejection
<1>1. RateInv => NoFalseRejection
  BY DEF RateInv, Replies, Rejections, NoFalseRejection
<1> QED BY Invariance, <1>1, PTL

\* Every kept row counts what was charged, all of which got past the door.
THEOREM RowsExact == Spec => []ChargedExactly
<1>1. RateInv => ChargedExactly
  BY DEF RateInv, Counts, Charges, Chargeable, ChargedExactly
<1> QED BY Invariance, <1>1, PTL

-----------------------------------------------------------------------------
\* On whose behalf the object of a chain exists.
Behalf(r, h) == /\ what[r].chain = h
                /\ Justified(what[r]) /\ ~ Foreign(what[r])
                /\ pc[r] = "executing" \/ reply[r].status \in {200, 500, 502}

\* Who waits for the limiter or the ParamStore has passed the checks before it.
Passed == \A r \in Requests :
            /\ pc[r] \in {"limiting", "decided", "looking"} => ~ Foreign(what[r])
            /\ pc[r] = "looking" => Justified(what[r])

ObjectsInv == /\ Passed
              /\ \A h \in objects : \E r \in Requests : Behalf(r, h)

\* A step of a request that was let through: it keeps the objects justified.
LEMMA ObjectsStep ==
  ASSUME RateInv, ObjectsInv, NEW r \in Requests, pc[r] # "answered", what' = what,
         \A q \in Requests \ {r} : pc'[q] = pc[q] /\ reply'[q] = reply[q],
         pc'[r] \in {"limiting", "decided", "looking"} => ~ Foreign(what[r]),
         pc'[r] = "looking" => Justified(what[r]),
         pc[r] = "executing" => reply'[r].status \in {200, 500, 502},
         \/ objects' = objects
         \/ /\ objects' = objects \cup {what[r].chain} /\ pc'[r] = "executing"
            /\ Justified(what[r]) /\ ~ Foreign(what[r])
  PROVE  ObjectsInv'
<1>1. Passed' BY DEF ObjectsInv, Passed, Justified, Foreign
<1>2. ASSUME NEW h \in objects PROVE \E q \in Requests : Behalf(q, h)'
  <2>1. PICK q \in Requests : Behalf(q, h) BY <1>2 DEF ObjectsInv
  <2>2. CASE q # r BY <2>1, <2>2 DEF Behalf, Justified, Foreign
  <2>3. CASE q = r
    <3>1. reply[r] = NoReply BY DEF RateInv, GatewayTypeOK
    <3>2. pc[r] = "executing" BY <2>1, <2>3, <3>1 DEF Behalf, NoReply
    <3> QED BY <2>1, <2>3, <3>2 DEF Behalf, Justified, Foreign
  <2> QED BY <2>2, <2>3
<1>3. ASSUME objects' = objects \cup {what[r].chain}, pc'[r] = "executing",
             Justified(what[r]), ~ Foreign(what[r])
      PROVE  Behalf(r, what[r].chain)'
  BY <1>3 DEF Behalf, Justified, Foreign
<1>4. \A h \in objects' : \E q \in Requests : Behalf(q, h)'
  BY <1>2, <1>3 DEF Behalf
<1> QED BY <1>1, <1>4 DEF ObjectsInv

LEMMA MovedObjects ==
  ASSUME RateInv, ObjectsInv, NEW r \in Requests, pc[r] \in {"new", "decided"},
         what' = what, ~ Foreign(what[r]), Moved(r, what[r], Verdictless)
  PROVE  ObjectsInv'
<1>1. /\ pc \in [Requests -> States] /\ reply = [q \in Requests |-> reply[q]]
  BY DEF RateInv, GatewayTypeOK
<1>2. \A q \in Requests \ {r} : pc'[q] = pc[q] /\ reply'[q] = reply[q]
  BY <1>1 DEF Moved, Answer, Goto
<1>3. /\ pc'[r] = "looking" => Justified(what[r])
      /\ \/ objects' = objects
         \/ /\ objects' = objects \cup {what[r].chain} /\ pc'[r] = "executing"
            /\ Justified(what[r])
  BY <1>1 DEF Moved, Answer, Goto
<1> QED BY <1>2, <1>3, ObjectsStep

\* Answers make no object.
LEMMA AnswerObjects ==
  ASSUME RateInv, ObjectsInv, NEW r \in Requests, pc[r] # "answered", NEW status, NEW ttl,
         what' = what, objects' = objects, pc' = [pc EXCEPT ![r] = "answered"],
         reply' = [reply EXCEPT ![r] = [status |-> status, ttl |-> ttl]],
         pc[r] = "executing" => status \in {200, 500, 502}
  PROVE  ObjectsInv'
<1>1. /\ pc \in [Requests -> States] /\ reply = [q \in Requests |-> reply[q]]
  BY DEF RateInv, GatewayTypeOK
<1>2. \A q \in Requests \ {r} : pc'[q] = pc[q] /\ reply'[q] = reply[q]
  BY <1>1
<1>3. pc'[r] = "answered" /\ reply'[r].status = status BY <1>1
<1> QED BY <1>2, <1>3, ObjectsStep

LEMMA ObjectsNext == RateInv /\ ObjectsInv /\ [Next]_vars => ObjectsInv'
<1> SUFFICES ASSUME RateInv, ObjectsInv, [Next]_vars PROVE ObjectsInv' OBVIOUS
<1>0. /\ pc \in [Requests -> States] /\ reply = [q \in Requests |-> reply[q]]
  BY DEF RateInv, GatewayTypeOK
<1>1. ASSUME NEW r \in Requests, Arrive(r) PROVE ObjectsInv'
  <2>1. pc[r] = "new" /\ what' = what BY <1>1 DEF Arrive
  <2>2. ASSUME NEW status, Reply(r, status) PROVE ObjectsInv'
    BY <2>1, <2>2, AnswerObjects DEF Reply, Answer
  <2>3. ASSUME Goto(r, "limiting"), UNCHANGED objects, ~ Foreign(what[r]) PROVE ObjectsInv'
    <3>1. /\ pc'[r] = "limiting"
          /\ \A q \in Requests \ {r} : pc'[q] = pc[q] /\ reply'[q] = reply[q]
      BY <1>0, <2>3 DEF Goto
    <3> QED BY <2>1, <2>3, <3>1, ObjectsStep
  <2>4. ASSUME Enter(r, what[r]), ~ Foreign(what[r]) PROVE ObjectsInv'
    BY <2>1, <2>4, EnterMoves, MovedObjects
  <2> QED BY <1>1, <2>2, <2>3, <2>4 DEF Arrive
<1>2. ASSUME NEW r \in Requests, Charge(r) \/ Unreachable(r) PROVE ObjectsInv'
  <2>1. /\ pc[r] = "limiting" /\ pc' = [pc EXCEPT ![r] = "decided"]
        /\ UNCHANGED <<what, reply, objects>>
    BY <1>2 DEF Charge, Unreachable
  <2>2. /\ pc'[r] = "decided" /\ \A q \in Requests \ {r} : pc'[q] = pc[q]
    BY <1>0, <2>1
  <2>3. ~ Foreign(what[r]) BY <2>1 DEF ObjectsInv, Passed
  <2> QED BY <2>1, <2>2, <2>3, ObjectsStep
<1>3. ASSUME NEW r \in Requests, Decide(r) PROVE ObjectsInv'
  <2>1. /\ pc[r] = "decided" /\ what' = what /\ ~ Foreign(what[r])
    BY <1>3 DEF Decide, ObjectsInv, Passed
  <2>2. CASE Reply(r, 429) BY <2>1, <2>2, AnswerObjects DEF Reply, Answer
  <2>3. CASE Enter(r, what[r]) BY <2>1, <2>3, EnterMoves, MovedObjects
  <2> QED BY <1>3, <2>2, <2>3 DEF Decide
<1>4. ASSUME NEW r \in Requests, LookUp(r) PROVE ObjectsInv'
  <2>1. /\ pc[r] = "looking" /\ what' = what /\ ~ Foreign(what[r]) /\ Justified(what[r])
    BY <1>4 DEF LookUp, ObjectsInv, Passed
  <2>2. ASSUME NEW status, Reply(r, status) PROVE ObjectsInv'
    BY <2>1, <2>2, AnswerObjects DEF Reply, Answer
  <2>3. CASE Execute(r, what[r].chain)
    <3>1. /\ pc'[r] = "executing" /\ objects' = objects \cup {what[r].chain}
          /\ \A q \in Requests \ {r} : pc'[q] = pc[q] /\ reply'[q] = reply[q]
      BY <1>0, <2>3 DEF Execute, Goto
    <3> QED BY <2>1, <3>1, ObjectsStep
  <2> QED BY <1>4, <2>2, <2>3 DEF LookUp
<1>5. ASSUME NEW r \in Requests, Finish(r) PROVE ObjectsInv'
  <2>1. pc[r] = "executing" /\ what' = what /\ objects' = objects BY <1>5 DEF Finish
  <2>2. ASSUME NEW ttl, Keep(r, ttl) PROVE ObjectsInv'
    BY <2>1, <2>2, AnswerObjects DEF Keep
  <2>3. ASSUME NEW status \in {500, 502}, Answer(r, status) PROVE ObjectsInv'
    BY <2>1, <2>3, AnswerObjects DEF Answer
  <2> QED BY <1>5, <2>2, <2>3, FinishMoves
<1>6. CASE Tick \/ UNCHANGED vars
  BY <1>6 DEF Tick, vars, ObjectsInv, Passed, Behalf, Justified, Foreign
<1> QED BY <1>1, <1>2, <1>3, <1>4, <1>5, <1>6 DEF Next, Step

\* The objects that exist are those of chains that are served, made for requests
\* that passed every check before; purges alone may name any chain.
THEOREM ObjectsJustified == Spec => []OnlyServable
<1>1. Init => ObjectsInv BY DEF Init, ObjectsInv, Passed
<1>2. ObjectsInv => OnlyServable
  BY DEF ObjectsInv, Behalf, Justified, OnlyServable
<1> QED BY <1>1, <1>2, Invariance, ObjectsNext, PTL DEF Spec
=============================================================================
