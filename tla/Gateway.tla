------------------------------ MODULE Gateway ------------------------------
(***************************************************************************)
(* The Worker from the arrival of a request to its response: the           *)
(* middlewares of workers/src/index.ts in their order, the routes and the  *)
(* checks of their handlers, over the RateLimiter objects of the clients.  *)
(*                                                                         *)
(* A request is answered at one of these points, between which others run: *)
(* when it arrives, when the verdict of the limiter is there (or fails to  *)
(* come), when the ParamStore has looked its hash up, and when its         *)
(* execution ends.  The execution is RequestDedup's; what the gateway adds *)
(* is who gets there, and with which chain: every chain id that does names *)
(* a ProxyState object of its own (objects).                               *)
(*                                                                         *)
(* A request is a record                                                   *)
(*   client, route                                                         *)
(*   origin  "none", "listed" or "other": its Origin header                *)
(*   key     whether it has the API key                                    *)
(*   chain   the chain it names                                            *)
(*   body    "ok"; "query" when its query string is malformed; "syntax"    *)
(*           when its params or its body are; "large" when the params to   *)
(*           store are too large; "unknown" when the action of an item of  *)
(*           a batch is; "refused" when the handler's validation fails in  *)
(*           another way                                                   *)
(*   query   what it asks the chain for (see CacheTtl).                    *)
(***************************************************************************)
EXTENDS RateLimiter, CacheTtl, FiniteSets

CONSTANTS Requests,      \* requests, each made once
          Inputs,        \* what a request may be
          Limit,         \* RATE_LIMIT_PER_MINUTE; 0 is off
          Servable,      \* chains with RPC URLs, on the allowlist if there is one
          Origins,       \* whether ALLOWED_ORIGINS is set
          ApiKey         \* whether API_KEY is set

ASSUME GatewayAssumption == Limit \in Nat /\ Origins \in BOOLEAN /\ ApiKey \in BOOLEAN

VARIABLES pc,            \* pc[r]: where the request is
          what,          \* what[r]: the request
          verdict,       \* verdict[r]: "none" until, and unless, the limiter's is there
          charged,       \* charged[r]: the minute it was charged to, or Never (history)
          reply,         \* reply[r]: status and max-age of the response
          objects,       \* chains whose ProxyState object exists
          now            \* the minute

vars == <<counters, pc, what, verdict, charged, reply, objects, now>>

Never == MaxMinute + 1
NoReply == [status |-> 0, ttl |-> 0]

\* index.ts, utils/auth.ts, utils/rate-limit.ts, utils/origin.ts.
Api == {"health", "stats", "compressed", "cached", "action", "direct", "batch", "store",
        "purge", "preflight", "unknown"}
PUBLIC_API_PATHS == {"health", "dashboard"}
RATE_LIMIT_EXEMPT_PATHS == {"health", "stats", "dashboard"}
ORIGIN_CHECK_EXEMPT_PATHS == {"dashboard"}
Routes == Api \cup {"root", "dashboard"}

ASSUME RequestsAssumption ==
  /\ IsFiniteSet(Requests)
  /\ \A i \in Inputs : i.client \in Clients /\ i.route \in Routes /\ i.chain \in Nat

States == {"new", "limiting", "decided", "looking", "executing", "answered"}

GatewayTypeOK ==
  /\ RateLimiterTypeOK
  /\ pc \in [Requests -> States]
  /\ what \in [Requests -> Inputs]
  /\ verdict \in [Requests -> {"none", "allowed", "rejected"}]
  /\ charged \in [Requests -> Minutes \cup {Never}]
  /\ \A r \in Requests : /\ reply[r].status \in {0, 200, 204, 400, 401, 403, 404, 413, 429,
                                             500, 501, 502}
                         /\ reply[r].ttl > 0 => reply[r].status = 200
                         /\ pc[r] = "answered" <=> reply[r] # NoReply
  /\ \A r \in Requests : what[r].route \in Routes
  /\ objects \subseteq Nat
  /\ now \in Minutes

Init == /\ RateLimiterInit
        /\ pc = [r \in Requests |-> "new"]
        /\ what \in [Requests -> Inputs]
        /\ verdict = [r \in Requests |-> "none"]
        /\ charged = [r \in Requests |-> Never]
        /\ reply = [r \in Requests |-> NoReply]
        /\ objects = {}
        /\ now = 0

-----------------------------------------------------------------------------
\* The response, with or without Cache-Control.
Keep(r, ttl) == /\ pc' = [pc EXCEPT ![r] = "answered"]
                /\ reply' = [reply EXCEPT ![r] = [status |-> 200, ttl |-> ttl]]
\* Mutant: every response gets the headers.
AnswerKept(r, status) == /\ pc' = [pc EXCEPT ![r] = "answered"]
                         /\ reply' = [reply EXCEPT ![r] = [status |-> status, ttl |-> 300]]

Answer(r, status) == /\ pc' = [pc EXCEPT ![r] = "answered"]
                     /\ reply' = [reply EXCEPT ![r] = [status |-> status, ttl |-> 0]]
Goto(r, state) == /\ pc' = [pc EXCEPT ![r] = state]
                  /\ UNCHANGED reply

\* An answer of the handler itself.
Reply(r, status) == Answer(r, status) /\ UNCHANGED objects

\* The execution touches the ProxyState object of the chain, which makes it.
Execute(r, chain) == /\ Goto(r, "executing")
                     /\ objects' = objects \cup {chain}

\* isSupportedChainId, parseChainIdParam.
Supported(chain) == chain \in Servable

(***************************************************************************)
(* The handlers up to their first wait for an object or for upstream.  A   *)
(* body that does not parse is a 400, or falls into the handler's catch,   *)
(* a 500; of a batch only one item is looked at here, and its errors are   *)
(* entries of a 200.                                                       *)
(***************************************************************************)
\* Mutant: the chain of an item is not looked at.
HandleBatchAnyChain(r, req) ==
  IF req.body = "syntax" THEN Reply(r, 400)
  ELSE IF req.body = "refused" THEN Reply(r, 400)
  ELSE IF req.body = "unknown" THEN Reply(r, 200)
  ELSE Execute(r, req.chain)

HandleBatch(r, req) ==
  IF req.body \in {"syntax", "refused"} THEN Reply(r, 400)
  ELSE IF ~ Supported(req.chain) \/ req.body = "unknown" THEN Reply(r, 200)
  ELSE Execute(r, req.chain)

HandleCompressed(r, req) ==
  IF ~ Supported(req.chain) THEN Reply(r, 400)
  ELSE IF req.body \in {"syntax", "refused"} THEN Reply(r, 400)
  ELSE Execute(r, req.chain)

HandleAction(r, req) ==
  IF ~ Supported(req.chain) THEN Reply(r, 400)
  ELSE IF req.body = "syntax" THEN Reply(r, 500)
  ELSE IF req.body = "refused" THEN Reply(r, 400)
  ELSE Execute(r, req.chain)

\* Straight to upstream: no ProxyState object.
HandleDirect(r, req) ==
  IF ~ Supported(req.chain) THEN Reply(r, 400)
  ELSE IF req.body = "syntax" THEN Reply(r, 500)
  ELSE Goto(r, "executing") /\ UNCHANGED objects

HandleCached(r, req) ==
  IF ~ Supported(req.chain) THEN Reply(r, 400)
  ELSE IF req.body # "ok" THEN Reply(r, 400)
  ELSE Goto(r, "looking") /\ UNCHANGED objects

HandleStore(r, req) ==
  IF req.body = "large" THEN Reply(r, 413)
  ELSE IF req.body # "ok" THEN Reply(r, 400)
  ELSE Goto(r, "executing") /\ UNCHANGED objects

\* Any positive chain id will do for a purge.
HandlePurge(r, req) ==
  IF ~ ApiKey THEN Reply(r, 501)
  ELSE IF req.body # "ok" THEN Reply(r, 400)
  ELSE Execute(r, req.chain)

HandleStats(r, req) ==
  IF req.body # "ok" THEN Reply(r, 400) ELSE Goto(r, "executing") /\ UNCHANGED objects

Handle(r, req) ==
  CASE req.route \in {"root", "dashboard", "health"} -> Reply(r, 200)
    [] req.route = "compressed" -> HandleCompressed(r, req)
    [] req.route = "cached" -> HandleCached(r, req)
    [] req.route = "action" -> HandleAction(r, req)
    [] req.route = "direct" -> HandleDirect(r, req)
    [] req.route = "batch" -> HandleBatch(r, req)
    [] req.route = "store" -> HandleStore(r, req)
    [] req.route = "purge" -> HandlePurge(r, req)
    [] req.route = "stats" -> HandleStats(r, req)
    [] OTHER -> Reply(r, 404)

-----------------------------------------------------------------------------
\* The middlewares behind the limiter: configuration and API key.
Unauthorized(req) == /\ req.route \in Api \ PUBLIC_API_PATHS
                     /\ ApiKey
                     /\ ~ req.key

Enter(r, req) == IF Unauthorized(req) THEN Reply(r, 401) ELSE Handle(r, req)

Limited(req) == /\ req.route \in Api \ RATE_LIMIT_EXEMPT_PATHS
                /\ Limit > 0

Foreign(req) == /\ Origins
                /\ req.route \notin ORIGIN_CHECK_EXEMPT_PATHS
                /\ req.origin = "other"

\* Mutant: the limiter is asked before the origin is looked at.
ArriveLimitedFirst(r) ==
  LET req == what[r] IN
  /\ pc[r] = "new"
  /\ IF req.route \in Api /\ req.body = "query" THEN Reply(r, 400)
     ELSE IF req.route = "preflight" THEN Reply(r, 204)
     ELSE IF Limited(req) THEN Goto(r, "limiting") /\ UNCHANGED objects
     ELSE IF Foreign(req) THEN Reply(r, 403)
     ELSE Enter(r, req)
  /\ UNCHANGED <<counters, what, verdict, charged, now>>

\* The middlewares up to the limiter: malformed query, CORS, origin.
Arrive(r) ==
  LET req == what[r] IN
  /\ pc[r] = "new"
  /\ IF req.route \in Api /\ req.body = "query" THEN Reply(r, 400)
     ELSE IF req.route = "preflight" THEN Reply(r, 204)
     ELSE IF Foreign(req) THEN Reply(r, 403)
     ELSE IF Limited(req) THEN Goto(r, "limiting") /\ UNCHANGED objects
     ELSE Enter(r, req)
  /\ UNCHANGED <<counters, what, verdict, charged, now>>

\* The client's object charges the request; the verdict may get lost.
Charge(r) ==
  LET u == what[r].client IN
  /\ pc[r] = "limiting"
  /\ Consume(u, now)
  /\ charged' = [charged EXCEPT ![r] = now]
  /\ \E answer \in {"none", IF Allowed(u, now, Limit) THEN "allowed" ELSE "rejected"} :
       verdict' = [verdict EXCEPT ![r] = answer]
  /\ pc' = [pc EXCEPT ![r] = "decided"]
  /\ UNCHANGED <<what, reply, objects, now>>

\* The object is out of reach or answers with an error.
Unreachable(r) ==
  /\ pc[r] = "limiting"
  /\ pc' = [pc EXCEPT ![r] = "decided"]
  /\ UNCHANGED <<counters, what, verdict, charged, reply, objects, now>>

\* Mutant: fails closed.
DecideClosed(r) ==
  /\ pc[r] = "decided"
  /\ IF verdict[r] # "allowed" THEN Reply(r, 429) ELSE Enter(r, what[r])
  /\ UNCHANGED <<counters, what, verdict, charged, now>>

\* Back in the middleware, which fails open; the rest runs in the same turn.
Decide(r) ==
  /\ pc[r] = "decided"
  /\ IF verdict[r] = "rejected" THEN Reply(r, 429) ELSE Enter(r, what[r])
  /\ UNCHANGED <<counters, what, verdict, charged, now>>

\* handleCachedRequest: the ParamStore has answered, or failed.
LookUp(r) ==
  /\ pc[r] = "looking"
  /\ Execute(r, what[r].chain) \/ Reply(r, 404) \/ Reply(r, 500)
  /\ UNCHANGED <<counters, what, verdict, charged, now>>

\* The execution ends.  What a GET of results sends may be kept; so may the
\* response to a POST of an action, by its headers.
Finish(r) ==
  LET req == what[r] IN
  /\ pc[r] = "executing"
  /\ CASE req.route \in {"compressed", "cached", "action"} ->
            Keep(r, MaxAge(req.query, req.chain)) \/ Answer(r, 500)
       [] req.route \in {"direct", "store"} -> Keep(r, 0) \/ Answer(r, 500)
       [] req.route \in {"purge", "stats"} -> Keep(r, 0) \/ Answer(r, 502)
       [] OTHER -> Keep(r, 0)
  /\ UNCHANGED <<counters, what, verdict, charged, objects, now>>

Tick == /\ now < MaxMinute
        /\ now' = now + 1
        /\ UNCHANGED <<counters, pc, what, verdict, charged, reply, objects>>

Step(r) == Arrive(r) \/ Charge(r) \/ Unreachable(r) \/ Decide(r) \/ LookUp(r) \/ Finish(r)

Next == Tick \/ \E r \in Requests : Step(r)

Spec == Init /\ [][Next]_vars

-----------------------------------------------------------------------------
Of(u) == {r \in Requests : what[r].client = u}
ChargedIn(u, m) == {r \in Of(u) : charged[r] = m}

\* Whatever the order in which requests are charged and their verdicts come
\* back, and whatever the limiter loses: of the requests that a client has
\* charged to one minute, at most Limit are let through on a verdict.
WindowBound ==
  \A u \in Clients, m \in Minutes :
    Cardinality({r \in ChargedIn(u, m) : verdict[r] = "allowed"}) <= Limit

\* A 429 is never the limiter's own failure, nor another client's doing: the
\* client itself has at least Limit other requests charged to that minute,
\* refused ones among them.
NoFalseRejection ==
  \A r \in Requests : reply[r].status = 429 =>
    /\ charged[r] # Never
    /\ Cardinality(ChargedIn(what[r].client, charged[r]) \ {r}) >= Limit

\* The rows that are kept count exactly the requests of their client and
\* minute.  What is refused at the door, or is exempt, costs nothing, and what
\* gets past it is charged, unless the object was out of reach, also when it
\* turns out to be unauthorized.
ChargedExactly ==
  /\ \A u \in Clients, m \in Minutes :
       ~ Stale(m, now) => counters[u][m] = Cardinality(ChargedIn(u, m))
  /\ \A r \in Requests : charged[r] # Never =>
       /\ what[r].route \in Api \ (RATE_LIMIT_EXEMPT_PATHS \cup {"preflight"})
       /\ ~ Foreign(what[r])
       /\ what[r].body # "query"

\* Refused requests leave no object behind: an object of a chain exists only on
\* behalf of a request that was let through, had the key and named a chain
\* that is served (purges, which are the operator's, may name any).
OnlyServable ==
  \A h \in objects : \E r \in Requests :
    /\ what[r].chain = h
    /\ h \in Servable \/ what[r].route = "purge"
    /\ ApiKey => what[r].key
    /\ ~ Foreign(what[r])
    /\ pc[r] = "executing" \/ reply[r].status \in {200, 500, 502}

\* "latest" and "pending" are kept for 12 seconds (README).
LatestIsShort ==
  \A r \in Requests :
    /\ reply[r].ttl > 0
    /\ what[r].query.method \in BlockScoped
    /\ what[r].query.block \in {"latest", "pending"}
    => reply[r].ttl <= 12
=============================================================================
