----------------------------- MODULE MCGateway -----------------------------
(***************************************************************************)
(* Instances of Gateway for TLC.                                           *)
(***************************************************************************)
EXTENDS Gateway, TLC

CONSTANTS u1, u2

Query(method, form) ==
  [method |-> method, form |-> form, block |-> "latest", height |-> 0]

\* A good request of a client, and what may be wrong with one.
Good(u, route) == [client |-> u, route |-> route, origin |-> "none", key |-> TRUE,
                   chain |-> 1, body |-> "ok", query |-> Query("eth_getBalance", "action")]

\* Requests of two clients that compete for the budget, and are over soon ...
Contending == {[Good(u, "batch") EXCEPT !.chain = 7] : u \in {u1, u2}}

\* ... and what else one of them may send.
Odd ==
  {Good(u1, route) : route \in {"cached", "action", "batch", "purge", "stats",
                                "preflight", "unknown", "dashboard"}}
  \cup {[Good(u1, route) EXCEPT !.chain = 7] : route \in {"cached", "purge"}}
  \cup {[Good(u1, route) EXCEPT !.key = FALSE] : route \in {"direct", "store", "health"}}
  \cup {[Good(u1, "compressed") EXCEPT !.origin = o] : o \in {"listed", "other"}}
  \cup {[Good(u1, "action") EXCEPT !.body = b] : b \in {"query", "refused"}}
  \cup {[Good(u1, "store") EXCEPT !.body = "large"], [Good(u1, "batch") EXCEPT !.body = "unknown"]}

Mixed == Contending \cup Odd

\* One odd request at a time: they do not meet but in the counters.
MixedInit == Init /\ Cardinality({r \in Requests : what[r] \in Odd}) <= 1

MixedSpec == MixedInit /\ [][Next]_vars

\* Reads, in both forms, of what depends on the block.
Reads ==
  {[Good(u1, "compressed") EXCEPT !.query = Query(m, f)] :
     m \in BlockScoped \cup {"eth_getBalance", "eth_blockNumber"}, f \in {"rpc", "action"}}

Symmetry == Permutations(Requests)
=============================================================================
