----------------------------- MODULE RpcLimiter -----------------------------
(***************************************************************************)
(* The upstream side of the Worker (workers/src/actions/utils.ts):         *)
(* executeRpcCall acquires a slot of its chain's limiter, tries the        *)
(* chain's endpoints in order, and releases the slot.                      *)
(*                                                                         *)
(* The code keeps one limiter object per chain in a Map and drops it when  *)
(* its last slot is released; the queue is empty then, so a missing        *)
(* limiter and one with no active call and no waiter are the same thing    *)
(* and the model has only the latter.  resetRpcConcurrency, called by the  *)
(* tests alone, is left out; setMaxRpcConcurrency sets, on every request,  *)
(* the value of an environment variable that does not change while the     *)
(* isolate lives, here the constant MaxRpc.                                *)
(***************************************************************************)
EXTENDS Naturals, Sequences, FiniteSets, SequencesExt

CONSTANTS Calls,         \* concurrent invocations; each is reused for ever
          Chains,        \* the chain ids
          Endpoints,     \* how many RPC URLs every chain has
          MaxRpc,        \* maxRpcConcurrency
          QueueTtl       \* RPC_QUEUE_TIMEOUT_MS, in ticks

ASSUME LimiterAssumption == /\ IsFiniteSet(Calls)
                            /\ Endpoints \in Nat \ {0}
                            /\ MaxRpc \in Nat \ {0}
                            /\ QueueTtl \in Nat \ {0}

VARIABLES active,        \* active[h]: the counter of chain h's limiter
          queue,         \* queue[h]: its waiters, in order of arrival
          pc,            \* pc[c]: where the call is
          chain,         \* chain[c]: the chain it is for
          tried,         \* tried[c]: endpoints that have failed it
          waited         \* waited[c]: ticks since its queue timer was set

vars == <<active, queue, pc, chain, tried, waited>>

Ended == {"idle", "queueTimeout", "result", "exhausted"}
Leaving == {"answered", "failed"}      \* in the finally clause
Holding == {"calling"} \cup Leaving

TypeOK ==
  /\ active \in [Chains -> Nat]
  /\ queue \in [Chains -> Seq(Calls)]
  /\ pc \in [Calls -> Ended \cup {"queued"} \cup Holding]
  /\ chain \in [Calls -> Chains]
  /\ tried \in [Calls -> 0..Endpoints]
  /\ waited \in [Calls -> 0..QueueTtl]

Init ==
  /\ active = [h \in Chains |-> 0]
  /\ queue = [h \in Chains |-> <<>>]
  /\ pc = [c \in Calls |-> "idle"]
  /\ chain \in [Calls -> Chains]
  /\ tried = [c \in Calls |-> 0]
  /\ waited = [c \in Calls |-> 0]

-----------------------------------------------------------------------------
\* Mutant: <= for < at the cap.
TakeSlotOverCap(c, h) ==
  /\ pc[c] \in Ended
  /\ active[h] <= MaxRpc
  /\ active' = [active EXCEPT ![h] = @ + 1]
  /\ pc' = [pc EXCEPT ![c] = "calling"]
  /\ chain' = [chain EXCEPT ![c] = h]
  /\ tried' = [tried EXCEPT ![c] = 0]
  /\ UNCHANGED <<queue, waited>>

\* acquireRpcSlot, with a slot to spare.
TakeSlot(c, h) ==
  /\ pc[c] \in Ended
  /\ active[h] < MaxRpc
  /\ active' = [active EXCEPT ![h] = @ + 1]
  /\ pc' = [pc EXCEPT ![c] = "calling"]
  /\ chain' = [chain EXCEPT ![c] = h]
  /\ tried' = [tried EXCEPT ![c] = 0]
  /\ UNCHANGED <<queue, waited>>

\* Mutant: one limiter for all chains.
EnqueueAnyChain(c, h) ==
  /\ pc[c] \in Ended
  /\ \E g \in Chains : active[g] >= MaxRpc
  /\ queue' = [queue EXCEPT ![h] = Append(@, c)]
  /\ pc' = [pc EXCEPT ![c] = "queued"]
  /\ chain' = [chain EXCEPT ![c] = h]
  /\ tried' = [tried EXCEPT ![c] = 0]
  /\ waited' = [waited EXCEPT ![c] = 0]
  /\ UNCHANGED active

\* acquireRpcSlot at the cap: the waiter goes to the end and its timer starts.
Enqueue(c, h) ==
  /\ pc[c] \in Ended
  /\ active[h] >= MaxRpc
  /\ queue' = [queue EXCEPT ![h] = Append(@, c)]
  /\ pc' = [pc EXCEPT ![c] = "queued"]
  /\ chain' = [chain EXCEPT ![c] = h]
  /\ tried' = [tried EXCEPT ![c] = 0]
  /\ waited' = [waited EXCEPT ![c] = 0]
  /\ UNCHANGED active

\* Mutants: the waiter is rejected but stays queued; it is spliced out but
\* never rejected.
QueueTimeoutUnspliced(c) ==
  /\ pc[c] = "queued"
  /\ waited[c] = QueueTtl
  /\ pc' = [pc EXCEPT ![c] = "queueTimeout"]
  /\ waited' = [waited EXCEPT ![c] = 0]
  /\ UNCHANGED <<active, queue, chain, tried>>

QueueTimeoutSilent(c) ==
  /\ pc[c] = "queued"
  /\ waited[c] = QueueTtl
  /\ queue' = [queue EXCEPT ![chain[c]] = SelectSeq(@, LAMBDA d : d # c)]
  /\ UNCHANGED <<active, pc, chain, tried, waited>>

\* The waiter's timer: it is spliced out of the queue and its promise rejected.
QueueTimeout(c) ==
  /\ pc[c] = "queued"
  /\ waited[c] = QueueTtl
  /\ \E i \in DOMAIN queue[chain[c]] :
       /\ queue[chain[c]][i] = c
       /\ queue' = [queue EXCEPT ![chain[c]] = RemoveAt(@, i)]
  /\ pc' = [pc EXCEPT ![c] = "queueTimeout"]
  /\ waited' = [waited EXCEPT ![c] = 0]
  /\ UNCHANGED <<active, chain, tried>>

\* executeWithFailover: one endpoint answers, or fails and the next is tried;
\* the last failure is the call's.  The fetch has no timeout of its own.
EndpointAnswers(c) ==
  /\ pc[c] = "calling"
  /\ pc' = [pc EXCEPT ![c] = "answered"]
  /\ UNCHANGED <<active, queue, chain, tried, waited>>

\* Mutants: <= for < in the loop over the endpoints; no failover.
EndpointFailsOnce(c, to, n) ==
  /\ pc[c] = "calling"
  /\ tried' = [tried EXCEPT ![c] = n]
  /\ pc' = [pc EXCEPT ![c] = to]
  /\ UNCHANGED <<active, queue, chain, waited>>

EndpointFailsLate(c) ==
  EndpointFailsOnce(c, IF tried[c] + 1 <= Endpoints THEN "calling" ELSE "failed", tried[c] + 1)
NoFailover(c) == EndpointFailsOnce(c, "failed", tried[c] + 1)

EndpointFails(c) ==
  /\ pc[c] = "calling"
  /\ tried' = [tried EXCEPT ![c] = @ + 1]
  /\ pc' = [pc EXCEPT ![c] = IF tried[c] + 1 < Endpoints THEN "calling" ELSE "failed"]
  /\ UNCHANGED <<active, queue, chain, waited>>

(***************************************************************************)
(* releaseRpcSlot in the finally clause: the slot goes to the head of the  *)
(* queue, whose timer is cleared and which starts calling; the counter     *)
(* goes down only when nobody waits.                                       *)
(***************************************************************************)
Leave(c) == IF pc[c] = "answered" THEN "result" ELSE "exhausted"

\* Mutants: the counter goes down although the slot is handed over; the last
\* waiter is served first; every waiter is woken.
Hand(c, next, rest, n) ==
  LET h == chain[c] IN
  /\ pc[c] \in Leaving
  /\ queue[h] # <<>>
  /\ queue' = [queue EXCEPT ![h] = rest]
  /\ pc' = [d \in Calls |-> IF d = c THEN Leave(c) ELSE IF d \in next THEN "calling" ELSE pc[d]]
  /\ waited' = [d \in Calls |-> IF d \in next THEN 0 ELSE waited[d]]
  /\ active' = [active EXCEPT ![h] = n]
  /\ UNCHANGED <<chain, tried>>

HandOverTwice(c) == LET q == queue[chain[c]] IN Hand(c, {Head(q)}, Tail(q), active[chain[c]] - 1)
HandOverLast(c) == LET q == queue[chain[c]] IN Hand(c, {Last(q)}, Front(q), active[chain[c]])
HandOverAll(c) == LET q == queue[chain[c]] IN Hand(c, ToSet(q), <<>>, active[chain[c]])

HandOver(c) ==
  LET h == chain[c]  next == Head(queue[h]) IN
  /\ pc[c] \in Leaving
  /\ queue[h] # <<>>
  /\ queue' = [queue EXCEPT ![h] = Tail(@)]
  /\ pc' = [pc EXCEPT ![c] = Leave(c), ![next] = "calling"]
  /\ waited' = [waited EXCEPT ![next] = 0]
  /\ UNCHANGED <<active, chain, tried>>

\* Mutant: the slot is freed while others wait.
GiveBackAlways(c) ==
  /\ pc[c] \in Leaving
  /\ active' = [active EXCEPT ![chain[c]] = IF @ > 0 THEN @ - 1 ELSE 0]
  /\ pc' = [pc EXCEPT ![c] = Leave(c)]
  /\ UNCHANGED <<queue, chain, tried, waited>>

GiveBack(c) ==
  /\ pc[c] \in Leaving
  /\ queue[chain[c]] = <<>>
  /\ active' = [active EXCEPT ![chain[c]] = IF @ > 0 THEN @ - 1 ELSE 0]
  /\ pc' = [pc EXCEPT ![c] = Leave(c)]
  /\ UNCHANGED <<queue, chain, tried, waited>>

Tick ==
  /\ waited' = [c \in Calls |-> IF pc[c] = "queued" /\ waited[c] < QueueTtl
                                THEN waited[c] + 1 ELSE waited[c]]
  /\ UNCHANGED <<active, queue, pc, chain, tried>>

-----------------------------------------------------------------------------
Acquire(c) == \E h \in Chains : TakeSlot(c, h) \/ Enqueue(c, h)
Upstream(c) == EndpointAnswers(c) \/ EndpointFails(c)
Release(c) == HandOver(c) \/ GiveBack(c)

Next == \/ \E c \in Calls : Acquire(c) \/ QueueTimeout(c) \/ Upstream(c) \/ Release(c)
        \/ Tick

Spec == Init /\ [][Next]_vars

\* Timers fire and finally clauses run; nothing is asked of upstream.
RuntimeFairness == /\ \A c \in Calls : WF_vars(QueueTimeout(c)) /\ WF_vars(Release(c))
                   /\ WF_vars(Tick)

FairSpec == Spec /\ RuntimeFairness

-----------------------------------------------------------------------------
\* The calls that hold a slot of chain h, and those that wait for one.
Holders(h) == {c \in Calls : chain[c] = h /\ pc[c] \in Holding}
Waiters(h) == {c \in Calls : chain[c] = h /\ pc[c] = "queued"}

\* The counter is the number of calls that hold a slot of the chain, however
\* slots were handed over and queue timers raced releases: none leaks.
SlotsCounted == \A h \in Chains : active[h] = Cardinality(Holders(h))

\* Never more than MAX_RPC_CONCURRENCY upstream calls of a chain at a time.
CapRespected == \A h \in Chains : Cardinality(Holders(h)) <= MaxRpc

\* The queue of a chain holds its waiting calls, each once: no waiter is lost
\* and no slot can be handed to a call that gave up.
QueueExact ==
  \A h \in Chains : /\ ToSet(queue[h]) = Waiters(h)
                    /\ IsInjective(queue[h])

\* Nobody waits while a slot is free.
NoIdleSlot == \A h \in Chains : queue[h] # <<>> => active[h] = MaxRpc

\* The counter never passes the cap.
CounterBounded == \A h \in Chains : active[h] <= MaxRpc

\* A call starts calling only at the head of its queue, or on arrival when
\* nobody waits: the queue is FIFO and newcomers do not overtake it.
Fifo ==
  [][\A c \in Calls : pc[c] \notin Holding /\ pc'[c] = "calling" =>
       IF pc[c] = "queued" THEN Head(queue[chain[c]]) = c
                           ELSE queue[chain'[c]] = <<>>]_vars

\* A call starts to wait only because its own chain is at the cap: a saturated
\* chain does not delay another one. TLC need not check it: it follows from NoIdleSlot.
ChainsIndependent ==
  [][\A c \in Calls : pc[c] # "queued" /\ pc'[c] = "queued" =>
       Cardinality(Holders(chain'[c])) >= MaxRpc]_vars

\* A call that fails for its upstream has tried every endpoint, one that is
\* calling has an endpoint left, and one whose queue timer fired tried none.
FailsHonestly ==
  \A c \in Calls : /\ pc[c] \in {"failed", "exhausted"} => tried[c] = Endpoints
                   /\ pc[c] = "calling" => tried[c] < Endpoints
                   /\ pc[c] \in {"queued", "queueTimeout"} => tried[c] = 0

\* The inductive invariant behind CapRespected and Fifo.
LimiterInv == /\ TypeOK
              /\ SlotsCounted
              /\ QueueExact
              /\ NoIdleSlot
              /\ CounterBounded
              /\ FailsHonestly

\* A waiting call gets a slot or gives up, even if upstream never answers.
WaitersEnd == \A c \in Calls : pc[c] = "queued" ~> pc[c] # "queued"

\* The limiter implements the pool of slots its specification promises.
Pool == INSTANCE SlotPool WITH held <- [h \in Chains |-> Holders(h)]
PoolSpec == Pool!Spec
=============================================================================
