----------------------------- MODULE EdgeCache -----------------------------
(***************************************************************************)
(* The read path and the purge endpoint of the Worker around a colo's      *)
(* cache: what the handlers of GET requests send with Cache-Control, the   *)
(* cache may keep, and POST /api/v1/purge deletes, hash by hash, first the *)
(* record in the ProxyState object and then one entry in the cache.        *)
(*                                                                         *)
(* The answer to one hash can be asked for, and be kept, under two URLs:   *)
(* /api/v1/{chain}/{action}?p=... and /api/v1/cached/{key}, which a client *)
(* uses for long arguments.  A purge knows the first one only.             *)
(*                                                                         *)
(* Calls are those of RequestDedup; a call reaches the Worker whenever no  *)
(* cache answers it, and the caches of other colos and POST requests make  *)
(* that possible at any time.  The targets of one purge request are purged *)
(* like those of as many requests, at most one at a time for each hash.    *)
(***************************************************************************)
EXTENDS RequestDedup

CONSTANT EdgeTtl     \* max-age of a response, in ticks

ASSUME EdgeAssumption == EdgeTtl \in Nat \ {0}

Urls == {"query", "cached"}

VARIABLES edge,        \* edge[k][u]: the cache's entry for hash k under its URL u
          sending,     \* calls whose response is on its way to the cache
          late,        \* those of them that a purge overtook
          purging,     \* hashes whose record, but not entry, is purged
          calm,        \* hashes for which no answer was under way when their
                       \* record was last purged (history)
          purged       \* hashes whose last purge got to its end (history)

edgeVars == <<edge, sending, late, purging, calm, purged>>
allVars == <<vars, edgeVars>>

NoEntry == [there |-> FALSE, age |-> 0, outcome |-> NoOutcome]
Entry == [there : {TRUE}, age : 0..EdgeTtl - 1, outcome : Outcome]

EdgeTypeOK == /\ DedupTypeOK
              /\ edge \in [Keys -> [Urls -> Entry \cup {NoEntry}]]
              /\ sending \subseteq Calls
              /\ late \subseteq sending
              /\ purging \subseteq Keys
              /\ calm \subseteq purging \cup purged
              /\ purged \subseteq Keys

EdgeInit == /\ Init
            /\ edge = [k \in Keys |-> [u \in Urls |-> NoEntry]]
            /\ sending = {} /\ late = {}
            /\ purging = {} /\ calm = {} /\ purged = {}

-----------------------------------------------------------------------------
\* Mutant: the response to an error has the headers too.
RespondAlways(c) ==
  IF pc'[c] \in {"hit", "miss"}
  THEN sending' \in {sending, sending \cup {c}} ELSE UNCHANGED sending

\* The handler's response: with Cache-Control when there is a result; the catch
\* answers 500 without it.  A response to a POST is not kept.
Respond(c) ==
  IF pc'[c] \in {"hit", "miss"} /\ outcome'[c].kind = "result"
  THEN sending' \in {sending, sending \cup {c}} ELSE UNCHANGED sending

\* A step of a call, whose last response is out.
Call(c) == /\ c \notin sending
           /\ CallNext(c)
           /\ Respond(c)
           /\ UNCHANGED <<edge, late, purging, calm, purged>>

\* The response gets to the cache, under the URL that was asked for.
Kept(c) == [there |-> TRUE, age |-> 0,
            outcome |-> [outcome[c] EXCEPT !.stale = @ \/ c \in late]]

Keep(c) ==
  /\ c \in sending
  /\ \E u \in Urls : edge' = [edge EXCEPT ![key[c]][u] = Kept(c)]
  /\ sending' = sending \ {c}
  /\ late' = late \ {c}
  /\ UNCHANGED <<vars, purging, calm, purged>>

\* The cache drops an entry to make room.
Drop(k, u) == /\ edge[k][u].there
              /\ edge' = [edge EXCEPT ![k][u] = NoEntry]
              /\ UNCHANGED <<vars, sending, late, purging, calm, purged>>

-----------------------------------------------------------------------------
\* An answer for k, produced already, is on its way to the record or the cache.
UnderWay(k) == \E c \in Calls : key[c] = k /\ (pc[c] \in Reporting \/ c \in sending)

\* What a purge of the records of ks makes of what is cached and under way.
Outdated(ks) ==
  /\ edge' = [k \in Keys |-> [u \in Urls |->
                IF k \in ks /\ edge[k][u].there
                THEN [edge[k][u] EXCEPT !.outcome.stale = TRUE] ELSE edge[k][u]]]
  /\ late' = late \cup {c \in sending : key[c] \in ks}
  /\ purged' = purged \ ks
  /\ calm' = {k \in purging' \cup purged' : IF k \in ks THEN ~ UnderWay(k) ELSE k \in calm}
  /\ UNCHANGED sending

\* purgeByRequests, for one target: DELETE /requests/:hash ...
PurgeRow(k) ==
  /\ k \notin purging
  /\ PurgeOne(k)
  /\ purging' = purging \cup {k}
  /\ Outdated({k})

\* Mutant: the URL is not compressed the way the client does it.
PurgeNothing(k) ==
  /\ k \in purging
  /\ purged' = purged \cup {k}
  /\ purging' = purging \ {k}
  /\ UNCHANGED <<vars, edge, sending, late, calm>>

\* ... then cache.delete, of the URL of a compressed GET.
PurgeEntry(k) ==
  /\ k \in purging
  /\ edge' = [edge EXCEPT ![k]["query"] = NoEntry]
  /\ purged' = purged \cup {k}
  /\ purging' = purging \ {k}
  /\ UNCHANGED <<vars, sending, late, calm>>

\* The handler does not get that far: the answer to the DELETE was lost, which
\* makes the response a 502, or the isolate was evicted.
PurgeCut(k) == /\ k \in purging
               /\ purging' = purging \ {k}
               /\ calm' = calm \ {k}
               /\ UNCHANGED <<vars, edge, sending, late, purged>>

\* purgeChain: the records only, as its response says.
PurgeChain == /\ PurgeAll
              /\ UNCHANGED purging
              /\ Outdated(Keys)

-----------------------------------------------------------------------------
EdgeAlarm == Alarm /\ UNCHANGED edgeVars

\* Mutant: entries do not expire.
EdgeTickForever ==
  /\ sending = {}
  /\ Tick
  /\ edge' = [k \in Keys |-> [u \in Urls |->
                IF edge[k][u].there THEN [edge[k][u] EXCEPT !.age = @ + 1] ELSE NoEntry]]
  /\ UNCHANGED <<sending, late, purging, calm, purged>>

\* Entries expire.  A response takes less than a tick to the cache.
EdgeTick ==
  /\ sending = {}
  /\ Tick
  /\ edge' = [k \in Keys |-> [u \in Urls |->
                IF edge[k][u].there /\ edge[k][u].age + 1 < EdgeTtl
                THEN [edge[k][u] EXCEPT !.age = @ + 1] ELSE NoEntry]]
  /\ UNCHANGED <<sending, late, purging, calm, purged>>

EdgeNext == \/ \E c \in Calls : Call(c) \/ Keep(c)
            \/ \E k \in Keys : \/ \E u \in Urls : Drop(k, u)
                              \/ PurgeRow(k) \/ PurgeEntry(k) \/ PurgeCut(k)
            \/ PurgeChain
            \/ EdgeAlarm \/ EdgeTick

EdgeSpec == EdgeInit /\ [][EdgeNext]_allVars

-----------------------------------------------------------------------------
\* What the cache may serve is a result, never an error, and upstream produced
\* it less than EdgeTtl + RESULT_TTL and the time of one report ago: the time
\* in the record and the time in the cache add up, once, however often the
\* record was taken over and by whom the entry was written.
CachedAnswers ==
  \A k \in Keys, u \in Urls : edge[k][u].there =>
    /\ edge[k][u].outcome.kind = "result"
    /\ edge[k][u].age + edge[k][u].outcome.age < EdgeTtl + ResultTtl + ReportDelay

\* What upstream had produced before the purge is served again.
StaleEntry(k, u) == edge[k][u].there /\ edge[k][u].outcome.stale

\* When no answer for a hash was under way at the moment its record was purged,
\* then, from the end of the purge on, neither the object nor the URL of a
\* compressed GET holds what upstream had produced before: no reader of the old
\* record puts it there behind the purge.
PurgeHolds == \A k \in purged \cap calm : ~ StaleEntry(k, "query") /\ ~ row[k].outcome.stale

\* The comment of purge.ts: a purge of explicit requests deletes both the record
\* and the colo cache entry.  Then no URL serves what was produced before it, at
\* least when no answer was under way.
PurgeClearsCache == \A k \in purged \cap calm, u \in Urls : ~ StaleEntry(k, u)
=============================================================================
