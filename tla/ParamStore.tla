----------------------------- MODULE ParamStore -----------------------------
(***************************************************************************)
(* The ParamStore Durable Object (workers/src/durable-objects/             *)
(* param-store.ts): one table, for all chains, from the hash of a params   *)
(* string to that string.  The store handler refuses a hash that is not    *)
(* the one of its params, so the params are a function of the hash and a   *)
(* mapping is no more than its presence and its age.  An age stops at the  *)
(* TTL: no statement of the object tells larger ages apart.                *)
(***************************************************************************)
EXTENDS Naturals

CONSTANTS Hashes,        \* hashes of params strings
          ParamTtl       \* PARAM_TTL_MS, in ticks

ASSUME ParamTtlAssumption == ParamTtl \in Nat \ {0}

VARIABLE mapping         \* mapping[h]: whether h has a row, and its age

Gone == [there |-> FALSE, age |-> 0]

ParamStoreTypeOK == mapping \in [Hashes -> [there : BOOLEAN, age : 0..ParamTtl]]

ParamStoreInit == mapping = [h \in Hashes |-> Gone]

\* getParams: an expired row is treated as nonexistent.
Known(h) == mapping[h].there /\ mapping[h].age < ParamTtl

\* Mutant: INSERT OR IGNORE, which leaves the age of a row that is there.
PutIgnoring(h) == mapping' = IF mapping[h].there THEN mapping
                             ELSE [mapping EXCEPT ![h] = [there |-> TRUE, age |-> 0]]

\* putParams: INSERT ... ON CONFLICT DO UPDATE SET created_at.
Put(h) == mapping' = [mapping EXCEPT ![h] = [there |-> TRUE, age |-> 0]]

\* deleteParams: DELETE /params/:hash; nothing in the Worker asks for it yet.
Remove(h) == mapping' = [mapping EXCEPT ![h] = Gone]

\* The hourly alarm deletes what the read path no longer sees.
Sweep == mapping' = [h \in Hashes |-> IF Known(h) THEN mapping[h] ELSE Gone]

AgeMappings ==
  mapping' = [h \in Hashes |->
                IF Known(h) THEN [mapping[h] EXCEPT !.age = @ + 1] ELSE mapping[h]]
=============================================================================
