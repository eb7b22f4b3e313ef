----------------------------- MODULE HashLease -----------------------------
(***************************************************************************)
(* What the deduplication promises to upstream: the right to execute a     *)
(* hash is leased for a fixed term.  While a lease runs nobody else gets   *)
(* one, even when its holder is gone; it is never extended; and it ends    *)
(* early only when it is withdrawn, for its holder as for all others.      *)
(***************************************************************************)
EXTENDS Naturals

CONSTANTS Calls, Keys, Term

VARIABLES holders,       \* holders[k]: who holds the lease of hash k
          left           \* left[k]: the ticks that are left of it; 0: hash k is free

vars == <<holders, left>>

Init == /\ holders = [k \in Keys |-> {}]
        /\ left = [k \in Keys |-> 0]

HoldsNone(c) == \A k \in Keys : c \notin holders[k]

Grant(k, hs) == /\ left[k] = 0
                /\ holders' = [holders EXCEPT ![k] = hs]
                /\ left' = [left EXCEPT ![k] = Term]

\* The grant may be lost on its way to the caller: then nobody holds the lease.
GrantTo(c, k) == HoldsNone(c) /\ Grant(k, {c})
GrantLost(k) == Grant(k, {})

\* A holder that is gone, or gave up, leaves the lease running.
Abandon(c, k) == /\ c \in holders[k]
                 /\ holders' = [holders EXCEPT ![k] = @ \ {c}]
                 /\ UNCHANGED left

\* The work is done, or the lease is revoked.
Withdraw(ks) == /\ holders' = [k \in Keys |-> IF k \in ks THEN {} ELSE holders[k]]
                /\ left' = [k \in Keys |-> IF k \in ks THEN 0 ELSE left[k]]

\* A lease and its holder end with the term.
Pass == /\ holders' = [k \in Keys |-> IF left[k] > 1 THEN holders[k] ELSE {}]
        /\ left' = [k \in Keys |-> IF left[k] > 0 THEN left[k] - 1 ELSE 0]

Next == \/ \E k \in Keys : GrantLost(k)
        \/ \E c \in Calls, k \in Keys : GrantTo(c, k) \/ Abandon(c, k)
        \/ \E ks \in SUBSET Keys : Withdraw(ks)
        \/ Pass

Spec == Init /\ [][Next]_vars
=============================================================================
