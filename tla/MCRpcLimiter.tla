---------------------------- MODULE MCRpcLimiter ----------------------------
(***************************************************************************)
(* Instances of RpcLimiter for TLC.                                        *)
(***************************************************************************)
EXTENDS RpcLimiter

\* A call leaves nothing behind in the chain it was for, so a small instance
\* gives every call a chain of its own for all its invocations: one call has a
\* chain to itself and the others share another one.
Lone == CHOOSE c \in Calls : TRUE
Home == LET h == CHOOSE h \in Chains : TRUE
            g == CHOOSE g \in Chains \ {h} : TRUE
        IN [c \in Calls |-> IF c = Lone THEN g ELSE h]

HomeSpec == /\ Init /\ chain = Home
            /\ [][Next /\ UNCHANGED chain]_vars
            /\ RuntimeFairness
=============================================================================
