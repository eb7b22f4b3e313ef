------------------------------ MODULE MCTasks ------------------------------
(***************************************************************************)
(* Instances of Tasks for TLC.                                             *)
(***************************************************************************)
EXTENDS Tasks

CONSTANTS b1, b2, b3

\* Two actions; an id twice, with one item that can be decoded and one that is
\* not; no items.
Lists == [b \in {b1, b2, b3} |->
            CASE b = b1 -> <<[id |-> 1, action |-> "getBalance"],
                             [id |-> 2, action |-> "getBlock"]>>
              [] b = b2 -> <<[id |-> 1, action |-> "getBlock"],
                             [id |-> 1, action |-> "getBalance"]>>
              [] OTHER -> <<>>]

Warm == <<"getBalance", "getBlock", "getBlock">>

\* Tasks meet in the collector only: any two of them run side by side.
Begun == {b \in {b1, b2} : at[b] # "idle"}
         \cup (IF cursor > 1 THEN {"preheat"} ELSE {})
         \cup (IF single # "idle" THEN {"single"} ELSE {})
         \cup (IF resets > 0 THEN {"reset"} ELSE {})

PairSpec == Init /\ [][Next /\ Cardinality(Begun') <= 2]_vars
=============================================================================
