---------------------------- MODULE MCStatistics ----------------------------
(***************************************************************************)
(* Instances of Statistics for TLC.                                        *)
(***************************************************************************)
EXTENDS Statistics

Seen1(key, status, error, ms) == [key |-> key, status |-> status, error |-> error, ms |-> ms]

\* Two methods; hits and calls of upstream, which take 1 to 3, good and bad.
Mix == {Seen1("a", "MISS", FALSE, 1), Seen1("a", "MISS", TRUE, 2), Seen1("b", "MISS", FALSE, 3),
        Seen1("a", "HIT", TRUE, 0)}

Symmetry == Permutations(Senders)
=============================================================================
