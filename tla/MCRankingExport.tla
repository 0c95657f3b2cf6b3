-------------------------- MODULE MCRankingExport --------------------------
(***************************************************************************)
(* RankingExport for TLC: two rounds and a jump-off, two phases of either  *)
(* kind, the optimum time, and the disciplines with one table.             *)
(***************************************************************************)
EXTENDS RankingExport

Event(d, r, j) == [discipline |-> d, rounds |-> r, jumpoffs |-> j,
                   differed |-> FALSE, integrated |-> FALSE, optimum |-> {}]

MCFormats ==
    {Event(0, 2, 1), Event(2, 1, 0), Event(3, 1, 0),
     [Event(0, 2, 0) EXCEPT !.differed = TRUE],
     [Event(0, 1, 1) EXCEPT !.integrated = TRUE, !.optimum = {1}]}

\* A correction after every competitor has a result, but in the two phases.
MCMaxResults ==
    [f \in MCFormats |-> IF f.rounds + f.jumpoffs = 2 THEN 2 ELSE 3]
=============================================================================
