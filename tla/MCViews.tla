------------------------------- MODULE MCViews -------------------------------
(* Four validators that never get a block: timers, timeout votes, restarts    *)
(* and suspicion alone.                                                       *)
EXTENDS Consensus, TLC

CONSTANTS va, vb, vc, vd, g

MCOrder == 0 :> va @@ 1 :> vb @@ 2 :> vc @@ 3 :> vd
MCStake == [S \in SUBSET Node |-> Cardinality(S)]
MCParentOf == [k \in Block |-> None]
MCHeightOf == [k \in Block |-> 0]

\* Timers fire at va and vb only; va may restart.
MCInterruptible == {<<va, "viewchange">>, <<vb, "viewchange">>, <<va, "restart">>}
=============================================================================
