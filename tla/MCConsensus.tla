---------------------------- MODULE MCConsensus ----------------------------
(* Small instances of Consensus: three validators, one of them holding half *)
(* the stake, so that {va, vc} and {vb, vc} are quorums.  vb leads height 1 *)
(* and vc leads height 2.                                                   *)
EXTENDS Consensus, FiniteSetsExt, TLC

CONSTANTS va, vb, vc, g, x1, y1, x2

MCOrder == 0 :> va @@ 1 :> vb @@ 2 :> vc
MCStake == [S \in SUBSET Node |-> MapThenSumSet(LAMBDA n : IF n = vc THEN 2 ELSE 1, S)]

MCParentOf == [k \in Block |-> CASE k = g -> None [] k \in {x1, y1} -> g [] k = x2 -> x1]
MCHeightOf == [k \in Block |-> CASE k = g -> 0 [] k \in {x1, y1} -> 1 [] k = x2 -> 2]

\* Everything is lost but what Heard(type, block, to) says a node hears.
LostBut(Heard(_, _, _)) == {m \in LostMessage : m.from \notin Heard(m.type, m.block, m.to)}

\* One height, two blocks: va hears of x1 only, vb counts votes for y1 only,
\* vc hears vb and itself.
ForkHeard(type, k, n) ==
    CASE type = "proposal" -> IF n = va /\ k # x1 THEN {} ELSE Node
      [] n = va -> IF k = x1 THEN {va, vc} ELSE {}
      [] n = vb -> IF k = y1 THEN {vb, vc} ELSE {}
      [] n = vc -> IF k = y1 \/ type = "prepare" THEN {vb, vc} ELSE {vc}
MCForkLost == LostBut(ForkHeard)

\* Two heights: vc hears too little to commit x1, va and vb too little to commit
\* x2, so that each has a block to learn by gossip.
HeightsHeard(type, k, n) ==
    CASE n = va /\ k = x2 -> {}
      [] type = "proposal" -> Node
      [] n = va -> {va, vc}
      [] n = vb -> IF k = x2 /\ type = "vote" THEN {} ELSE {vb, vc}
      [] n = vc -> IF k = x1 /\ type = "vote" THEN {vc} ELSE {vb, vc}
MCHeightsLost == LostBut(HeightsHeard)

MCAnyInterrupt == Node \X InterruptKind
MCHeightsInterrupt == {<<vb, "viewchange">>, <<va, "restart">>}
=============================================================================
