----------------------------- MODULE StakeQuorum -----------------------------
(* Quorums by stake, as hasQuorum and hasPrepareQuorum of                     *)
(* src/consensus/consensus.go count them.                                     *)
EXTENDS Integers, FiniteSets

CONSTANTS
    Node,          \* the validators, all registered at every node
    Stake          \* Stake[S]: the stake the validators in S hold together

ASSUME StakeAssumption ==
    /\ Stake \in [SUBSET Node -> Nat]
    /\ Stake[{}] = 0
    /\ \A S, T \in SUBSET Node :
          S \cap T = {} => Stake[S \cup T] = Stake[S] + Stake[T]

\* Strictly more than two thirds: floor(2 * total / 3) + 1.
requiredStake == (2 * Stake[Node]) \div 3 + 1

\* The code runs the same test on its two vote maps.
MutantQuorumTwoThirds(voters) == Stake[Node] # 0 /\ Stake[voters] >= (2 * Stake[Node]) \div 3
hasQuorum(voters) == Stake[Node] # 0 /\ Stake[voters] >= requiredStake

hasPrepareQuorum(voters) == Stake[Node] # 0 /\ Stake[voters] >= requiredStake
=============================================================================
