------------------------------- MODULE Ledger -------------------------------
(***************************************************************************)
(* What the consensus engine promises of the chains its nodes store, with  *)
(* rounds, views, leaders and messages left out: validators cast commit    *)
(* votes, and a node extends its chain by a child of its tip once a quorum *)
(* of the stake has voted for it.  A node may lose what it stores, down to *)
(* the genesis block, at any time.                                         *)
(*                                                                         *)
(* It does not promise that a validator votes once per height: the engine  *)
(* keeps no such record, so the chains of two nodes may part.  What it     *)
(* promises then is ForkAccountable.                                       *)
(***************************************************************************)
EXTENDS Integers, Sequences, FiniteSets, StakeQuorum

CONSTANTS
    Block,         \* the blocks that can ever be created
    ParentOf,      \* the parent hash in a block's header
    HeightOf,      \* the height in a block's header
    Genesis        \* the block every node starts from

VARIABLES
    chain,         \* chain[n]: the blocks node n stores, genesis first
    votes          \* votes[b]: the validators that cast a commit vote for b

ledgerVars == <<chain, votes>>

Tip(n) == chain[n][Len(chain[n])]

LedgerInit ==
    /\ chain = [n \in Node |-> <<Genesis>>]
    /\ votes = [b \in Block |-> {}]

CastVote(n, b) ==
    /\ votes' = [votes EXCEPT ![b] = @ \cup {n}]
    /\ UNCHANGED chain

Extend(n, b) ==
    /\ ParentOf[b] = Tip(n)
    /\ hasQuorum(votes[b])
    /\ chain' = [chain EXCEPT ![n] = Append(@, b)]
    /\ UNCHANGED votes

Forget(n) ==
    /\ chain' = [chain EXCEPT ![n] = <<Genesis>>]
    /\ UNCHANGED votes

LedgerNext ==
    \/ \E n \in Node, b \in Block : CastVote(n, b) \/ Extend(n, b)
    \/ \E n \in Node : Forget(n)

LedgerSpec == LedgerInit /\ [][LedgerNext]_ledgerVars
=============================================================================
