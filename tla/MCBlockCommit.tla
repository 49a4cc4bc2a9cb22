--------------------------- MODULE MCBlockCommit ---------------------------
(***************************************************************************)
(* Instances of BlockCommit for TLC.                                       *)
(***************************************************************************)
EXTENDS BlockCommit

MCHasTxs == {1, 2}
MCTx == {1}
MCSpends == {2}
MCDrains == {1}
MCSeedServes == Block
MCCallers == {"consensus", "gossip", "sync"}
MCCommitters == {"consensus", "gossip"}
=============================================================================
