----------------------------- MODULE MCMempool -----------------------------
(* Three transactions of two senders: ta and tb of one sender with nonces 1 *)
(* and 2, tc with nonce 0.  tb may fail validation or pass it, depending on  *)
(* a balance.  Any two fit the byte limit, and the third does not.           *)
EXTENDS Mempool, FiniteSetsExt, TLC

CONSTANTS ta, tb, tc, alice, bob

MCSenderOf == ta :> alice @@ tb :> alice @@ tc :> bob
MCNonceOf == ta :> 1 @@ tb :> 2 @@ tc :> 0
MCVerdict == ta :> {TRUE} @@ tb :> BOOLEAN @@ tc :> {TRUE}
MCBytes == [S \in SUBSET Tx |-> MapThenSumSet(LAMBDA t : IF t = tb THEN 3 ELSE 2, S)]
=============================================================================
