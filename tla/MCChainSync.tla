----------------------------- MODULE MCChainSync -----------------------------
(***************************************************************************)
(* Small instances of ChainSync for TLC.                                   *)
(***************************************************************************)
EXTENDS ChainSync, TLC

TxSymmetry   == Permutations(TxHash)
SyncSymmetry == TxSymmetry \cup Permutations(Wallet) \cup Permutations(OfferId)

=============================================================================
