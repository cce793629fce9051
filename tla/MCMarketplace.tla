---------------------------- MODULE MCMarketplace ----------------------------
(***************************************************************************)
(* Small instances of Marketplace for TLC.                                 *)
(***************************************************************************)
EXTENDS MarketMatching, TLC

Symmetry ==
    Permutations(Wallet) \cup Permutations(RideRequest) \cup Permutations(OfferId)
                         \cup Permutations(Handler)

=============================================================================
