------------------------------ MODULE MCSessions ------------------------------
(***************************************************************************)
(* A small instance of Sessions for TLC.                                   *)
(***************************************************************************)
EXTENDS Sessions, TLC

SessionsSymmetry ==
    Permutations(Account) \cup Permutations(Nonce) \cup Permutations(Token)
        \cup Permutations(Handler)
=============================================================================
