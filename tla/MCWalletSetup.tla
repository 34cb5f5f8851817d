--------------------------- MODULE MCWalletSetup ---------------------------
(***************************************************************************)
(* An instance of WalletSetup for TLC: a federation of two, and a signer   *)
(* that is not a member and has the id of one that is.                     *)
(***************************************************************************)
EXTENDS WalletSetup

MCIdOf == [s1 |-> 1, s2 |-> 2, stray |-> 1]
=============================================================================
