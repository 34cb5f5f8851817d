-------------------------- MODULE MCWalletVersions --------------------------
(***************************************************************************)
(* An instance of WalletVersions for TLC: a federation that is replaced by *)
(* another, with a blinding key of its own or the one it had, or that      *)
(* keeps its members and rotates the key.                                  *)
(***************************************************************************)
EXTENDS WalletVersions

Of(n, d, k) == [network |-> n, descriptor |-> d, key |-> k]
MCCandidates == {Of("liquid", "d1", "k1"), Of("liquid", "d1", "k2"),
                 Of("liquid", "d2", "k1"), Of("testnet", "d2", "k2"),
                 Of("bitcoin", "d1", "k1")}
=============================================================================
