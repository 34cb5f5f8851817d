---------------------------- MODULE IndexLemmas ----------------------------
(***************************************************************************)
(* Facts about the script index that the proofs about BlockScan and about  *)
(* WalletVersions share.                                                   *)
(***************************************************************************)
EXTENDS ScriptIndex, WellFoundedInduction, TLAPS

(***************************************************************************)
(* A nonempty set of naturals has a least element.                         *)
(***************************************************************************)
LEMMA LeastNatural ==
    ASSUME NEW T, T \subseteq Nat, T # {}
    PROVE  \E x \in T : \A y \in T : x <= y
<1> DEFINE R == OpToRel(<, Nat)
<1>1. PICK x \in T : \A y \in T : ~ (<<y, x>> \in R)
  BY NatLessThanWellFounded, WFMin
<1>2. \A y \in T : ~ (y < x)
  BY <1>1 DEF OpToRel
<1> QED
  BY <1>2

(***************************************************************************)
(* A nonempty set of naturals below a bound has a greatest element.        *)
(***************************************************************************)
LEMMA GreatestUpTo ==
    ASSUME NEW n \in Nat, NEW W, W \subseteq 1 .. n, W # {}
    PROVE  \E x \in W : \A y \in W : y <= x
<1> DEFINE T == {n - i : i \in W}
<1>1. PICK x \in T : \A y \in T : x <= y
  <2>1. T \subseteq Nat
    OBVIOUS
  <2>2. T # {}
    OBVIOUS
  <2> QED
    BY <2>1, <2>2, LeastNatural
<1>2. PICK i \in W : x = n - i
  OBVIOUS
<1>3. \A j \in W : n - i <= n - j
  BY <1>1, <1>2
<1> QED
  BY <1>3

(***************************************************************************)
(* A script that some registration watches has an entry: that of the last  *)
(* registration watching it.                                               *)
(***************************************************************************)
LEMMA EntryIsLast ==
    ASSUME NEW rs \in Seq(Registration), NEW spk, IndexedBy(rs, spk)
    PROVE  \E i \in DOMAIN rs :
              /\ EntryIn(rs, spk) = rs[i]
              /\ Watches(rs[i], spk)
              /\ \A j \in DOMAIN rs : Watches(rs[j], spk) => j <= i
<1> DEFINE W == {i \in DOMAIN rs : Watches(rs[i], spk)}
<1>1. Len(rs) \in Nat /\ DOMAIN rs = 1 .. Len(rs)
  OBVIOUS
<1>2. W # {}
  BY DEF IndexedBy
<1>3. \E i \in W : \A j \in W : j <= i
  BY <1>1, <1>2, GreatestUpTo
<1> QED
  BY <1>3 DEF EntryIn
=============================================================================
