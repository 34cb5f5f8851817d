------------------------- MODULE PsetSigningProofs -------------------------
(***************************************************************************)
(* Proofs about PsetSigning, for any federation, any number of inputs and  *)
(* any scripts.                                                            *)
(***************************************************************************)
EXTENDS PsetSigning, FiniteSetTheorems, TLAPS

-----------------------------------------------------------------------------
(***************************************************************************)
(* The rank of a position is the number of positions up to it.             *)
(***************************************************************************)
Rank(P, j) == Cardinality({k \in P : k <= j})

(***************************************************************************)
(* Two positions of a finite set have different ranks, from 1 to its size. *)
(***************************************************************************)
LEMMA RankInjective ==
    ASSUME NEW P \in SUBSET Nat, IsFiniteSet(P)
    PROVE  [j \in P |-> Rank(P, j)] \in Injection(P, 1 .. Cardinality(P))
<1> DEFINE Below(j) == {k \in P : k <= j}
<1>1. ASSUME NEW j \in P
      PROVE  /\ IsFiniteSet(Below(j)) /\ Rank(P, j) = Cardinality(Below(j))
             /\ Rank(P, j) \in 1 .. Cardinality(P)
  <2>1. IsFiniteSet(Below(j)) /\ Cardinality(Below(j)) <= Cardinality(P)
    BY FS_Subset
  <2>2. Cardinality(Below(j)) \in Nat /\ Cardinality(P) \in Nat
    BY <2>1, FS_CardinalityType
  <2>3. j \in Below(j)
    BY j \in Nat
  <2>4. Cardinality(Below(j)) # 0
    BY <2>1, <2>3, FS_EmptySet
  <2> QED
    BY <2>1, <2>2, <2>4 DEF Rank
<1>2. ASSUME NEW i \in P, NEW j \in P, i < j
      PROVE  Rank(P, i) # Rank(P, j)
  <2>0. P \subseteq Nat /\ i \in Nat /\ j \in Nat
    OBVIOUS
  <2>1. Below(i) \subseteq Below(j) /\ j \in Below(j) /\ j \notin Below(i)
    <3>1. ASSUME NEW k \in Below(i) PROVE k \in Below(j)
      <4>1. k \in P /\ k \in Nat /\ k <= i
        BY <2>0
      <4> QED
        BY <4>1, <2>0, <1>2
    <3>2. j <= j /\ ~(j <= i)
      BY <2>0, <1>2
    <3> QED
      BY <3>1, <3>2
  <2>2. Cardinality(Below(i)) # Cardinality(Below(j))
    <3>1. Below(i) \in SUBSET Below(j) /\ Below(i) # Below(j)
      BY <2>1
    <3> QED
      BY <3>1, <1>1, FS_Subset
  <2> QED
    BY <2>2, <1>1
<1>3. ASSUME NEW i \in P, NEW j \in P, Rank(P, i) = Rank(P, j)
      PROVE  i = j
  <2>1. i \in Nat /\ j \in Nat
    OBVIOUS
  <2>2. ~(i < j) /\ ~(j < i)
    BY <1>2, <1>3
  <2> QED
    BY <2>1, <2>2
<1> QED
  BY <1>1, <1>3 DEF Injection, IsInjective

(***************************************************************************)
(* Truncation to the first m leaves m of them when there are as many.      *)
(***************************************************************************)
LEMMA FirstOfExact ==
    ASSUME NEW P \in SUBSET Nat, IsFiniteSet(P), NEW m \in Nat, m <= Cardinality(P)
    PROVE  Cardinality(FirstOf(P, m)) = m
<1> DEFINE n == Cardinality(P)
           f == [j \in P |-> Rank(P, j)]
           g == [j \in FirstOf(P, m) |-> Rank(P, j)]
<1>1. n \in Nat
  BY FS_CardinalityType
<1>2. f \in Injection(P, 1 .. n)
  BY RankInjective
<1>3. ASSUME NEW k \in Nat PROVE IsFiniteSet(1 .. k) /\ Cardinality(1 .. k) = k
  <2>1. 1 \in Int /\ k \in Int
    OBVIOUS
  <2>2. IsFiniteSet(1 .. k) /\ Cardinality(1 .. k) = IF 1 > k THEN 0 ELSE k - 1 + 1
    BY <2>1, FS_Interval
  <2> QED
    BY <2>2
<1>4. f \in Surjection(P, 1 .. n)
  BY <1>1, <1>2, <1>3, FS_Injection
<1>5. FirstOf(P, m) = {j \in P : Rank(P, j) <= m}
  BY DEF FirstOf, Rank
<1>6. ASSUME NEW j \in FirstOf(P, m) PROVE Rank(P, j) \in 1 .. m
  <2>1. j \in P /\ Rank(P, j) <= m /\ f[j] = Rank(P, j)
    BY <1>5
  <2>2. f[j] \in 1 .. n
    BY <1>2, <2>1 DEF Injection
  <2> QED
    BY <2>1, <2>2, <1>1
<1>7. ASSUME NEW i \in FirstOf(P, m), NEW j \in FirstOf(P, m), g[i] = g[j] PROVE i = j
  <2>1. i \in P /\ j \in P /\ f[i] = f[j]
    BY <1>5, <1>7
  <2> QED
    BY <2>1, <1>2 DEF Injection, IsInjective
<1>8. ASSUME NEW r \in 1 .. m PROVE \E j \in FirstOf(P, m) : g[j] = r
  <2>1. r \in 1 .. n
    BY <1>1
  <2>2. PICK j \in P : f[j] = r
    BY <2>1, <1>4 DEF Surjection
  <2> QED
    BY <2>2, <1>5
<1>9. g \in Bijection(FirstOf(P, m), 1 .. m)
  BY <1>6, <1>7, <1>8 DEF Bijection, Injection, Surjection, IsInjective
<1>10. IsFiniteSet(FirstOf(P, m))
  BY <1>5, FS_Subset
<1> QED
  BY <1>9, <1>10, <1>3, FS_Bijection DEF ExistsBijection

-----------------------------------------------------------------------------
(***************************************************************************)
(* What the stages of the pipeline guarantee by the time they are reached. *)
(***************************************************************************)
Lifecycle ==
    /\ stage \in {"draft", "planned", "unsigned"} => witness = NoSigs
    /\ stage \in {"planned", "unsigned"} => sigs = NoSigs
    /\ stage \in {"signing", "finalized", "failed"} => AllProven

IndInv == TypeOK /\ CountedContributed /\ Lifecycle

(***************************************************************************)
(* A PSET is unsigned or still to be wrapped, and nobody is counted.       *)
(***************************************************************************)
LEMMA InitInv == Init => IndInv
<1> SUFFICES ASSUME Init PROVE IndInv
  OBVIOUS
<1>1. TypeOK
  BY OutputsAssumption, SizesAssumption DEF Init, TypeOK, NoSigs, SigMap, BlindingMap
<1>2. CountedContributed /\ Lifecycle
  BY OutputsAssumption DEF Init, CountedContributed, Lifecycle, AllProven, NoSigs
<1> QED
  BY <1>1, <1>2 DEF IndInv

(***************************************************************************)
(* UnsignedPset::new lets no signature through.                            *)
(***************************************************************************)
LEMMA WrapInv == IndInv /\ Wrap => IndInv'
BY DEF IndInv, TypeOK, CountedContributed, Lifecycle, AllProven, Wrap, pset

(***************************************************************************)
(* BlindedPset::new lets them through, and is not the gate.                *)
(***************************************************************************)
LEMMA WrapBlindedInv == IndInv /\ WrapBlinded => IndInv'
BY DEF IndInv, TypeOK, CountedContributed, Lifecycle, AllProven, WrapBlinded, pset

(***************************************************************************)
(* What the library makes of an output has its type.                       *)
(***************************************************************************)
LEMMA BlindedType == Blinded \in BlindingMap
BY DEF Blinded, BlindingMap

(***************************************************************************)
(* Blinding happens before any signature.                                  *)
(***************************************************************************)
LEMMA BlindInv == IndInv /\ Blind => IndInv'
BY BlindedType DEF IndInv, TypeOK, CountedContributed, Lifecycle, AllProven, Blind

(***************************************************************************)
(* So it does on the spend path.                                           *)
(***************************************************************************)
LEMMA BuildSpendInv == IndInv /\ BuildSpend => IndInv'
BY BlindedType DEF IndInv, TypeOK, CountedContributed, Lifecycle, AllProven, BuildSpend

(***************************************************************************)
(* The coordinator opens on a PSET with all its proofs, counting nobody.   *)
(***************************************************************************)
LEMMA OpenCoordinatorInv == IndInv /\ OpenCoordinator => IndInv'
BY DEF IndInv, TypeOK, CountedContributed, Lifecycle, OpenCoordinator,
       ValidBlinding, AllProven, pset

(***************************************************************************)
(* A signer that signs some input is counted with its signature in place.  *)
(***************************************************************************)
LEMMA SignWithInv == ASSUME NEW s \in Signer PROVE IndInv /\ SignWith(s) => IndInv'
<1> SUFFICES ASSUME IndInv, SignWith(s) PROVE IndInv'
  OBVIOUS
<1> USE DEF IndInv, SignWith
<1>1. sigs' \in SigMap
  BY DEF TypeOK, SignedBelow, SigMap
<1>2. TypeOK'
  BY <1>1 DEF TypeOK
<1>3. \A i \in Input : sigs[i] \subseteq sigs'[i]
  BY DEF SignedBelow
<1>4. \A i \in Input : CanSign(s, i) => s \in sigs'[i]
  BY SizesAssumption DEF SignedBelow, Input
<1>5. CountedContributed'
  BY <1>3, <1>4 DEF CountedContributed
<1>6. Lifecycle'
  BY DEF Lifecycle, AllProven
<1> QED
  BY <1>2, <1>5, <1>6

(***************************************************************************)
(* One that fails is not counted, and what it signed does no harm.         *)
(***************************************************************************)
LEMMA SignWithFailsInv == ASSUME NEW s \in Signer PROVE IndInv /\ SignWithFails(s) => IndInv'
<1> SUFFICES ASSUME IndInv, SignWithFails(s) PROVE IndInv'
  OBVIOUS
<1> USE DEF IndInv, SignWithFails
<1>1. sigs' \in SigMap
  BY DEF TypeOK, SignedBelow, SigMap
<1>2. failures' \in 0 .. MaxFailures
  BY SizesAssumption DEF TypeOK
<1>3. TypeOK'
  BY <1>1, <1>2 DEF TypeOK
<1>4. \A i \in Input : sigs[i] \subseteq sigs'[i]
  BY DEF SignedBelow
<1>5. CountedContributed'
  BY <1>4 DEF CountedContributed
<1>6. Lifecycle'
  BY DEF Lifecycle, AllProven
<1> QED
  BY <1>3, <1>5, <1>6

(***************************************************************************)
(* Exporting a copy changes nothing in the coordinator.                    *)
(***************************************************************************)
LEMMA ExportInv == IndInv /\ Export => IndInv'
BY DEF IndInv, TypeOK, CountedContributed, Lifecycle, AllProven, Export, pset

(***************************************************************************)
(* Nor does signing one.                                                   *)
(***************************************************************************)
LEMMA ExternalSignInv ==
    ASSUME NEW s \in Signer, NEW c \in copies
    PROVE  IndInv /\ ExternalSign(s, c) => IndInv'
<1> SUFFICES ASSUME IndInv, ExternalSign(s, c) PROVE IndInv'
  OBVIOUS
<1>1. c \in SigMap
  BY DEF IndInv, TypeOK
<1>2. copies' \subseteq SigMap
  BY <1>1 DEF IndInv, TypeOK, ExternalSign, SigMap
<1>3. TypeOK'
  BY <1>2 DEF IndInv, TypeOK, ExternalSign, pset
<1>4. CountedContributed' /\ Lifecycle'
  BY DEF IndInv, CountedContributed, Lifecycle, AllProven, ExternalSign, pset
<1> QED
  BY <1>3, <1>4 DEF IndInv

(***************************************************************************)
(* The signer named in receive_signature is counted for a signature of     *)
(* its own that the copy adds.                                             *)
(***************************************************************************)
LEMMA ReceiveSignatureInv ==
    ASSUME NEW s \in Signer, NEW c \in copies
    PROVE  IndInv /\ ReceiveSignature(s, c) => IndInv'
<1> SUFFICES ASSUME IndInv, ReceiveSignature(s, c) PROVE IndInv'
  OBVIOUS
<1> USE DEF IndInv, ReceiveSignature
<1>1. sigs' \in SigMap
  BY DEF TypeOK, Merged, Attributed, SigMap
<1>2. TypeOK'
  BY <1>1 DEF TypeOK
<1>3. \A i \in Input : sigs'[i] = sigs[i] \cup Attributed(s, c, i)
  BY DEF Merged
<1>4. PICK i \in Input : Attributed(s, c, i) # {}
  OBVIOUS
<1>5. s \in sigs'[i]
  BY <1>3, <1>4 DEF Attributed
<1>6. CountedContributed'
  BY <1>3, <1>5 DEF CountedContributed
<1>7. Lifecycle'
  BY DEF Lifecycle, AllProven
<1> QED
  BY <1>2, <1>6, <1>7

(***************************************************************************)
(* A new coordinator counts nobody, whatever signatures its PSET has.      *)
(***************************************************************************)
LEMMA ReopenInv == IndInv /\ Reopen => IndInv'
<1> SUFFICES ASSUME IndInv, Reopen PROVE IndInv'
  OBVIOUS
<1>1. sigs' \in SigMap
  BY DEF IndInv, TypeOK, Reopen
<1>2. reopens' \in 0 .. MaxReopens
  BY SizesAssumption DEF IndInv, TypeOK, Reopen
<1>3. TypeOK'
  BY <1>1, <1>2 DEF IndInv, TypeOK, Reopen
<1>4. CountedContributed' /\ Lifecycle'
  BY DEF IndInv, CountedContributed, Lifecycle, AllProven, Reopen
<1> QED
  BY <1>3, <1>4 DEF IndInv

(***************************************************************************)
(* Finalizing turns signatures into witnesses and opens no output.         *)
(***************************************************************************)
LEMMA FinalizeInv == IndInv /\ Finalize => IndInv'
<1> SUFFICES ASSUME IndInv, Finalize PROVE IndInv'
  OBVIOUS
<1>1. \A i \in Input : WitnessOf(i) \subseteq Nat
  <2>1. \A i \in Input : ScriptKeys[i] \in Seq(Signer)
    BY ScriptsAssumption
  <2>2. \A i \in Input : SignedPositions(i) \subseteq Nat
    BY <2>1 DEF SignedPositions
  <2> QED
    BY <2>2 DEF WitnessOf, FirstOf
<1>2. sigs' \in SigMap /\ witness' \in [Input -> SUBSET Nat] /\ scripts' \subseteq Input
  BY <1>1 DEF IndInv, TypeOK, Finalize, SigMap
<1>3. stage' \in {"finalized", "failed"}
  BY DEF Finalize
<1>4. TypeOK'
  BY <1>2, <1>3 DEF IndInv, TypeOK, Finalize
<1>5. CountedContributed' /\ Lifecycle'
  BY <1>3 DEF IndInv, CountedContributed, Lifecycle, AllProven, Finalize
<1> QED
  BY <1>4, <1>5 DEF IndInv

(***************************************************************************)
(* A coordinator lost to an early finalize leaves nothing to go wrong.     *)
(***************************************************************************)
LEMMA FinalizeEarlyInv == IndInv /\ FinalizeEarly => IndInv'
BY SizesAssumption
   DEF IndInv, TypeOK, CountedContributed, Lifecycle, AllProven, FinalizeEarly, pset

(***************************************************************************)
(* The inductive invariant: who is counted has contributed, and no stage   *)
(* is reached without what the one before it checks.                       *)
(***************************************************************************)
THEOREM Invariance == Spec => []IndInv
<1>1. IndInv /\ [Next]_vars => IndInv'
  <2> SUFFICES ASSUME IndInv, [Next]_vars PROVE IndInv'
    OBVIOUS
  <2>1. CASE Wrap \/ WrapBlinded \/ Blind \/ BuildSpend \/ OpenCoordinator
    BY <2>1, WrapInv, WrapBlindedInv, BlindInv, BuildSpendInv, OpenCoordinatorInv
  <2>2. CASE \E s \in Signer : SignWith(s) \/ SignWithFails(s)
    BY <2>2, SignWithInv, SignWithFailsInv
  <2>3. CASE Export \/ Reopen
    BY <2>3, ExportInv, ReopenInv
  <2>4. CASE \E s \in Signer, c \in copies : ExternalSign(s, c) \/ ReceiveSignature(s, c)
    BY <2>4, ExternalSignInv, ReceiveSignatureInv
  <2>5. CASE Finalize \/ FinalizeEarly
    BY <2>5, FinalizeInv, FinalizeEarlyInv
  <2>6. CASE UNCHANGED vars
    BY <2>6 DEF vars, pset, IndInv, TypeOK, CountedContributed, Lifecycle, AllProven
  <2> QED
    BY <2>1, <2>2, <2>3, <2>4, <2>5, <2>6 DEF Next
<1> QED
  BY InitInv, <1>1, PTL DEF Spec

(***************************************************************************)
(* The variables keep their types.                                         *)
(***************************************************************************)
THEOREM TypeCorrect == Spec => []TypeOK
<1>1. IndInv => TypeOK
  BY DEF IndInv
<1> QED
  BY <1>1, Invariance, PTL

(***************************************************************************)
(* is_complete never counts a signer that has no signature in the PSET,    *)
(* whatever copies of its PSET come back and whatever fails.               *)
(***************************************************************************)
THEOREM CountedHaveSigned == Spec => []CountedContributed
<1>1. IndInv => CountedContributed
  BY DEF IndInv
<1> QED
  BY <1>1, Invariance, PTL

(***************************************************************************)
(* No PSET that waits to be blinded or is past the coordinator's gate has  *)
(* a signature or a witness and a non-fee output without proofs.           *)
(***************************************************************************)
THEOREM SignedAreProven == Spec => []SignedMeansProven
<1>1. IndInv => SignedMeansProven
  BY DEF IndInv, TypeOK, Lifecycle, SignedMeansProven
<1> QED
  BY <1>1, Invariance, PTL

-----------------------------------------------------------------------------
(***************************************************************************)
(* The signers counted for an input of the federation have keys at         *)
(* different positions of its script, so it has a signature at no fewer    *)
(* positions than there are counted signers.                               *)
(***************************************************************************)
LEMMA SignersHavePositions ==
    ASSUME NEW i \in Input, OfFederation(i), signed \subseteq Federation,
           signed \subseteq sigs[i]
    PROVE  /\ SignedPositions(i) \in SUBSET Nat /\ IsFiniteSet(SignedPositions(i))
           /\ IsFiniteSet(signed) /\ Cardinality(signed) <= Cardinality(SignedPositions(i))
<1> DEFINE P == SignedPositions(i)
           At(s) == CHOOSE j \in P : ScriptKeys[i][j] = s
           f == [s \in signed |-> At(s)]
<1>1. ScriptKeys[i] \in Seq(Signer)
  BY ScriptsAssumption
<1>2. DOMAIN ScriptKeys[i] = 1 .. Len(ScriptKeys[i]) /\ Len(ScriptKeys[i]) \in Nat
  BY <1>1
<1>3. P \in SUBSET Nat /\ P \in SUBSET (1 .. Len(ScriptKeys[i]))
  BY <1>2 DEF SignedPositions
<1>4. IsFiniteSet(P)
  <2>1. IsFiniteSet(1 .. Len(ScriptKeys[i]))
    BY <1>2, FS_Interval
  <2> QED
    BY <2>1, <1>3, FS_Subset
<1>5. ASSUME NEW s \in signed PROVE At(s) \in P /\ ScriptKeys[i][At(s)] = s
  <2>1. PICK j \in DOMAIN ScriptKeys[i] : ScriptKeys[i][j] = s
    BY DEF OfFederation, Holders
  <2>2. j \in P
    BY <2>1 DEF SignedPositions
  <2> QED
    BY <2>1, <2>2
<1>6. f \in Injection(signed, P)
  BY <1>5 DEF Injection, IsInjective
<1> HIDE DEF f
<1> QED
  BY <1>3, <1>4, <1>6, FS_Injection

(***************************************************************************)
(* Each input of the federation that the counted signers all signed gets   *)
(* exactly the signatures its script asks for.                             *)
(***************************************************************************)
THEOREM QuorumIsFilled == Spec => []QuorumFilled
<1>1. IndInv => QuorumFilled
  <2> SUFFICES ASSUME IndInv, stage = "signing", IsComplete, NEW i \in Input,
                      OfFederation(i), signed \subseteq sigs[i]
               PROVE  Cardinality(WitnessOf(i)) = Required[i]
    BY DEF QuorumFilled
  <2>1. signed \subseteq Federation
    BY DEF IndInv, TypeOK
  <2>2. /\ SignedPositions(i) \in SUBSET Nat /\ IsFiniteSet(SignedPositions(i))
        /\ IsFiniteSet(signed) /\ Cardinality(signed) <= Cardinality(SignedPositions(i))
    BY <2>1, SignersHavePositions
  <2>3. Cardinality(signed) \in Nat /\ Cardinality(SignedPositions(i)) \in Nat
    BY <2>2, FS_CardinalityType
  <2>4. Required[i] \in Nat /\ Required[i] <= Cardinality(signed)
    BY SizesAssumption DEF OfFederation, IsComplete
  <2>5. Required[i] <= Cardinality(SignedPositions(i))
    BY <2>2, <2>3, <2>4
  <2> QED
    BY <2>2, <2>4, <2>5, FirstOfExact DEF WitnessOf
<1> QED
  BY <1>1, Invariance, PTL

(***************************************************************************)
(* Signatures are only added while signing goes on.                        *)
(***************************************************************************)
THEOREM SignaturesAreKept == Spec => SignaturesKept
<1>1. ASSUME [Next]_vars, stage = "signing", stage' = "signing", reopens' = reopens,
             reopens \in Nat
      PROVE  \A i \in Input : sigs[i] \subseteq sigs'[i]
  <2>1. CASE \E s \in Signer : SignWith(s) \/ SignWithFails(s)
    BY <2>1 DEF SignWith, SignWithFails, SignedBelow
  <2>2. CASE \E s \in Signer, c \in copies : ReceiveSignature(s, c)
    BY <2>2 DEF ReceiveSignature, Merged
  <2>3. CASE sigs' = sigs
    BY <2>3
  <2> QED
    BY <1>1, <2>1, <2>2, <2>3
       DEF Next, vars, pset, Wrap, WrapBlinded, Blind, BuildSpend, OpenCoordinator,
           Export, ExternalSign, Reopen, Finalize, FinalizeEarly
<1>2. TypeOK => reopens \in Nat
  BY SizesAssumption DEF TypeOK
<1>3. TypeOK /\ [Next]_vars =>
        [stage = "signing" /\ stage' = "signing" /\ reopens' = reopens =>
            \A i \in Input : sigs[i] \subseteq sigs'[i]]_vars
  BY <1>1, <1>2
<1> QED
  BY <1>3, TypeCorrect, PTL DEF Spec, SignaturesKept
=============================================================================
