---------------------------- MODULE PsetSigning ----------------------------
(***************************************************************************)
(* One PSET on its way through src/src/pset.rs: wrapped, blinded,          *)
(* validated, signed by the members of a federation and finalized.  It may *)
(* come from the daemon to be blinded, from the spend path, or blinded and *)
(* possibly signed from elsewhere.                                         *)
(*                                                                         *)
(* Signers of the process sign the coordinator's PSET in place (sign_with) *)
(* and may fail between two inputs.  External signers sign copies that the *)
(* application exports, which come back late, repeatedly, in any order or  *)
(* never (receive_signature).  The application may restart, which loses    *)
(* the coordinator; it opens another one on the PSET it has.               *)
(*                                                                         *)
(* A signature is named by its input and the signer that holds the key     *)
(* (copies are honest: the code verifies no signature), a witness by the positions of the witness script whose keys it has a      *)
(* signature for: finalize pushes them in script order.                    *)
(***************************************************************************)
EXTENDS Naturals, Sequences, FiniteSets

CONSTANTS
    Signer,         \* owners of keys, in the federation or not
    Federation,     \* the coordinator's federation,
    Threshold,      \*   and its threshold
    NumInputs,
    ScriptKeys,     \* the keys of an input's witness script, in its order
    Required,       \* and the number OP_CHECKMULTISIG asks for
    Output, Fee, Blindable,   \* outputs; fees; those with a blinding key
    BlinderIndex,   \* the blinder_index of an output, counted from 1, or NoIndex
    Drafts,         \* the PSETs that may be handed to the pipeline,
    Received,       \*   and those that come to it blinded
    InProcess,      \* signers that sign through sign_with,
    External,       \* and those that sign copies
    MaxCopies, MaxFailures, MaxReopens      \* bounds

Input   == 1 .. NumInputs
Holders(i) == {ScriptKeys[i][j] : j \in DOMAIN ScriptKeys[i]}
SigMap  == [Input -> SUBSET Signer]
NoSigs  == [i \in Input |-> {}]
NoIndex == 0

(***************************************************************************)
(* What an output of a confidential transaction has.                       *)
(***************************************************************************)
Proofs      == {"range_proof", "surjection_proof"}
Commitments == {"value_commitment", "asset_commitment"}
BlindingMap == [Output -> SUBSET (Proofs \cup Commitments)]

ASSUME SizesAssumption ==
    /\ NumInputs \in Nat \ {0} /\ Threshold \in Nat \ {0}
    /\ MaxCopies \in Nat /\ MaxFailures \in Nat /\ MaxReopens \in Nat

ASSUME SignersAssumption ==
    /\ Federation \subseteq Signer
    /\ InProcess \subseteq Signer /\ External \subseteq Signer

(***************************************************************************)
(* A script has no key twice: the descriptor builder keys its entries by   *)
(* signer.                                                                 *)
(***************************************************************************)
ASSUME ScriptsAssumption ==
    /\ ScriptKeys \in [Input -> Seq(Signer)]
    /\ \A i \in Input : \A j, k \in DOMAIN ScriptKeys[i] :
          ScriptKeys[i][j] = ScriptKeys[i][k] => j = k
    /\ Required \in [Input -> Nat \ {0}]

ASSUME OutputsAssumption ==
    /\ Fee \subseteq Output /\ Blindable \subseteq Output \ Fee
    /\ BlinderIndex \in [Output -> Nat]
    /\ Drafts \subseteq [sigs : SigMap, scripts : SUBSET Input, outs : SUBSET Output]
    /\ Received \subseteq [sigs : SigMap, scripts : SUBSET Input,
                           outs : SUBSET Output, blinding : BlindingMap]

VARIABLES
    stage,      \* the newtype the PSET is in
    sigs,       \* partial_sigs of each input
    scripts,    \* inputs that have a witness_script and bip32_derivation
    outs,       \* the outputs,
    blinding,   \*   and the proofs and commitments they have
    witness,    \* final_script_witness of each input
    signed,     \* the coordinator's signed
    copies,     \* signatures of the copies in circulation
    failures, reopens

pset == <<sigs, scripts, outs, blinding, witness>>
vars == <<stage, pset, signed, copies, failures, reopens>>

Init ==
    /\ \/ /\ stage \in {"draft", "planned"}
          /\ blinding = [o \in Output |-> {}]
          /\ \E d \in Drafts :
                /\ sigs = d.sigs /\ scripts = d.scripts /\ outs = d.outs
                /\ stage = "planned" => d.sigs = NoSigs /\ d.scripts = {}
       \/ /\ stage = "received"
          /\ \E r \in Received :
                /\ sigs = r.sigs /\ scripts = r.scripts /\ outs = r.outs
                /\ blinding = r.blinding
    /\ witness = NoSigs
    /\ signed = {} /\ copies = {}
    /\ failures = 0 /\ reopens = 0

-----------------------------------------------------------------------------
(***************************************************************************)
(* UnsignedPset::new.                                                      *)
(***************************************************************************)
Wrap ==
    /\ stage = "draft"
    /\ stage' = IF sigs = NoSigs THEN "unsigned" ELSE "rejected"
    /\ UNCHANGED <<pset, signed, copies, failures, reopens>>

(***************************************************************************)
(* BlindedPset::new asks for one range proof.                              *)
(***************************************************************************)
HasBlindedOutput(b) == \E o \in outs : "range_proof" \in b[o]

WrapBlinded ==
    /\ stage = "received"
    /\ stage' = IF HasBlindedOutput(blinding) THEN "blinded" ELSE "rejected"
    /\ UNCHANGED <<pset, signed, copies, failures, reopens>>

(***************************************************************************)
(* blind_pset: outputs with a blinding key are blinded by the library,     *)
(* unless an input does not unblind or the library fails.                  *)
(***************************************************************************)
Blinded ==
    [o \in Output |-> IF o \in outs \cap Blindable THEN Proofs \cup Commitments ELSE {}]

Blind ==
    /\ stage = "unsigned"
    /\ \/ /\ blinding' = Blinded
          /\ stage' = IF HasBlindedOutput(blinding') THEN "blinded" ELSE "rejected"
       \/ stage' = "rejected" /\ UNCHANGED blinding
    /\ UNCHANGED <<sigs, scripts, outs, witness, signed, copies, failures, reopens>>

(***************************************************************************)
(* build_spend_pset and its siblings: the PSET comes blinded from LWK, and *)
(* finish_blinded adds the multisig metadata to each input.                *)
(***************************************************************************)
BuildSpend ==
    /\ stage = "planned"
    /\ outs \subseteq Blindable \cup Fee
    /\ scripts' = Input
    /\ blinding' = Blinded
    /\ stage' = IF HasBlindedOutput(blinding') THEN "blinded" ELSE "rejected"
    /\ UNCHANGED <<sigs, outs, witness, signed, copies, failures, reopens>>

(***************************************************************************)
(* validate_blinding, and ElementsSigningCoordinator::new: both proofs on  *)
(* every output but fees, whose blinder_index, if any, is an input's.      *)
(* Mutant: content with what BlindedPset::new asks for.                    *)
(***************************************************************************)
SomeOutputBlinded == HasBlindedOutput(blinding)

AllProven == \A o \in outs \ Fee : Proofs \subseteq blinding[o]

ValidBlinding ==
    /\ AllProven
    /\ \A o \in outs \ Fee : BlinderIndex[o] \in Input \cup {NoIndex}

OpenCoordinator ==
    /\ stage = "blinded"
    /\ stage' = IF ValidBlinding THEN "signing" ELSE "rejected"
    /\ signed' = {}
    /\ UNCHANGED <<pset, copies, failures, reopens>>

-----------------------------------------------------------------------------
IsComplete == Cardinality(signed) >= Threshold

(***************************************************************************)
(* A signer signs the inputs whose derivations name one of its keys, in    *)
(* input order; one that fails has signed those before some input.         *)
(***************************************************************************)
CanSign(s, i) == i \in scripts /\ s \in Holders(i)

SignedBelow(s, n) ==
    [i \in Input |-> IF CanSign(s, i) /\ i < n THEN sigs[i] \cup {s} ELSE sigs[i]]

(***************************************************************************)
(* Mutants of SignWith: a signer is counted for new signatures only;       *)
(* anybody may sign.                                                       *)
(***************************************************************************)
SignWithAnyone(s) ==
    /\ stage = "signing"
    /\ s \in InProcess
    /\ sigs' = SignedBelow(s, NumInputs + 1)
    /\ signed' = IF \E i \in Input : CanSign(s, i) THEN signed \cup {s} ELSE signed
    /\ UNCHANGED <<stage, scripts, outs, blinding, witness, copies, failures, reopens>>

SignWithNew(s) ==
    /\ stage = "signing"
    /\ s \in Federation \cap InProcess
    /\ sigs' = SignedBelow(s, NumInputs + 1)
    /\ signed' = IF sigs' # sigs THEN signed \cup {s} ELSE signed
    /\ UNCHANGED <<stage, scripts, outs, blinding, witness, copies, failures, reopens>>

SignWith(s) ==
    /\ stage = "signing"
    /\ s \in Federation \cap InProcess
    /\ sigs' = SignedBelow(s, NumInputs + 1)
    /\ signed' = IF \E i \in Input : CanSign(s, i) THEN signed \cup {s} ELSE signed
    /\ UNCHANGED <<stage, scripts, outs, blinding, witness, copies, failures, reopens>>

SignWithFails(s) ==
    /\ stage = "signing"
    /\ s \in Federation \cap InProcess
    /\ failures < MaxFailures
    /\ failures' = failures + 1
    /\ \E n \in 1 .. NumInputs + 1 : sigs' = SignedBelow(s, n)
    /\ UNCHANGED <<stage, scripts, outs, blinding, witness, signed, copies, reopens>>

(***************************************************************************)
(* The application exports a copy, external signers sign copies, also ones *)
(* that others have signed, and any copy may come back under any name.     *)
(***************************************************************************)
Export ==
    /\ stage = "signing"
    /\ Cardinality(copies) < MaxCopies
    /\ copies' = copies \cup {sigs}
    /\ UNCHANGED <<stage, pset, signed, failures, reopens>>

ExternalSign(s, c) ==
    /\ stage = "signing"
    /\ s \in External
    /\ \E I \in SUBSET {i \in Input : CanSign(s, i)} :
          copies' = (copies \ {c}) \cup
              {[i \in Input |-> IF i \in I THEN c[i] \cup {s} ELSE c[i]]}
    /\ UNCHANGED <<stage, pset, signed, failures, reopens>>

(***************************************************************************)
(* What a copy has that is attributable to a signer by fingerprint and not *)
(* in the coordinator's PSET; the signer is counted if there is any.       *)
(* Mutants: signatures of others taken too; the copy's map taken over.     *)
(***************************************************************************)
AnyNew(s, c, i)     == c[i] \ sigs[i]
Attributed(s, c, i) == (c[i] \cap {s}) \ sigs[i]

CopyTaken(s, c) == [i \in Input |-> c[i]]
Merged(s, c)    == [i \in Input |-> sigs[i] \cup Attributed(s, c, i)]

ReceiveSignature(s, c) ==
    /\ stage = "signing"
    /\ s \in Federation
    /\ \E i \in Input : Attributed(s, c, i) # {}
    /\ sigs' = Merged(s, c)
    /\ signed' = signed \cup {s}
    /\ UNCHANGED <<stage, scripts, outs, blinding, witness, copies, failures, reopens>>

(***************************************************************************)
(* A restart: a new coordinator on the PSET as it was kept or as it was    *)
(* exported.  Only UnsignedPset refuses signatures, so they are welcome,   *)
(* but nobody is counted for them.                                         *)
(***************************************************************************)
Reopen ==
    /\ stage = "signing"
    /\ reopens < MaxReopens
    /\ reopens' = reopens + 1
    /\ \E c \in copies \cup {sigs} : sigs' = c
    /\ signed' = {}
    /\ UNCHANGED <<stage, scripts, outs, blinding, witness, copies, failures>>

-----------------------------------------------------------------------------
(***************************************************************************)
(* finalize_p2wsh_pset: the signatures of an input by script position, of  *)
(* these the first m.  Mutant: extra signatures are not truncated.         *)
(***************************************************************************)
SignedPositions(i) == {j \in DOMAIN ScriptKeys[i] : ScriptKeys[i][j] \in sigs[i]}

AllOf(P, m)   == P
FirstOf(P, m) == {j \in P : Cardinality({k \in P : k <= j}) <= m}

WitnessOf(i) == FirstOf(SignedPositions(i), Required[i])

(***************************************************************************)
(* The loop stops at the first input without a witness script; the inputs  *)
(* before it have their witness by then and their fields cleared.  The     *)
(* transaction may fail to be extracted after that.                        *)
(***************************************************************************)
Finalize ==
    /\ stage = "signing"
    /\ IsComplete
    /\ LET done == {i \in Input : 1 .. i \subseteq scripts}
       IN  /\ witness' = [i \in Input |-> IF i \in done THEN WitnessOf(i) ELSE witness[i]]
           /\ sigs' = [i \in Input |-> IF i \in done THEN {} ELSE sigs[i]]
           /\ scripts' = scripts \ done
           /\ stage' \in IF done = Input THEN {"finalized", "failed"} ELSE {"failed"}
    /\ UNCHANGED <<outs, blinding, signed, copies, failures, reopens>>

(***************************************************************************)
(* finalize takes the coordinator by value: called too early it returns    *)
(* InsufficientSignatures and the coordinator is gone with its PSET.       *)
(***************************************************************************)
FinalizeEarly ==
    /\ stage = "signing"
    /\ ~IsComplete
    /\ failures < MaxFailures
    /\ failures' = failures + 1
    /\ stage' = "failed"
    /\ UNCHANGED <<pset, signed, copies, reopens>>

Next ==
    \/ Wrap \/ WrapBlinded \/ Blind \/ BuildSpend \/ OpenCoordinator
    \/ \E s \in Signer : SignWith(s) \/ SignWithFails(s)
    \/ Export
    \/ \E s \in Signer, c \in copies : ExternalSign(s, c) \/ ReceiveSignature(s, c)
    \/ Reopen \/ Finalize \/ FinalizeEarly

Spec == Init /\ [][Next]_vars

(***************************************************************************)
(* The application asks every signer of the process again while the        *)
(* threshold is not met, and finalizes when it is.  Nothing is assumed of  *)
(* external signers.                                                       *)
(***************************************************************************)
FairSpec ==
    /\ Spec
    /\ \A s \in Signer : WF_vars(SignWith(s))
    /\ WF_vars(Finalize)

-----------------------------------------------------------------------------
(***************************************************************************)
(* Every variable holds values of its kind.                                *)
(***************************************************************************)
TypeOK ==
    /\ stage \in {"draft", "planned", "received", "unsigned", "blinded", "signing",
                  "finalized", "rejected", "failed"}
    /\ sigs \in SigMap
    /\ scripts \subseteq Input
    /\ outs \subseteq Output /\ blinding \in BlindingMap
    /\ witness \in [Input -> SUBSET Nat]
    /\ signed \subseteq Federation
    /\ copies \subseteq SigMap
    /\ failures \in 0 .. MaxFailures /\ reopens \in 0 .. MaxReopens

(***************************************************************************)
(* Who is counted has contributed: whatever copies of the exported PSET    *)
(* come back, how often, in which order and under whose name, each signer  *)
(* in signed has a signature of its own in the PSET, so that is_complete   *)
(* never counts one signer's work for another.                             *)
(***************************************************************************)
CountedContributed ==
    stage = "signing" => \A s \in signed : \E i \in Input : s \in sigs[i]

(***************************************************************************)
(* A PSET that waits to be blinded or has passed the coordinator's gate    *)
(* and carries signatures or witnesses has both proofs on every output     *)
(* that is not a fee: nothing is signed without proofs, and nothing is     *)
(* blinded under an existing signature.  BlindedPset::new takes a signed   *)
(* PSET with a single range proof, so that the gate alone answers for      *)
(* those that are received.                                                *)
(***************************************************************************)
SignedMeansProven ==
    stage \notin {"draft", "received", "blinded", "rejected"} =>
        (sigs = NoSigs /\ witness = NoSigs) \/ AllProven

(***************************************************************************)
(* Once is_complete, an input of the federation that every counted signer  *)
(* signed is finalized with exactly as many signatures as its script asks  *)
(* for: no fewer, and no more, which OP_CHECKMULTISIG refuses as well.     *)
(***************************************************************************)
OfFederation(i) == Holders(i) = Federation /\ Required[i] = Threshold

QuorumFilled ==
    stage = "signing" /\ IsComplete =>
        \A i \in Input : OfFederation(i) /\ signed \subseteq sigs[i] =>
            Cardinality(WitnessOf(i)) = Required[i]

(***************************************************************************)
(* Short of a restart, a collected signature stays until it is finalized:  *)
(* no late copy, retry or failed signer takes one away.                    *)
(***************************************************************************)
SignaturesKept ==
    [][stage = "signing" /\ stage' = "signing" /\ reopens' = reopens =>
          \A i \in Input : sigs[i] \subseteq sigs'[i]]_vars

(***************************************************************************)
(* With at least the threshold of signers in the process that find a key   *)
(* of theirs, a session ends, although signers failed halfway, restarts    *)
(* lost the count, and a signer's signatures were already there when it    *)
(* was asked again.                                                        *)
(***************************************************************************)
Signable ==
    Cardinality({s \in Federation \cap InProcess : \E i \in Input : CanSign(s, i)})
        >= Threshold

SigningCompletes ==
    stage = "signing" /\ Signable ~> stage \in {"finalized", "failed"}

-----------------------------------------------------------------------------
(***************************************************************************)
(* What the documentation says of the code and the code does not do.       *)
(*                                                                         *)
(* "Every non-fee output has a value commitment and asset commitment"      *)
(* (confidential.rs, of what ElementsSigningCoordinator::new checks): so   *)
(* has every PSET in a coordinator.  The gate looks at the proofs and at   *)
(* blinder_index, not at the commitments.                                  *)
(***************************************************************************)
OutputsCommitted ==
    stage = "signing" => \A o \in outs \ Fee : Commitments \subseteq blinding[o]

(***************************************************************************)
(* "A fully-signed, finalized PSET, ready for broadcast" (pset.rs): each   *)
(* input has the signatures its script asks for.  is_complete counts the   *)
(* signers, not the signatures of an input, and the finalizer takes what   *)
(* an input has.                                                           *)
(***************************************************************************)
FullySigned ==
    stage = "finalized" => \A i \in Input : Cardinality(witness[i]) = Required[i]
=============================================================================
