------------------------ MODULE WalletVersionsProofs ------------------------
(***************************************************************************)
(* Proofs about WalletVersions: for any candidates, gaps and lengths of    *)
(* runs, no payment to any version of the wallet is overlooked.            *)
(***************************************************************************)
EXTENDS WalletVersions, IndexLemmas

(***************************************************************************)
(* Versions are numbered from 1 and have a descriptor, a key and a count.  *)
(***************************************************************************)
LEMMA VersionsShape ==
    ASSUME TypeOK
    PROVE  /\ Len(versions) \in Nat /\ DOMAIN versions = 1 .. Len(versions)
           /\ \A v \in DOMAIN versions :
                 /\ versions[v].federation \in Candidate
                 /\ versions[v].federation.descriptor \in Descriptor
                 /\ versions[v].federation.key \in Key
                 /\ in_use[v] \in Nat
<1>1. versions \in Seq(Version)
  BY DEF TypeOK
<1>2. \A v \in DOMAIN versions : versions[v] \in Version
  BY <1>1
<1>3. \A v \in DOMAIN versions : versions[v].federation \in Candidate
  BY <1>2 DEF Version
<1>4. \A v \in DOMAIN versions : in_use[v] \in Nat
  BY DEF TypeOK
<1> QED
  BY <1>1, <1>3, <1>4 DEF Candidate

(***************************************************************************)
(* The chain is numbered from 1 and its scripts have an index.             *)
(***************************************************************************)
LEMMA PaymentsShape ==
    ASSUME TypeOK
    PROVE  /\ Len(mined) \in Nat /\ DOMAIN mined = 1 .. Len(mined)
           /\ \A p \in DOMAIN mined : mined[p].spk[3] \in Nat
<1>1. mined \in Seq(Payment)
  BY DEF TypeOK
<1>2. \A p \in DOMAIN mined : mined[p] \in Payment
  BY <1>1
<1>3. \A p \in DOMAIN mined : mined[p].spk \in Script
  BY <1>2 DEF Payment
<1> QED
  BY <1>1, <1>3 DEF Script

(***************************************************************************)
(* An engine that reaches a payment either captures it or does not because *)
(* the entry of its script belongs to a later version with another key.    *)
(***************************************************************************)
LEMMA ReachedIsFound ==
    ASSUME IndInv, NEW p \in DOMAIN mined,
           InEngine(mined[p].version, mined[p].spk[3]),
           ~CapturedBy(engine, mined[p].spk, mined[p].blinding)
    PROVE  Shadowed(mined[p])
<1> DEFINE m == mined[p]
<1> DEFINE v == m.version
<1>1. engine \in Seq(Registration) /\ versions \in Seq(Version)
  BY DEF IndInv, TypeOK
<1>2. DOMAIN engine = 1 .. Len(engine) /\ DOMAIN versions = 1 .. Len(versions)
      /\ Len(engine) \in Nat /\ Len(versions) \in Nat
  BY <1>1
<1>3. v \in DOMAIN engine /\ Watches(engine[v], m.spk)
  BY DEF IndInv, EngineOfVersions, Payments, PaidTo, InEngine, Watches
<1>4. IndexedBy(engine, m.spk)
  BY <1>3 DEF IndexedBy
<1>5. PICK w \in DOMAIN engine :
        /\ EntryIn(engine, m.spk) = engine[w]
        /\ Watches(engine[w], m.spk)
        /\ v <= w
  BY <1>1, <1>3, <1>4, EntryIsLast
<1>6. m.blinding # engine[w].key /\ m.blinding # Explicit
  BY <1>4, <1>5 DEF CapturedBy, Unblinds
<1>7. w \in DOMAIN versions
      /\ versions[w].federation.descriptor = m.spk[1]
      /\ versions[w].federation.key = engine[w].key
  BY <1>2, <1>5 DEF IndInv, EngineOfVersions, Watches
<1>8. m.blinding = versions[v].federation.key
  BY <1>6 DEF IndInv, Payments, PaidTo
<1>9. w > v
  BY <1>2, <1>3, <1>5, <1>6, <1>7, <1>8
<1> QED
  BY <1>6, <1>7, <1>9 DEF Shadowed

(***************************************************************************)
(* What was found stays found while the wallet and the chain grow and the  *)
(* store keeps its captures.                                               *)
(***************************************************************************)
LEMMA FoundStays ==
    ASSUME NEW p \in DOMAIN mined, Found(p),
           \A q \in {p} : q \in raced => q \in raced',
           store \subseteq store',
           mined'[p] = mined[p],
           DOMAIN versions \subseteq DOMAIN versions',
           \A v \in DOMAIN versions : versions'[v] = versions[v]
    PROVE  Found(p)'
<1>1. Shadowed(mined[p]) => Shadowed(mined[p])'
  BY DEF Shadowed
<1> QED
  BY <1>1 DEF Found

(***************************************************************************)
(* A wallet of one version and an empty chain satisfy the invariant.       *)
(***************************************************************************)
LEMMA InitIndInv == Init => IndInv
<1> SUFFICES ASSUME Init PROVE IndInv
  OBVIOUS
<1>1. PICK f \in Candidates : versions = <<[federation |-> f, index |-> 0]>>
  BY DEF Init
<1>2. versions \in Seq(Version) /\ Len(versions) = 1 /\ DOMAIN versions = {1}
      /\ versions[1].index = 0
  BY <1>1, VersionsAssumption DEF Version
<1>3. TypeOK
  BY <1>2, VersionsAssumption DEF Init, TypeOK
<1>4. EngineOfVersions /\ Payments /\ PassProgress /\ Discovered
  BY <1>2 DEF Init, EngineOfVersions, Payments, PassProgress, Discovered
<1> QED
  BY <1>3, <1>4 DEF IndInv

(***************************************************************************)
(* A new version keeps the invariant: engines and payments are about       *)
(* versions that stay.                                                     *)
(***************************************************************************)
LEMMA WithFederationIndInv ==
    ASSUME IndInv, NEW f \in Candidates, WithFederation(f)
    PROVE  IndInv'
<1> USE DEF IndInv
<1>1. versions \in Seq(Version) /\ Len(versions) \in Nat
      /\ DOMAIN versions = 1 .. Len(versions)
  BY DEF TypeOK
<1>2. [federation |-> f, index |-> Len(versions)] \in Version
  BY <1>1, VersionsAssumption DEF Version
<1>3. /\ versions' \in Seq(Version)
      /\ Len(versions') = Len(versions) + 1
      /\ DOMAIN versions' = 1 .. Len(versions) + 1
      /\ \A v \in DOMAIN versions : versions'[v] = versions[v]
      /\ versions'[Len(versions) + 1] = [federation |-> f, index |-> Len(versions)]
  BY <1>1, <1>2 DEF WithFederation
<1>4. /\ in_use' \in [DOMAIN versions' -> Nat]
      /\ \A v \in DOMAIN versions : in_use'[v] = in_use[v]
  <2>1. in_use \in [1 .. Len(versions) -> Nat]
    BY <1>1 DEF TypeOK
  <2>2. in_use \in Seq(Nat) /\ Len(in_use) = Len(versions)
    BY <1>1, <2>1
  <2>3. in_use' \in Seq(Nat) /\ Len(in_use') = Len(versions) + 1
        /\ \A v \in 1 .. Len(versions) : in_use'[v] = in_use[v]
    BY <1>1, <2>2 DEF WithFederation
  <2> QED
    BY <2>3, <1>1, <1>3
<1>5. TypeOK'
  <2>1. \A v \in DOMAIN versions' :
          versions'[v].index = v - 1 /\ (v > 1 => versions'[v].federation.network = network')
    BY <1>1, <1>3 DEF TypeOK, WithFederation
  <2>2. versions' \in Seq(Version) /\ versions' # << >>
    BY <1>1, <1>3
  <2>3. UNCHANGED <<network, mined, pass, cursor, store, raced, failures>>
    BY DEF WithFederation
  <2> QED
    BY <1>4, <2>1, <2>2, <2>3 DEF TypeOK, pass
<1>6. EngineOfVersions'
  BY <1>1, <1>3 DEF EngineOfVersions, WithFederation, pass, TypeOK
<1>7. Payments'
  BY <1>1, <1>3, <1>4 DEF Payments, PaidTo, WithFederation
<1>8. \A p \in DOMAIN mined : Found(p) => Found(p)'
  BY <1>1, <1>3, FoundStays DEF WithFederation
<1>9. \A p \in DOMAIN mined : Reached(p) => Reached(p)'
  BY DEF Reached, InEngine, WithFederation, pass
<1>10. PassProgress'
  BY <1>8, <1>9 DEF PassProgress, WithFederation, pass, TypeOK
<1>11. Discovered'
  BY <1>8 DEF Discovered, WithFederation, TypeOK
<1> QED
  BY <1>5, <1>6, <1>7, <1>10, <1>11

(***************************************************************************)
(* Handing out an address only widens what payments may go to.             *)
(***************************************************************************)
LEMMA AddressIndInv ==
    ASSUME IndInv, NEW v \in DOMAIN versions, Address(v)
    PROVE  IndInv'
<1> USE DEF IndInv
<1>1. /\ in_use' \in [DOMAIN versions -> Nat]
      /\ \A w \in DOMAIN versions : in_use[w] <= in_use'[w]
  BY DEF Address, TypeOK
<1>2. TypeOK'
  BY <1>1 DEF TypeOK, Address, pass
<1>3. Payments'
  <2> SUFFICES ASSUME NEW p \in DOMAIN mined
               PROVE  PaidTo(mined[p], mined[p].version)'
    BY DEF Payments, Address
  <2>1. mined[p].spk[3] \in Nat /\ mined[p].version \in DOMAIN versions
    BY PaymentsShape DEF Payments, PaidTo
  <2>2. in_use[mined[p].version] \in Nat /\ in_use'[mined[p].version] \in Nat
    BY <1>1, <2>1, VersionsShape
  <2> QED
    BY <1>1, <2>1, <2>2 DEF Payments, PaidTo, Address
<1>4. EngineOfVersions' /\ PassProgress' /\ Discovered'
  BY DEF EngineOfVersions, PassProgress, Discovered, Reached, InEngine, Found,
         Shadowed, Address, pass
<1> QED
  BY <1>2, <1>3, <1>4

(***************************************************************************)
(* A payment mined while an engine waits for its tip is within its reach   *)
(* or is recorded as raced; one mined later is above the tip.              *)
(***************************************************************************)
LEMMA PayIndInv ==
    ASSUME IndInv, NEW v \in DOMAIN versions, Pay(v)
    PROVE  IndInv'
<1> USE DEF IndInv
<1> DEFINE n == Len(mined)
<1>1. PICK i \in 0 .. in_use[v] - 1, b \in {versions[v].federation.key, Explicit} :
        /\ mined' = Append(mined,
              [version  |-> v,
               spk      |-> <<versions[v].federation.descriptor, "external", i>>,
               blinding |-> b])
        /\ raced' = IF pc = "built" /\ ~InEngine(v, i) THEN raced \cup {n + 1} ELSE raced
  BY DEF Pay
<1> DEFINE m == [version  |-> v,
                 spk      |-> <<versions[v].federation.descriptor, "external", i>>,
                 blinding |-> b]
<1>2. v \in Nat \ {0} /\ versions[v].federation \in Candidate /\ in_use[v] \in Nat
  BY VersionsShape
<1>3. m \in Payment
  BY <1>2 DEF Payment, Candidate, Script, Keychain
<1>4. mined \in Seq(Payment) /\ n \in Nat /\ DOMAIN mined = 1 .. n
  BY DEF TypeOK
<1>5. /\ mined' \in Seq(Payment)
      /\ Len(mined') = n + 1
      /\ DOMAIN mined' = 1 .. n + 1
      /\ \A p \in DOMAIN mined : mined'[p] = mined[p]
      /\ mined'[n + 1] = m
  BY <1>1, <1>3, <1>4
<1>6. raced \subseteq raced' /\ raced' \subseteq DOMAIN mined'
  BY <1>1, <1>4, <1>5 DEF TypeOK
<1>7. TypeOK'
  BY <1>4, <1>5, <1>6 DEF TypeOK, Pay, wallet, pass
<1>8. EngineOfVersions'
  BY DEF EngineOfVersions, Pay, wallet, pass
<1>9. Payments'
  <2>1. PaidTo(m, v)
    BY <1>2 DEF PaidTo
  <2> QED
    BY <1>4, <1>5, <2>1 DEF Payments, PaidTo, Pay, wallet
<1>10. \A p \in DOMAIN mined : Found(p) => Found(p)'
  BY <1>5, <1>6, FoundStays DEF Pay, wallet
<1>11. \A p \in DOMAIN mined : Reached(p) => Reached(p)'
  BY <1>5, <1>6 DEF Reached, InEngine, Pay, pass
<1>12. UNCHANGED <<wallet, pass, cursor, store, failures>>
  BY DEF Pay
<1>13. ASSUME NEW q \in {n + 1}, pc = "built"
       PROVE  Reached(q)'
  <2>1. mined'[q].version = v /\ mined'[q].spk[3] = i
    BY <1>5
  <2>2. ~InEngine(v, i) => q \in raced'
    BY <1>1, <1>13
  <2>3. engine' = engine
    BY <1>12 DEF pass
  <2> QED
    BY <2>1, <2>2, <2>3 DEF Reached, InEngine
<1>14. PassProgress'
  <2>1. pc' = "built" => \A p \in DOMAIN mined' : Reached(p)'
    <3> SUFFICES ASSUME pc' = "built", NEW p \in DOMAIN mined' PROVE Reached(p)'
      OBVIOUS
    <3>1. pc = "built"
      BY <1>12 DEF pass
    <3>2. p \in DOMAIN mined \/ p \in {n + 1}
      BY <1>4, <1>5
    <3>3. CASE p \in DOMAIN mined
      BY <3>1, <3>3, <1>11 DEF PassProgress
    <3> QED
      BY <3>1, <3>2, <3>3, <1>13
  <2>2. ASSUME pc' = "scan"
        PROVE  /\ tip' \in cursor' .. Len(mined') /\ height' \in cursor' + 1 .. tip' + 1
               /\ \A p \in 1 .. tip' : Reached(p)'
               /\ \A p \in 1 .. height' - 1 : Found(p)'
    <3>1. pc = "scan" /\ tip' = tip /\ height' = height /\ cursor' = cursor
      BY <1>12, <2>2 DEF pass
    <3>2. tip \in cursor .. n /\ height \in cursor + 1 .. tip + 1 /\ cursor \in Nat
      BY <3>1, <1>4 DEF PassProgress, TypeOK
    <3>3. \A p \in 1 .. tip : p \in DOMAIN mined /\ Reached(p)
      BY <3>1, <3>2, <1>4 DEF PassProgress
    <3>4. \A p \in 1 .. height - 1 : p \in DOMAIN mined /\ Found(p)
      BY <3>1, <3>2, <1>4 DEF PassProgress
    <3>5. tip' \in cursor' .. Len(mined') /\ height' \in cursor' + 1 .. tip' + 1
      BY <3>1, <3>2, <1>4, <1>5
    <3> QED
      BY <3>1, <3>3, <3>4, <3>5, <1>10, <1>11
  <2> QED
    BY <2>1, <2>2 DEF PassProgress
<1>15. Discovered'
  <2>1. cursor' = cursor
    BY <1>12
  <2>2. \A p \in 1 .. cursor : p \in DOMAIN mined /\ Found(p)
    BY <1>4 DEF Discovered, TypeOK
  <2> QED
    BY <1>10, <2>1, <2>2 DEF Discovered
<1> QED
  BY <1>7, <1>8, <1>9, <1>14, <1>15

(***************************************************************************)
(* A fresh engine reaches every payment of the chain, for its gap covers   *)
(* every address in use.                                                   *)
(***************************************************************************)
LEMMA BuildEngineIndInv ==
    ASSUME IndInv, BuildEngine
    PROVE  IndInv'
<1> USE DEF IndInv
<1>1. versions \in Seq(Version) /\ Len(versions) \in Nat
      /\ DOMAIN versions = 1 .. Len(versions)
  BY DEF TypeOK
<1>2. \A v \in DOMAIN versions : RegistrationOf(v) \in Registration
  BY VersionsShape, VersionsAssumption DEF RegistrationOf, Registration
<1>3. /\ engine' \in Seq(Registration)
      /\ Len(engine') = Len(versions)
      /\ DOMAIN engine' = DOMAIN versions
      /\ \A v \in DOMAIN versions : engine'[v] = RegistrationOf(v)
  BY <1>1, <1>2 DEF BuildEngine
<1>4. TypeOK'
  BY <1>3 DEF TypeOK, BuildEngine, wallet
<1>5. EngineOfVersions'
  BY <1>1, <1>3 DEF EngineOfVersions, BuildEngine, RegistrationOf, wallet
<1>6. Payments'
  BY DEF Payments, PaidTo, BuildEngine, wallet
<1>7. \A p \in DOMAIN mined : Reached(p)'
  <2> SUFFICES ASSUME NEW p \in DOMAIN mined PROVE Reached(p)'
    OBVIOUS
  <2>1. mined[p].version \in DOMAIN versions /\ mined[p].spk[3] < in_use[mined[p].version]
    BY DEF Payments, PaidTo
  <2>2. mined[p].spk[3] \in Nat /\ in_use[mined[p].version] \in Nat
    BY <2>1, VersionsShape, PaymentsShape
  <2>3. mined[p].spk[3] < engine'[mined[p].version].gap
    BY <1>3, <2>1, <2>2, VersionsAssumption DEF RegistrationOf
  <2> QED
    BY <1>3, <2>1, <2>3 DEF Reached, InEngine, BuildEngine
<1>8. PassProgress' /\ Discovered'
  BY <1>7 DEF PassProgress, Discovered, Found, Shadowed, BuildEngine, wallet
<1> QED
  BY <1>4, <1>5, <1>6, <1>8

(***************************************************************************)
(* ReadTip turns the engine's reach into the pass's task.                  *)
(***************************************************************************)
LEMMA ReadTipIndInv ==
    ASSUME IndInv, ReadTip
    PROVE  IndInv'
<1> USE DEF IndInv, ReadTip, wallet
<1>1. mined \in Seq(Payment) /\ Len(mined) \in Nat /\ DOMAIN mined = 1 .. Len(mined)
      /\ cursor \in 0 .. Len(mined)
  BY DEF TypeOK
<1>2. TypeOK'
  BY <1>1 DEF TypeOK
<1>3. EngineOfVersions' /\ Payments' /\ Discovered'
  BY DEF EngineOfVersions, Payments, PaidTo, Discovered, Found, Shadowed
<1>4. \A p \in 1 .. tip' : Reached(p)'
  BY <1>1 DEF PassProgress, Reached, InEngine
<1>5. \A p \in 1 .. height' - 1 : Found(p)'
  BY <1>1 DEF Discovered, Found, Shadowed
<1>6. PassProgress'
  BY <1>1, <1>4, <1>5 DEF PassProgress
<1> QED
  BY <1>2, <1>3, <1>6

(***************************************************************************)
(* A scanned block's payment is found, for the engine reaches it.          *)
(***************************************************************************)
LEMMA ScanBlockIndInv ==
    ASSUME IndInv, ScanBlock
    PROVE  IndInv'
<1> USE DEF IndInv, wallet
<1>1. mined \in Seq(Payment) /\ Len(mined) \in Nat /\ DOMAIN mined = 1 .. Len(mined)
      /\ cursor \in Nat
  BY DEF TypeOK
<1>2. tip \in cursor .. Len(mined) /\ height \in cursor + 1 .. tip + 1 /\ height <= tip
  BY DEF PassProgress, ScanBlock
<1>3. height \in DOMAIN mined /\ height \in 1 .. tip
  BY <1>1, <1>2
<1>4. store \subseteq store' /\ store' \subseteq DOMAIN mined
  BY <1>3 DEF ScanBlock, TypeOK
<1>5. TypeOK'
  BY <1>1, <1>2, <1>4 DEF TypeOK, ScanBlock
<1>6. EngineOfVersions' /\ Payments'
  BY DEF EngineOfVersions, Payments, PaidTo, ScanBlock
<1>7. \A p \in DOMAIN mined : Found(p) => Found(p)'
  BY <1>4, FoundStays DEF ScanBlock
<1>8. ASSUME NEW p \in {height}
      PROVE  Found(p)'
  <2>1. p \in DOMAIN mined /\ Reached(p)
    BY <1>3 DEF PassProgress, ScanBlock
  <2>2. Found(p) \/ CapturedBy(engine, mined[p].spk, mined[p].blinding)
    BY <2>1, ReachedIsFound DEF Reached, Found
  <2>3. CapturedBy(engine, mined[p].spk, mined[p].blinding) => p \in store'
    BY DEF ScanBlock
  <2>4. CASE CapturedBy(engine, mined[p].spk, mined[p].blinding)
    BY <2>3, <2>4 DEF Found
  <2>5. CASE Found(p)
    BY <2>1, <1>7, <2>5
  <2> QED
    BY <2>2, <2>4, <2>5
<1>9. \A p \in DOMAIN mined : Reached(p) => Reached(p)'
  BY DEF Reached, InEngine, ScanBlock
<1>10. PassProgress'
  <2>1. \A p \in 1 .. height : Found(p)'
    <3>1. \A p \in 1 .. height - 1 : p \in DOMAIN mined /\ Found(p)
      BY <1>1, <1>2, <1>3 DEF PassProgress, ScanBlock
    <3>2. \A p \in 1 .. height : p \in 1 .. height - 1 \/ p \in {height}
      BY <1>1, <1>2
    <3> QED
      BY <1>7, <1>8, <3>1, <3>2
  <2> QED
    BY <1>1, <1>2, <1>9, <2>1 DEF PassProgress, ScanBlock
<1>11. Discovered'
  BY <1>1, <1>2, <1>7 DEF Discovered, ScanBlock
<1> QED
  BY <1>5, <1>6, <1>10, <1>11

(***************************************************************************)
(* The cursor moves to a tip below which everything was found.             *)
(***************************************************************************)
LEMMA SetCursorIndInv ==
    ASSUME IndInv, SetCursor
    PROVE  IndInv'
<1> USE DEF IndInv, SetCursor, EndPass, wallet
<1>1. Len(mined) \in Nat /\ cursor \in 0 .. Len(mined) /\ tip \in Nat /\ height \in Nat
  BY DEF TypeOK
<1>2. tip \in cursor .. Len(mined) /\ height = tip + 1
  BY <1>1 DEF PassProgress
<1>3. TypeOK'
  BY <1>1, <1>2 DEF TypeOK
<1>4. EngineOfVersions' /\ Payments' /\ PassProgress'
  BY DEF EngineOfVersions, Payments, PaidTo, PassProgress, TypeOK
<1>5. Discovered'
  BY <1>1, <1>2 DEF Discovered, PassProgress, Found, Shadowed
<1> QED
  BY <1>3, <1>4, <1>5

(***************************************************************************)
(* A failed pass leaves the cursor and what was found up to it.            *)
(***************************************************************************)
LEMMA FailIndInv ==
    ASSUME IndInv, Fail
    PROVE  IndInv'
<1> USE DEF IndInv, Fail, EndPass, wallet
<1>1. Len(mined) \in Nat /\ cursor \in 0 .. Len(mined) /\ failures \in Nat
      /\ MaxFailures \in Nat
  BY VersionsAssumption DEF TypeOK
<1>2. TypeOK'
  BY <1>1 DEF TypeOK
<1>3. EngineOfVersions' /\ Payments' /\ PassProgress'
  BY DEF EngineOfVersions, Payments, PaidTo, PassProgress, TypeOK
<1>4. Discovered'
  BY <1>1 DEF Discovered, Found, Shadowed
<1> QED
  BY <1>2, <1>3, <1>4

(***************************************************************************)
(* The invariant holds in every state.                                     *)
(***************************************************************************)
THEOREM IndInvHolds == Spec => []IndInv
<1>1. Init => IndInv
  BY InitIndInv
<1>2. IndInv /\ [Next]_vars => IndInv'
  <2> SUFFICES ASSUME IndInv, [Next]_vars PROVE IndInv'
    OBVIOUS
  <2>1. CASE \E f \in Candidates : WithFederation(f)
    BY <2>1, WithFederationIndInv
  <2>2. CASE \E v \in DOMAIN versions : Address(v) \/ Pay(v)
    BY <2>2, AddressIndInv, PayIndInv
  <2>3. CASE PassStep
    BY <2>3, BuildEngineIndInv, ReadTipIndInv, ScanBlockIndInv, SetCursorIndInv DEF PassStep
  <2>4. CASE Fail
    BY <2>4, FailIndInv
  <2>5. CASE UNCHANGED vars
    BY <2>5 DEF vars, wallet, pass, IndInv, TypeOK, EngineOfVersions, Payments, PaidTo,
                PassProgress, Reached, InEngine, Discovered, Found, Shadowed
  <2> QED
    BY <2>1, <2>2, <2>3, <2>4, <2>5 DEF Next
<1> QED
  BY <1>1, <1>2, PTL DEF Spec

(***************************************************************************)
(* Versions are numbered in order and those added are on the wallet's      *)
(* network, with the types of everything else.                             *)
(***************************************************************************)
THEOREM TypeCorrect == Spec => []TypeOK
<1>1. IndInv => TypeOK
  BY DEF IndInv
<1> QED
  BY <1>1, IndInvHolds, PTL

(***************************************************************************)
(* A payment to any version is in the store once its block was scanned,    *)
(* unless it raced the making of the engine or a later version shadows it. *)
(***************************************************************************)
THEOREM NothingOverlooked == Spec => []Discovered
<1>1. IndInv => Discovered
  BY DEF IndInv
<1> QED
  BY <1>1, IndInvHolds, PTL
=============================================================================
