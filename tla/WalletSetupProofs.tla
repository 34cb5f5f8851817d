------------------------- MODULE WalletSetupProofs -------------------------
(***************************************************************************)
(* Theorems about WalletSetup.                                             *)
(***************************************************************************)
EXTENDS WalletSetup, TLAPS

(***************************************************************************)
(* A signer appended to a list of calls is one more signer given.          *)
(***************************************************************************)
LEMMA ElementsOfAppend ==
    ASSUME NEW c \in Seq(Signer), NEW s \in Signer
    PROVE  /\ Append(c, s) \in Seq(Signer)
           /\ ElementsOf(Append(c, s)) = ElementsOf(c) \cup {s}
<1>1. Append(c, s) \in Seq(Signer)
  OBVIOUS
<1>2. ElementsOf(Append(c, s)) \subseteq ElementsOf(c) \cup {s}
  BY DEF ElementsOf
<1>3. ASSUME NEW x \in ElementsOf(c)
      PROVE  x \in ElementsOf(Append(c, s))
  BY DEF ElementsOf
<1>4. s \in ElementsOf(Append(c, s))
  <2>1. Append(c, s)[Len(c) + 1] = s /\ Len(c) + 1 \in DOMAIN Append(c, s)
    OBVIOUS
  <2> QED
    BY <2>1 DEF ElementsOf
<1> QED
  BY <1>1, <1>2, <1>3, <1>4

(***************************************************************************)
(* A map that has exactly the given signers under their ids, when all the  *)
(* members are among them, is the map of the members.                      *)
(***************************************************************************)
LEMMA MapOfMembers ==
    ASSUME NEW map, NEW given \in SUBSET Signer,
           map = [id \in DOMAIN map |-> map[id]],
           DOMAIN map = {IdOf[s] : s \in given},
           \A s \in given : map[IdOf[s]] = s,
           Members \subseteq given
    PROVE  map = MemberMap
<1>1. given = Members
  <2>1. ASSUME NEW s \in given
        PROVE  s \in Members
    <3>1. PICK t \in Members : IdOf[s] = IdOf[t]
      BY SetupAssumption DEF SetupAssumption
    <3> QED
      BY <3>1
  <2> QED
    BY <2>1
<1>2. ASSUME NEW id \in DOMAIN map
      PROVE  map[id] = CHOOSE s \in Members : IdOf[s] = id
  <2>1. PICK t \in Members : id = IdOf[t]
    BY <1>1
  <2>2. \A s \in Members : IdOf[s] = id => s = t
    BY <2>1, SetupAssumption DEF SetupAssumption
  <2>3. (CHOOSE s \in Members : IdOf[s] = id) = t
    BY <2>1, <2>2
  <2> QED
    BY <2>1, <2>3, <1>1
<1> QED
  BY <1>1, <1>2 DEF MemberMap

-----------------------------------------------------------------------------
(***************************************************************************)
(* Nobody has built or imported anything at first.                         *)
(***************************************************************************)
LEMMA InitInv == Init => IndInv
<1> SUFFICES ASSUME Init PROVE IndInv
  OBVIOUS
<1> USE DEF Init
<1>1. \A p \in Process : Given(p) = {} /\ entries[p] = EmptyMap /\ DOMAIN entries[p] = {}
  BY DEF Given, ElementsOf, EmptyMap
<1>2. TypeOK
  <2>1. << >> \in Seq(Signer)
    OBVIOUS
  <2>2. pc \in [Process -> Steps] /\ calls \in [Process -> Seq(Signer)]
    BY <2>1 DEF Steps
  <2>3. mistakes \in 0 .. MaxMistakes /\ faults \in 0 .. MaxFaults
    BY SetupAssumption DEF SetupAssumption
  <2>4. \A p \in Process :
           /\ DOMAIN entries[p] = {IdOf[s] : s \in Given(p)}
           /\ \A id \in DOMAIN entries[p] : entries[p][id] \in Given(p)
    BY <1>1
  <2> QED
    BY <2>2, <2>3, <2>4 DEF TypeOK
<1>3. Maps
  <2>1. EmptyMap = [id \in DOMAIN EmptyMap |-> EmptyMap[id]]
    BY DEF EmptyMap
  <2> QED
    BY <1>1, <2>1 DEF Maps
<1>4. Built /\ Sources /\ Races
  BY DEF Built, Sources, Races
<1> QED
  BY <1>2, <1>3, <1>4 DEF IndInv

(***************************************************************************)
(* A builder that is given a signer: the map of every process keeps what   *)
(* TypeOK and Maps say of it, for the process itself because its new map   *)
(* is an insertion or empty.                                               *)
(***************************************************************************)
LEMMA InsertStep ==
    ASSUME IndInv, NEW p \in Process, NEW s \in Signer,
           Meets(p, s),
           entries' = [entries EXCEPT ![p] = Inserted(@, s)],
           calls' = [calls EXCEPT ![p] = Append(@, s)],
           UNCHANGED <<pc, descriptor, daemon, disturbed, faults>>,
           \/ careless' = careless /\ IdOf[s] \notin DOMAIN entries[p]
           \/ careless' = careless \cup {p}
    PROVE  TypeOK' /\ Maps'
<1> USE DEF IndInv
<1>1. calls[p] \in Seq(Signer)
  BY DEF TypeOK
<1>2. /\ calls'[p] \in Seq(Signer)
      /\ Given(p)' = Given(p) \cup {s}
  <2>1. calls'[p] = Append(calls[p], s)
    BY DEF TypeOK
  <2> QED
    BY <1>1, <2>1, ElementsOfAppend DEF Given
<1>3. \A q \in Process \ {p} :
         calls'[q] = calls[q] /\ Given(q)' = Given(q) /\ entries'[q] = entries[q]
  BY DEF TypeOK, Given
<1>4. /\ entries'[p] = Inserted(entries[p], s)
      /\ DOMAIN entries' = Process
  BY DEF TypeOK
<1>5. /\ DOMAIN entries'[p] = DOMAIN entries[p] \cup {IdOf[s]}
      /\ entries'[p][IdOf[s]] = s
      /\ \A id \in DOMAIN entries[p] \ {IdOf[s]} : entries'[p][id] = entries[p][id]
      /\ entries'[p] = [id \in DOMAIN entries'[p] |-> entries'[p][id]]
  <2>1. ASSUME NEW m, m = entries'[p], m = Inserted(entries[p], s)
        PROVE  /\ DOMAIN m = DOMAIN entries[p] \cup {IdOf[s]}
               /\ m[IdOf[s]] = s
               /\ \A id \in DOMAIN entries[p] \ {IdOf[s]} : m[id] = entries[p][id]
               /\ m = [id \in DOMAIN m |-> m[id]]
    <3>1. DOMAIN m = DOMAIN entries[p] \cup {IdOf[s]}
      BY <2>1 DEF Inserted
    <3>2. m[IdOf[s]] = s
      BY <2>1 DEF Inserted
    <3>3. \A id \in DOMAIN entries[p] \ {IdOf[s]} : m[id] = entries[p][id]
      BY <2>1 DEF Inserted
    <3>4. m = [id \in DOMAIN m |-> m[id]]
      BY <2>1 DEF Inserted
    <3> QED
      BY <3>1, <3>2, <3>3, <3>4
  <2> QED
    BY <1>4, <2>1, Zenon
<1>6. mistakes' \in 0 .. MaxMistakes
  BY SetupAssumption DEF Meets, TypeOK, SetupAssumption
<1>7. TypeOK'
  <2>1. calls' \in [Process -> Seq(Signer)]
    BY <1>2, <1>3 DEF TypeOK
  <2>2. ASSUME NEW q \in Process
        PROVE  /\ DOMAIN entries'[q] = {IdOf[t] : t \in Given(q)'}
               /\ \A id \in DOMAIN entries'[q] : entries'[q][id] \in Given(q)'
    <3>1. CASE q = p
      <4>1. DOMAIN entries'[p] = {IdOf[t] : t \in Given(p)'}
        BY <1>2, <1>5 DEF TypeOK
      <4>2. ASSUME NEW id \in DOMAIN entries'[p]
            PROVE  entries'[p][id] \in Given(p)'
        <5>1. CASE id = IdOf[s]
          BY <5>1, <1>2, <1>5
        <5>2. CASE id # IdOf[s]
          BY <5>2, <1>2, <1>5 DEF TypeOK
        <5> QED
          BY <5>1, <5>2
      <4> QED
        BY <3>1, <4>1, <4>2
    <3>2. CASE q # p
      BY <3>2, <1>3 DEF TypeOK
    <3> QED
      BY <3>1, <3>2
  <2>3. careless' \subseteq Process
    BY DEF TypeOK
  <2> QED
    BY <1>4, <1>6, <2>1, <2>2, <2>3 DEF TypeOK, daemon
<1>8. ASSUME NEW q \in Process
      PROVE  /\ entries'[q] = [id \in DOMAIN entries'[q] |-> entries'[q][id]]
             /\ q \notin careless' => \A t \in Given(q)' : entries'[q][IdOf[t]] = t
  <2>1. CASE q = p
    <3>1. ASSUME p \notin careless', NEW t \in Given(p)'
          PROVE  entries'[p][IdOf[t]] = t
      <4>1. IdOf[s] \notin DOMAIN entries[p] /\ p \notin careless
        BY <3>1
      <4>2. CASE t = s
        BY <4>2, <1>5
      <4>3. CASE t \in Given(p)
        <5>1. IdOf[t] \in DOMAIN entries[p]
          BY <4>3 DEF TypeOK
        <5>2. entries[p][IdOf[t]] = t
          BY <4>1, <4>3 DEF Maps
        <5> QED
          BY <4>1, <5>1, <5>2, <1>5
      <4> QED
        BY <3>1, <4>2, <4>3, <1>2
    <3> QED
      BY <2>1, <3>1, <1>5
  <2>2. CASE q # p
    BY <2>2, <1>3 DEF Maps
  <2> QED
    BY <2>1, <2>2
<1> QED
  BY <1>7, <1>8 DEF Maps

(***************************************************************************)
(* The same for a caller that drops its builder.                           *)
(***************************************************************************)
LEMMA StartOverStep ==
    ASSUME IndInv, NEW p \in Process, NEW s \in Signer,
           Meets(p, s),
           entries' = [entries EXCEPT ![p] = EmptyMap],
           calls' = [calls EXCEPT ![p] = << >>],
           UNCHANGED <<pc, descriptor, daemon, disturbed, faults>>,
           careless' = careless \ {p}
    PROVE  TypeOK' /\ Maps'
<1> USE DEF IndInv
<1>1. /\ calls'[p] = << >> /\ entries'[p] = EmptyMap
      /\ DOMAIN entries' = Process
  BY DEF TypeOK
<1>2. Given(p)' = {} /\ DOMAIN entries'[p] = {}
  BY <1>1 DEF Given, ElementsOf, EmptyMap
<1>3. \A q \in Process \ {p} :
         calls'[q] = calls[q] /\ Given(q)' = Given(q) /\ entries'[q] = entries[q]
  BY DEF TypeOK, Given
<1>4. mistakes' \in 0 .. MaxMistakes
  BY SetupAssumption DEF Meets, TypeOK, SetupAssumption
<1>5. calls' \in [Process -> Seq(Signer)]
  BY <1>1, <1>3 DEF TypeOK
<1>6. ASSUME NEW q \in Process
      PROVE  /\ DOMAIN entries'[q] = {IdOf[t] : t \in Given(q)'}
             /\ \A id \in DOMAIN entries'[q] : entries'[q][id] \in Given(q)'
  BY <1>2, <1>3 DEF TypeOK
<1>7. TypeOK'
  BY <1>1, <1>4, <1>5, <1>6 DEF TypeOK, daemon
<1>8. EmptyMap = [id \in DOMAIN EmptyMap |-> EmptyMap[id]]
  BY DEF EmptyMap
<1>9. Maps'
  BY <1>1, <1>2, <1>3, <1>8 DEF Maps
<1> QED
  BY <1>7, <1>9

(***************************************************************************)
(* While p collects, its descriptor and the daemon stay as they are.       *)
(***************************************************************************)
LEMMA CollectStep ==
    ASSUME IndInv, NEW p \in Process, NEW s \in Signer,
           AddSigner(p, s) \/ AddDuplicate(p, s)
    PROVE  IndInv'
<1>1. TypeOK' /\ Maps'
  BY InsertStep, StartOverStep DEF AddSigner, AddDuplicate
<1>2. /\ pc[p] = "collect"
      /\ UNCHANGED <<pc, descriptor, imported, exists, loaded, disturbed>>
      /\ careless \ {p} \subseteq careless'
  BY DEF AddSigner, AddDuplicate, Meets, daemon
<1>3. Built' /\ Sources' /\ Races'
  BY <1>2 DEF IndInv, Built, Sources, Races
<1> QED
  BY <1>1, <1>3 DEF IndInv

(***************************************************************************)
(* build: whoever never went on after DuplicateKey has the members' map.   *)
(***************************************************************************)
LEMMA BuildStep ==
    ASSUME IndInv, NEW p \in Process, Build(p)
    PROVE  IndInv'
<1> USE DEF IndInv, Build, Goto
<1>1. /\ pc' = [pc EXCEPT ![p] = "list"]
      /\ descriptor' = [descriptor EXCEPT ![p] = KeysOf(p)]
      /\ disturbed' = disturbed \ {p}
      /\ UNCHANGED <<calls, entries, careless, mistakes, exists, loaded, imported, faults>>
  BY DEF daemon
<1>2. TypeOK'
  <2>1. pc' \in [Process -> Steps]
    BY <1>1 DEF TypeOK, Steps
  <2> QED
    BY <1>1, <2>1 DEF TypeOK, Given
<1>3. Maps'
  BY <1>1 DEF Maps, Given
<1>4. Built'
  <2>1. ASSUME p \notin careless
        PROVE  KeysOf(p) = KeysIn(MemberMap)
    <3>1. Given(p) \in SUBSET Signer
      <4>1. calls[p] \in Seq(Signer)
        BY DEF TypeOK
      <4> QED
        BY <4>1 DEF Given, ElementsOf
    <3>2. /\ entries[p] = [id \in DOMAIN entries[p] |-> entries[p][id]]
          /\ DOMAIN entries[p] = {IdOf[s] : s \in Given(p)}
          /\ \A s \in Given(p) : entries[p][IdOf[s]] = s
      BY <2>1 DEF Maps, TypeOK
    <3>3. entries[p] = MemberMap
      BY <3>1, <3>2, MapOfMembers
    <3> QED
      BY <3>3 DEF KeysOf
  <2>2. ASSUME NEW q \in Process, pc'[q] # "collect", q \notin careless'
        PROVE  descriptor'[q] = KeysIn(MemberMap)
    <3>1. CASE q = p
      BY <2>1, <2>2, <3>1, <1>1 DEF TypeOK
    <3>2. CASE q # p
      BY <2>2, <3>2, <1>1 DEF TypeOK, Built
    <3> QED
      BY <3>1, <3>2
  <2> QED
    BY <2>2 DEF Built
<1>5. Sources'
  <2>1. ASSUME NEW d \in imported
        PROVE  \E q \in Process : pc'[q] # "collect" /\ d = descriptor'[q]
    <3>1. PICK q \in Process : pc[q] # "collect" /\ d = descriptor[q]
      BY DEF Sources
    <3> QED
      BY <3>1, <1>1 DEF TypeOK
  <2> QED
    BY <1>1, <2>1 DEF Sources
<1>6. Races'
  BY <1>1 DEF Races, TypeOK
<1> QED
  BY <1>2, <1>3, <1>4, <1>5, <1>6

(***************************************************************************)
(* The steps of a call, and what faults do to it: builders and descriptors *)
(* stay, and only descriptors of processes past build are imported.        *)
(***************************************************************************)
LEMMA CallKeepsBuilders ==
    ASSUME IndInv, NEW p \in Process, NEW step \in Steps \ {"collect"},
           pc[p] # "collect", Goto(p, step), UNCHANGED building,
           imported' \subseteq imported \cup {descriptor[p]},
           exists' \in BOOLEAN, loaded' \in BOOLEAN,
           disturbed' \subseteq Process,
           faults' \in 0 .. MaxFaults
    PROVE  TypeOK' /\ Maps' /\ Built' /\ Sources'
<1> USE DEF IndInv, building, Goto
<1>1. pc' \in [Process -> Steps]
  BY DEF TypeOK
<1>2. TypeOK'
  BY <1>1 DEF TypeOK, Given
<1>3. Maps'
  BY DEF Maps, Given
<1>4. \A q \in Process : pc[q] # "collect" <=> pc'[q] # "collect"
  BY DEF TypeOK
<1>5. Built' /\ Sources'
  BY <1>4 DEF Built, Sources
<1> QED
  BY <1>2, <1>3, <1>5

(***************************************************************************)
(* ensure_wallet_loaded and import_descriptors, call by call.              *)
(***************************************************************************)
LEMMA CallStep ==
    ASSUME IndInv, NEW p \in Process,
           \/ ListWallets(p) \/ ListWalletDir(p) \/ Answered(p)
           \/ Retry(p) \/ CallFails(p) \/ DirUnreadable(p) \/ AnswerLost(p)
    PROVE  IndInv'
<1> USE DEF IndInv
<1>1. PICK step \in Steps \ {"collect"} : Goto(p, step)
  BY DEF ListWallets, ListWalletDir, Answered, Effect, LoadWallet, CreateWallet,
         ImportDescriptors, Retry, CallFails, DirUnreadable, AnswerLost, Steps
<1>2. /\ pc[p] # "collect" /\ UNCHANGED building
      /\ imported' \subseteq imported \cup {descriptor[p]}
      /\ exists' \in BOOLEAN /\ loaded' \in BOOLEAN
      /\ disturbed' \subseteq Process
  BY DEF ListWallets, ListWalletDir, Answered, Effect, LoadWallet, CreateWallet,
         ImportDescriptors, Retry, CallFails, DirUnreadable, AnswerLost, Ensuring,
         daemon, TypeOK
<1>3. faults' \in 0 .. MaxFaults
  <2>1. faults' = faults \/ (faults < MaxFaults /\ faults' = faults + 1)
    BY DEF ListWallets, ListWalletDir, Answered, Retry, CallFails, DirUnreadable,
           AnswerLost, Fault
  <2> QED
    BY <2>1, SetupAssumption DEF TypeOK, SetupAssumption
<1>4. TypeOK' /\ Maps' /\ Built' /\ Sources'
  BY <1>1, <1>2, <1>3, CallKeepsBuilders
<1>5. Races'
  <2> USE DEF Races, TypeOK, Goto, daemon
  <2>1. CASE ListWallets(p) \/ ListWalletDir(p)
    BY <2>1 DEF ListWallets, ListWalletDir
  <2>2. CASE Retry(p) \/ CallFails(p) \/ DirUnreadable(p)
    BY <2>2 DEF Retry, CallFails, DirUnreadable
  <2>3. ASSUME NEW answered \in BOOLEAN, LoadWallet(p, answered),
               disturbed' = disturbed \/ disturbed' = disturbed \cup {p}
        PROVE  Races'
    BY <2>3 DEF LoadWallet
  <2>4. ASSUME NEW answered \in BOOLEAN, CreateWallet(p, answered),
               disturbed' = disturbed \/ disturbed' = disturbed \cup {p}
        PROVE  Races'
    BY <2>4 DEF CreateWallet
  <2>5. ASSUME NEW answered \in BOOLEAN, ImportDescriptors(p, answered),
               disturbed' = disturbed \/ disturbed' = disturbed \cup {p}
        PROVE  Races'
    BY <2>5 DEF ImportDescriptors
  <2>6. CASE Answered(p) \/ AnswerLost(p)
    BY <2>6, <2>3, <2>4, <2>5 DEF Answered, AnswerLost, Effect
  <2> QED
    BY <2>1, <2>2, <2>6
<1> QED
  BY <1>4, <1>5

(***************************************************************************)
(* A restart of the daemon disturbs every call there is.                   *)
(***************************************************************************)
LEMMA RestartStep == IndInv /\ DaemonRestarts => IndInv'
<1> SUFFICES ASSUME IndInv, DaemonRestarts PROVE IndInv'
  OBVIOUS
<1> USE DEF IndInv, DaemonRestarts, building
<1>1. faults' \in 0 .. MaxFaults
  BY SetupAssumption DEF Fault, TypeOK, SetupAssumption
<1>2. TypeOK'
  BY <1>1 DEF TypeOK, Given
<1>3. Maps' /\ Built' /\ Sources' /\ Races'
  BY DEF Maps, Built, Sources, Races, Given
<1> QED
  BY <1>2, <1>3

(***************************************************************************)
(* Every step preserves the invariant.                                     *)
(***************************************************************************)
LEMMA NextInv == IndInv /\ [Next]_vars => IndInv'
<1> SUFFICES ASSUME IndInv, [Next]_vars PROVE IndInv'
  OBVIOUS
<1>1. CASE UNCHANGED vars
  BY <1>1 DEF vars, building, daemon, IndInv, TypeOK, Maps, Built, Sources, Races, Given
<1>2. ASSUME NEW p \in Process, NEW s \in Signer, AddSigner(p, s) \/ AddDuplicate(p, s)
      PROVE  IndInv'
  BY <1>2, CollectStep
<1>3. ASSUME NEW p \in Process,
             ProcessStep(p) \/ CallFails(p) \/ DirUnreadable(p) \/ AnswerLost(p)
      PROVE  IndInv'
  <2>1. CASE \E s \in Members \ Given(p) : AddSigner(p, s) \/ AddDuplicate(p, s)
    BY <2>1, <1>2, SetupAssumption DEF SetupAssumption
  <2>2. CASE Build(p)
    BY <2>2, BuildStep
  <2>3. CASE \/ ListWallets(p) \/ ListWalletDir(p) \/ Answered(p)
             \/ Retry(p) \/ CallFails(p) \/ DirUnreadable(p) \/ AnswerLost(p)
    BY <2>3, CallStep
  <2> QED
    BY <1>3, <2>1, <2>2, <2>3 DEF ProcessStep
<1>4. CASE DaemonRestarts
  BY <1>4, RestartStep
<1> QED
  BY <1>1, <1>2, <1>3, <1>4 DEF Next

(***************************************************************************)
(* The inductive invariant holds in every reachable state.                 *)
(***************************************************************************)
THEOREM SetupInvariant == Spec => []IndInv
<1> QED
  BY InitInv, NextInv, PTL DEF Spec

(***************************************************************************)
(* For any federation and any processes: whoever imports a descriptor      *)
(* imports the same one, if nobody went on after DuplicateKey.             *)
(***************************************************************************)
THEOREM OneDescriptorImported == Spec => []OneDescriptor
<1>1. IndInv => OneDescriptor
  BY DEF IndInv, OneDescriptor, Built, Sources
<1> QED
  BY <1>1, SetupInvariant, PTL

(***************************************************************************)
(* For any number of processes racing in ensure_wallet_loaded: an Ok means *)
(* that the wallet is loaded.                                              *)
(***************************************************************************)
THEOREM OkIsLoaded == Spec => []OkMeansLoaded
<1>1. IndInv => OkMeansLoaded
  BY DEF IndInv, OkMeansLoaded, Races
<1> QED
  BY <1>1, SetupInvariant, PTL

(***************************************************************************)
(* And so does an error that no fault explains.                            *)
(***************************************************************************)
THEOREM LosersAreServed == Spec => []LoserFindsItLoaded
<1>1. IndInv => LoserFindsItLoaded
  BY DEF IndInv, LoserFindsItLoaded, Races
<1> QED
  BY <1>1, SetupInvariant, PTL

(***************************************************************************)
(* Types, and that a builder's map has the ids of the signers given.       *)
(***************************************************************************)
THEOREM TypeCorrect == Spec => []TypeOK
<1>1. IndInv => TypeOK
  BY DEF IndInv
<1> QED
  BY <1>1, SetupInvariant, PTL
=============================================================================
