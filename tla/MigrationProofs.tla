-------------------------- MODULE MigrationProofs --------------------------
(***************************************************************************)
(* Theorems about scripts, captures and owners in Migration; those about   *)
(* values are in MigrationBooks.                                           *)
(***************************************************************************)
EXTENDS Migration, TLAPS

(***************************************************************************)
(* A script is its four parts.                                             *)
(***************************************************************************)
LEMMA ScriptParts ==
    ASSUME NEW s \in Script
    PROVE  /\ s = <<s[1], s[2], s[3], s[4]>>
           /\ s[1] \in Account /\ s[2] \in Version /\ s[3] \in Keychain /\ s[4] \in Nat
BY DEF Script

(***************************************************************************)
(* An address of a wollet is a script.                                     *)
(***************************************************************************)
LEMMA AddressIsScript ==
    ASSUME NEW a \in Account, NEW v \in Version, NEW k \in Keychain, NEW i \in Nat
    PROVE  AddressOf(<<a, v>>, k, i) \in Script
BY DEF AddressOf, Script

(***************************************************************************)
(* What the builders pay goes to the recipients' scripts and to the one    *)
(* that gets the rest.                                                     *)
(***************************************************************************)
LEMMA OutputScripts ==
    ASSUME NEW id, NEW inputs, NEW recipients, NEW rest_to \in Script, NEW fee,
           \A r \in recipients : r.script \in Script
    PROVE  \A c \in Outputs(id, inputs, recipients, rest_to, fee) : c.script \in Script
BY DEF Outputs, Paid, Recipient

(***************************************************************************)
(* A scanned coin paired with the wollet of its version is described by    *)
(* its capture.                                                            *)
(***************************************************************************)
LEMMA ScanDescribes ==
    ASSUME NEW u, u = CapturedByScan(u.coin), u.coin.script \in Script
    PROVE  Definite(PairedWith(u, VersionOf(u.coin.script))) = u.coin.script
<1>1. u.chain = u.coin.script[3] /\ u.index = u.coin.script[4]
  BY DEF CapturedByScan
<1> QED
  BY <1>1, ScriptParts DEF Definite, PairedWith, DefiniteAt, VersionOf, AccountOf

(***************************************************************************)
(* Coins that a set of transactions leaves have scripts, and the view has  *)
(* captures of the scan.                                                   *)
(***************************************************************************)
LEMMA ViewOfScripts ==
    ASSUME NEW txs, \A tx \in txs : \A c \in tx.outs : c.script \in Script
    PROVE  \A u \in View(txs) : u = CapturedByScan(u.coin) /\ u.coin.script \in Script
<1>1. \A c \in Funding : c.script \in Script
  BY MigrationAssumption DEF MigrationAssumption, Coin
<1>2. \A c \in Unspent(txs) : c.script \in Script
  BY <1>1 DEF Unspent
<1>3. ASSUME NEW u \in View(txs)
      PROVE  u = CapturedByScan(u.coin) /\ u.coin.script \in Script
  <2>1. PICK c \in Unspent(txs) : u = CapturedByScan(c)
    BY DEF View
  <2>2. u.coin = c
    BY <2>1 DEF CapturedByScan
  <2> QED
    BY <2>1, <2>2, <1>2
<1> QED
  BY <1>3

-----------------------------------------------------------------------------
(***************************************************************************)
(* The store is a view of nothing mined at first.                          *)
(***************************************************************************)
LEMMA InitInv == Init => IndInv
<1> SUFFICES ASSUME Init PROVE IndInv
  OBVIOUS
<1> USE DEF Init
<1>1. StoreOfScan
  BY ViewOfScripts DEF StoreOfScan
<1>2. OrderIsNoHop /\ PaysToScripts /\ HandPaired /\ HandDescribed /\ NewCoinsStay /\ RefusedOnlyMisuse
  BY DEF OrderIsNoHop, PaysToScripts, HandPaired, HandDescribed, NewCoinsStay, RefusedOnlyMisuse
<1> QED
  BY <1>1, <1>2 DEF IndInv

(***************************************************************************)
(* ListUnspent pairs every coin rightly, and takes old coins of customers. *)
(***************************************************************************)
LEMMA ListStep == IndInv /\ ListUnspent => IndInv'
<1> SUFFICES ASSUME IndInv, ListUnspent PROVE IndInv'
  OBVIOUS
<1> USE DEF IndInv
<1>1. ASSUME NEW i \in hand'
      PROVE  /\ i.utxo.coin.script \in Script
             /\ AccountOf(i.utxo.coin.script) \in Customer => i.owner[2] = "old"
             /\ Definite(i) = i.utxo.coin.script
  <2>1. PICK u \in store : ToMove(u) /\ i = PairedWith(u, VersionOf(u.coin.script))
    BY DEF ListUnspent
  <2>2. u = CapturedByScan(u.coin) /\ u.coin.script \in Script
    BY DEF StoreOfScan
  <2>3. i.utxo = u /\ i.owner[2] = VersionOf(u.coin.script)
    BY <2>1 DEF PairedWith
  <2>4. Definite(i) = u.coin.script
    BY <2>1, <2>2, ScanDescribes
  <2>5. AccountOf(u.coin.script) \in Customer => VersionOf(u.coin.script) = "old"
    BY <2>1, MigrationAssumption DEF ToMove, OldCustomerCoin, MigrationAssumption
  <2> QED
    BY <2>2, <2>3, <2>4, <2>5
<1>2. HandPaired' /\ HandDescribed'
  BY <1>1 DEF HandPaired, HandDescribed, Definite, DefiniteAt
<1>3. /\ mined' \subseteq node' /\ OrderIsNoHop' /\ PaysToScripts' /\ StoreOfScan'
      /\ NewCoinsStay' /\ RefusedOnlyMisuse'
  BY DEF ListUnspent, OrderIsNoHop, PaysToScripts, StoreOfScan, NewCoinsStay, RefusedOnlyMisuse
<1> QED
  BY <1>2, <1>3

(***************************************************************************)
(* Taking every coin for an old one pairs customers' coins with old        *)
(* wollets, and is misuse.                                                 *)
(***************************************************************************)
LEMMA ListAllStep == IndInv /\ ListAllAsOld => IndInv'
<1> SUFFICES ASSUME IndInv, ListAllAsOld PROVE IndInv'
  OBVIOUS
<1> USE DEF IndInv, ListAllAsOld
<1>1. ASSUME NEW i \in hand'
      PROVE  i.utxo.coin.script \in Script /\ i.owner[2] = "old"
  <2>1. PICK u \in store : i = PairedWith(u, "old")
    OBVIOUS
  <2> QED
    BY <2>1 DEF PairedWith, StoreOfScan
<1>2. HandPaired' /\ HandDescribed'
  BY <1>1 DEF HandPaired, HandDescribed
<1>3. /\ mined' \subseteq node' /\ OrderIsNoHop' /\ PaysToScripts' /\ StoreOfScan'
      /\ NewCoinsStay' /\ RefusedOnlyMisuse'
  BY DEF OrderIsNoHop, PaysToScripts, StoreOfScan, NewCoinsStay, RefusedOnlyMisuse
<1> QED
  BY <1>2, <1>3

(***************************************************************************)
(* A hop.  Enrichment has compared the script of each input with the one   *)
(* of its owner, which is old for a customer; a refusal needs an input     *)
(* that is not described.                                                  *)
(***************************************************************************)
LEMMA BuildStep ==
    ASSUME IndInv, NEW batch \in SUBSET Customer, NEW fee, Build(batch, fee)
    PROVE  IndInv'
<1> USE DEF IndInv
<1> DEFINE inputs == Handed(batch \cup {FeeAccount})
           recipients == RecipientsOf(batch)
<1>1. inputs \subseteq hand
  BY DEF Handed
<1>2. /\ mined' \subseteq node' /\ StoreOfScan' /\ OrderIsNoHop'
      /\ UNCHANGED <<node, order, misused>>
  BY DEF Build, StoreOfScan, OrderIsNoHop
<1>3. CASE /\ Enriched(inputs)
           /\ pset' = MigrationTx(NewId, FeeAccount, inputs, recipients, FeeDest(batch), fee)
           /\ UNCHANGED <<hand, refused>>
  <2>1. FeeDest(batch) \in Script
    BY AddressIsScript, MigrationAssumption
       DEF FeeDest, ChangeDest, MigrationAssumption, Version, Keychain
  <2>2. \A r \in recipients : r.script \in Script
    <3>1. \A c \in batch : AddressOf(<<c, "new">>, "external", 1) \in Script
      BY AddressIsScript, MigrationAssumption DEF MigrationAssumption, Version, Keychain
    <3>2. ASSUME NEW r \in recipients PROVE r.script \in Script
      <4>1. PICK c \in batch :
               r = Recipient(AddressOf(<<c, "new">>, "external", 1), SumOf(CoinsOf(Handed({c}))))
        BY DEF RecipientsOf
      <4>2. r.script = AddressOf(<<c, "new">>, "external", 1)
        BY <4>1 DEF Recipient
      <4> QED
        BY <3>1, <4>2
    <3> QED
      BY <3>2
  <2>3. pset'.outs = Outputs(NewId, inputs, recipients, FeeDest(batch), fee)
        /\ pset'.ins = CoinsOf(inputs)
    BY <1>3 DEF MigrationTx
  <2>4. \A c \in pset'.outs : c.script \in Script
    BY <2>1, <2>2, <2>3, OutputScripts
  <2>5. ASSUME NEW c \in pset'.ins, AccountOf(c.script) \in Customer
        PROVE  VersionOf(c.script) = "old"
    <3>1. PICK i \in inputs : c = i.utxo.coin
      BY <2>3 DEF CoinsOf
    <3>2. i.owner[2] = "old"
      BY <3>1, <1>1, <2>5 DEF HandPaired
    <3>3. c.script = <<i.owner[1], i.owner[2], i.utxo.chain, i.utxo.index>>
      BY <3>1, <1>3 DEF Enriched, Definite, DefiniteAt
    <3> QED
      BY <3>2, <3>3 DEF VersionOf
  <2>6. PaysToScripts'
    BY <2>4, <1>2 DEF PaysToScripts
  <2>7. NewCoinsStay'
    BY <2>5, <1>2 DEF NewCoinsStay
  <2>8. HandPaired' /\ HandDescribed' /\ RefusedOnlyMisuse'
    BY <1>2, <1>3 DEF HandPaired, HandDescribed, RefusedOnlyMisuse
  <2> QED
    BY <1>2, <2>6, <2>7, <2>8
<1>4. CASE /\ hand' = {} /\ pset' = pset
           /\ refused' => refused \/ ~Enriched(inputs)
  <2>1. refused' => misused
    BY <1>4, <1>1 DEF RefusedOnlyMisuse, HandDescribed, Enriched
  <2> QED
    BY <1>2, <1>4, <2>1
       DEF PaysToScripts, NewCoinsStay, HandPaired, HandDescribed, RefusedOnlyMisuse
<1> QED
  BY <1>3, <1>4 DEF Build

(***************************************************************************)
(* The change captured for the next hop is the fee account's, at the place *)
(* the capture takes for granted if its index is right.                    *)
(***************************************************************************)
LEMMA ChainStep ==
    ASSUME IndInv, NEW index, Broadcast(index),
           (index = 0 /\ misused' = misused) \/ misused' = TRUE
    PROVE  IndInv'
<1> USE DEF IndInv, Broadcast
<1>1. pset \in node \cup {pset, order} /\ pset # NoTx
  OBVIOUS
<1>2. ChangeDest = <<FeeAccount, "old", "external", 0>>
  BY DEF ChangeDest, AddressOf
<1>3. ASSUME NEW i \in hand', i \notin hand
      PROVE  /\ i.utxo.coin.script \in Script
             /\ AccountOf(i.utxo.coin.script) \notin Customer
             /\ i.owner = <<FeeAccount, "old">>
             /\ i.utxo.chain = "external" /\ i.utxo.index = index
             /\ i.utxo.coin.script = ChangeDest
  <2>1. PICK c \in Change(pset) :
           i = [utxo |-> CapturedFromOutput(c, index), owner |-> <<FeeAccount, "old">>]
    BY <1>3 DEF Chained
  <2>2. c \in pset.outs /\ c.script = ChangeDest
    BY <2>1 DEF Change
  <2>3. c.script \in Script
    BY <1>1, <2>2 DEF PaysToScripts
  <2>4. AccountOf(c.script) = FeeAccount
    BY <1>2, <2>2 DEF AccountOf
  <2> QED
    BY <2>1, <2>2, <2>3, <2>4, MigrationAssumption
       DEF CapturedFromOutput, MigrationAssumption
<1>4. HandPaired'
  BY <1>3 DEF HandPaired
<1>5. HandDescribed'
  <2>1. CASE misused'
    BY <2>1 DEF HandDescribed
  <2>2. CASE index = 0 /\ misused' = misused /\ ~misused
    <3>1. ASSUME NEW i \in hand'
          PROVE  <<i.owner[1], i.owner[2], i.utxo.chain, i.utxo.index>> = i.utxo.coin.script
      <4>1. CASE i \in hand
        BY <4>1, <2>2 DEF HandDescribed, Definite, DefiniteAt
      <4>2. CASE i \notin hand
        BY <4>2, <2>2, <1>2, <1>3
      <4> QED
        BY <4>1, <4>2
    <3> QED
      BY <3>1 DEF HandDescribed, Definite, DefiniteAt
  <2> QED
    BY <2>1, <2>2 DEF HandDescribed
<1>6. mined' \subseteq node' /\ OrderIsNoHop' /\ PaysToScripts' /\ StoreOfScan'
  BY <1>1 DEF OrderIsNoHop, PaysToScripts, StoreOfScan
<1>7. NewCoinsStay' /\ RefusedOnlyMisuse'
  BY <1>1 DEF NewCoinsStay, RefusedOnlyMisuse
<1> QED
  BY <1>4, <1>5, <1>6, <1>7

(***************************************************************************)
(* A rejected broadcast, a lost reply and a restart empty the hand.        *)
(***************************************************************************)
LEMMA DropStep ==
    ASSUME IndInv, BroadcastRejected \/ ReplyLost \/ Restart
    PROVE  IndInv'
<1> USE DEF IndInv, BroadcastRejected, ReplyLost, Restart
<1>1. HandPaired' /\ HandDescribed'
  BY DEF HandPaired, HandDescribed
<1>2. mined' \subseteq node' /\ OrderIsNoHop' /\ StoreOfScan' /\ RefusedOnlyMisuse'
  BY DEF OrderIsNoHop, StoreOfScan, RefusedOnlyMisuse
<1>3. /\ node' \cup {pset', order'} \subseteq node \cup {pset, order, NoTx}
  OBVIOUS
<1>4. PaysToScripts' /\ NewCoinsStay'
  <2>1. node' \cup {pset'} \subseteq node \cup {pset, NoTx}
    OBVIOUS
  <2> QED
    BY <1>3, <2>1 DEF PaysToScripts, NewCoinsStay
<1> QED
  BY <1>1, <1>2, <1>4

(***************************************************************************)
(* An ordinary order pays outside, or to its wallet; it is refused only if *)
(* coins of both versions are paired with one wollet.                      *)
(***************************************************************************)
LEMMA OrderStep ==
    ASSUME IndInv, NEW a \in Member, NEW version \in Version, NEW versions, NEW fee,
           BuildOrder(a, version, versions, fee)
    PROVE  IndInv'
<1> USE DEF IndInv
<1> DEFINE inputs == {[utxo |-> u, owner |-> <<a, version>>] : u \in OwnCoins(a, versions)}
<1>1. PICK tx \in Orders(<<a, version>>, inputs, fee) :
         \/ order' = tx /\ UNCHANGED refused
         \/ ~Enriched(inputs) /\ refused' = TRUE /\ UNCHANGED order
  BY DEF BuildOrder
<1>2. /\ UNCHANGED <<node, mined, store, hand, pset>>
      /\ misused' = (misused \/ versions # {version})
  BY DEF BuildOrder
<1>3. ~tx.migrates /\ \A c \in tx.outs : c.script \in Script
  <2>1. a \in Account /\ Outside \in Account
    BY MigrationAssumption DEF MigrationAssumption, Member
  <2>2. AddressOf(<<a, version>>, "internal", 0) \in Script
    BY <2>1, AddressIsScript DEF Keychain
  <2>3. AddressOf(<<a, "new">>, "external", 1) \in Script
    BY <2>1, AddressIsScript DEF Keychain, Version
  <2>4. \A r \in Payments : r.script \in Script
    <3>1. AddressOf(<<Outside, "old">>, "external", 0) \in Script
      BY <2>1, AddressIsScript DEF Keychain, Version
    <3> QED
      BY <3>1 DEF Payments, Recipient
  <2>5. CASE \E r \in Payments : tx = SpendTx(NewId, <<a, version>>, inputs, r, fee)
    <3>1. PICK r \in Payments : tx = SpendTx(NewId, <<a, version>>, inputs, r, fee)
      BY <2>5
    <3>2. /\ tx.outs = Outputs(NewId, inputs, {r}, AddressOf(<<a, version>>, "internal", 0), fee)
          /\ ~tx.migrates
      BY <3>1 DEF SpendTx
    <3> QED
      BY <2>2, <2>4, <3>2, OutputScripts
  <2>6. CASE tx = SweepTx(NewId, <<a, version>>, inputs, AddressOf(<<a, "new">>, "external", 1), fee)
    <3>1. /\ tx.outs = Outputs(NewId, inputs, {}, AddressOf(<<a, "new">>, "external", 1), fee)
          /\ ~tx.migrates
      BY <2>6 DEF SweepTx
    <3> QED
      BY <2>3, <3>1, OutputScripts
  <2> QED
    BY <2>5, <2>6 DEF Orders
<1>4. PaysToScripts' /\ OrderIsNoHop'
  BY <1>1, <1>2, <1>3 DEF PaysToScripts, OrderIsNoHop
<1>5. ~misused' => Enriched(inputs)
  <2> SUFFICES ASSUME versions = {version}, NEW i \in inputs
               PROVE  Definite(i) = i.utxo.coin.script
    BY <1>2 DEF Enriched
  <2>1. PICK u \in OwnCoins(a, versions) : i = [utxo |-> u, owner |-> <<a, version>>]
    OBVIOUS
  <2>2. /\ AccountOf(u.coin.script) = a /\ VersionOf(u.coin.script) = version
        /\ u = CapturedByScan(u.coin) /\ u.coin.script \in Script
    BY DEF OwnCoins, StoreOfScan
  <2>3. i = PairedWith(u, VersionOf(u.coin.script)) /\ i.utxo = u
    BY <2>1, <2>2 DEF PairedWith
  <2> QED
    BY <2>2, <2>3, ScanDescribes
<1>6. RefusedOnlyMisuse'
  BY <1>1, <1>2, <1>5 DEF RefusedOnlyMisuse
<1>7. /\ mined' \subseteq node' /\ StoreOfScan' /\ HandPaired' /\ HandDescribed'
      /\ NewCoinsStay'
  BY <1>2 DEF StoreOfScan, HandPaired, HandDescribed, NewCoinsStay
<1> QED
  BY <1>4, <1>6, <1>7

(***************************************************************************)
(* An order that is broadcast is no hop of the migration.                  *)
(***************************************************************************)
LEMMA BroadcastOrderStep == IndInv /\ BroadcastOrder => IndInv'
<1> SUFFICES ASSUME IndInv, BroadcastOrder PROVE IndInv'
  OBVIOUS
<1> USE DEF IndInv, BroadcastOrder
<1>1. PaysToScripts' /\ NewCoinsStay'
  BY DEF PaysToScripts, NewCoinsStay, OrderIsNoHop
<1>2. /\ mined' \subseteq node' /\ OrderIsNoHop' /\ StoreOfScan' /\ HandPaired'
      /\ HandDescribed' /\ RefusedOnlyMisuse'
  BY DEF OrderIsNoHop, StoreOfScan, HandPaired, HandDescribed, RefusedOnlyMisuse
<1> QED
  BY <1>1, <1>2

(***************************************************************************)
(* What the node does keeps its blocks among what it has: an eviction      *)
(* takes nothing mined.                                                    *)
(***************************************************************************)
LEMMA NodeStep == IndInv /\ (MineSome \/ Evict \/ Reorg) => IndInv'
<1> SUFFICES ASSUME IndInv, MineSome \/ Evict \/ Reorg PROVE IndInv'
  OBVIOUS
<1> USE DEF IndInv
<1>1. /\ mined' \subseteq node' /\ node' \subseteq node
      /\ UNCHANGED <<store, hand, pset, order, misused, refused>>
  BY DEF MineSome, Mine, Evict, Reorg
<1>2. PaysToScripts' /\ NewCoinsStay'
  BY <1>1 DEF PaysToScripts, NewCoinsStay
<1>3. OrderIsNoHop' /\ StoreOfScan' /\ HandPaired' /\ HandDescribed' /\ RefusedOnlyMisuse'
  BY <1>1 DEF OrderIsNoHop, StoreOfScan, HandPaired, HandDescribed, RefusedOnlyMisuse
<1> QED
  BY <1>1, <1>2, <1>3

(***************************************************************************)
(* A scan stores captures of coins that mined transactions have made.      *)
(***************************************************************************)
LEMMA ScanStep == IndInv /\ Scan => IndInv'
<1> SUFFICES ASSUME IndInv, Scan PROVE IndInv'
  OBVIOUS
<1> USE DEF IndInv
<1>1. \A tx \in mined : \A c \in tx.outs : c.script \in Script
  BY DEF PaysToScripts
<1>2. ASSUME NEW u \in store'
      PROVE  u = CapturedByScan(u.coin) /\ u.coin.script \in Script
  BY <1>1, ViewOfScripts DEF Scan
<1>3. StoreOfScan'
  <2>1. \A u \in store' : u = CapturedByScan(u.coin) /\ u.coin.script \in Script
    BY <1>2
  <2> QED
    BY <2>1 DEF StoreOfScan, CapturedByScan
<1>4. /\ mined' \subseteq node' /\ OrderIsNoHop' /\ PaysToScripts' /\ HandPaired'
      /\ HandDescribed' /\ NewCoinsStay' /\ RefusedOnlyMisuse'
  BY DEF Scan, OrderIsNoHop, PaysToScripts, HandPaired, HandDescribed, NewCoinsStay,
         RefusedOnlyMisuse
<1> QED
  BY <1>3, <1>4

-----------------------------------------------------------------------------
(***************************************************************************)
(* Every step keeps the invariant.                                         *)
(***************************************************************************)
LEMMA StepInv == IndInv /\ [Next]_vars => IndInv'
<1> SUFFICES ASSUME IndInv, [Next]_vars PROVE IndInv'
  OBVIOUS
<1>1. CASE ListUnspent
  BY <1>1, ListStep
<1>2. CASE ListAllAsOld
  BY <1>2, ListAllStep
<1>3. CASE BuildHop
  BY <1>3, BuildStep DEF BuildHop
<1>4. CASE BroadcastOk
  <2>1. Broadcast(0) /\ misused' = misused
    BY <1>4 DEF BroadcastOk
  <2> QED
    BY <2>1, ChainStep
<1>5. CASE BroadcastWrongIndex
  <2>1. Broadcast(1) /\ misused' = TRUE
    BY <1>5 DEF BroadcastWrongIndex
  <2> QED
    BY <2>1, ChainStep
<1>6. CASE BroadcastRejected \/ ReplyLost \/ Restart
  BY <1>6, DropStep
<1>7. CASE BuildSome
  BY <1>7, OrderStep DEF BuildSome
<1>8. CASE BroadcastOrder
  BY <1>8, BroadcastOrderStep
<1>9. CASE MineSome \/ Evict \/ Reorg
  BY <1>9, NodeStep
<1>10. CASE Scan
  BY <1>10, ScanStep
<1>11. CASE UNCHANGED vars
  BY <1>11 DEF vars, IndInv, OrderIsNoHop, PaysToScripts, StoreOfScan, HandPaired,
               HandDescribed, NewCoinsStay, RefusedOnlyMisuse
<1> QED
  BY <1>1, <1>2, <1>3, <1>4, <1>5, <1>6, <1>7, <1>8, <1>9, <1>10, <1>11
     DEF Next, MigrationStep

(***************************************************************************)
(* Captures, owners and scripts fit through any number of hops, faults and *)
(* ordinary spends.                                                        *)
(***************************************************************************)
THEOREM MigrationInvariant == Spec => []IndInv
<1>1. Init => IndInv
  BY InitInv
<1>2. IndInv /\ [Next]_vars => IndInv'
  BY StepInv
<1> QED
  BY <1>1, <1>2, PTL DEF Spec

(***************************************************************************)
(* No hop takes a coin a customer has at the new federation.               *)
(***************************************************************************)
THEOREM NewFederationUntouched == Spec => []NewCoinsStay
<1>1. IndInv => NewCoinsStay
  BY DEF IndInv
<1> QED
  BY <1>1, MigrationInvariant, PTL

(***************************************************************************)
(* Without misuse no build ends in SpendError::Enrich.                     *)
(***************************************************************************)
THEOREM EnrichBlamesTheCaller == Spec => []RefusedOnlyMisuse
<1>1. IndInv => RefusedOnlyMisuse
  BY DEF IndInv
<1> QED
  BY <1>1, MigrationInvariant, PTL
=============================================================================
