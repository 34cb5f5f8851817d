----------------------------- MODULE Migration -----------------------------
(***************************************************************************)
(* The move of a vault's accounts to a new federation, in a batch of       *)
(* unconfirmed transactions, while its customers go on spending.           *)
(*                                                                         *)
(* The code is the builders of src/src/spend.rs (see SpendBuilder).  How   *)
(* they are called is the batched flow their tests document: each hop pays *)
(* some customers their exact amounts at the new federation and the fee    *)
(* account's change back to its own old address, where it is captured by   *)
(* hand for the next hop; a last hop without customers moves the change.   *)
(* An application that loses a reply or restarts reads the UTXO store      *)
(* again, which knows of confirmed transactions only, and only of those    *)
(* of the last scan.                                                       *)
(***************************************************************************)
EXTENDS SpendBuilder

CONSTANTS
    Customer,       \* accounts to move,
    FeeAccount,     \*   the account that pays for it,
    Outside,        \*   and one of somebody else
    Funding,        \* the coins there are at first
    Amounts,        \* amounts of ordinary payments
    MaxFee, MaxSpends, MaxFaults    \* bounds

Member == Customer \cup {FeeAccount}

ASSUME MigrationAssumption ==
    /\ Customer \subseteq Account /\ FeeAccount \in Account \ Customer
    /\ Outside \in Account \ Member
    /\ IsFiniteSet(Customer) /\ IsFiniteSet(Funding)
    /\ Funding \subseteq Coin /\ \A c \in Funding : c.tx = Funds
    /\ Funds \notin Txid
    /\ Amounts \subseteq Nat \ {0}
    /\ MaxFee \in Nat /\ MaxSpends \in Nat /\ MaxFaults \in Nat

NoTx == [id |-> Funds]

VARIABLES
    node, mined,    \* transactions the node has, and those in blocks
    store,          \* list_unspent of all members, as of the last scan
    hand,           \* inputs the migration has left to spend
    pset, order,    \* what the migration and an ordinary spender broadcast next
    misused,        \* history: a call was given a coin it is not for
    refused,        \* history: a build ended in SpendError::Enrich
    spends, faults

vars == <<node, mined, store, hand, pset, order, misused, refused, spends, faults>>

-----------------------------------------------------------------------------
(***************************************************************************)
(* Coins created and not spent by a set of transactions.                   *)
(***************************************************************************)
Unspent(txs) ==
    (Funding \cup UNION {tx.outs : tx \in txs}) \ UNION {tx.ins : tx \in txs}

(***************************************************************************)
(* What a scan of the blocks leaves in the store.                          *)
(***************************************************************************)
View(txs) == {CapturedByScan(c) : c \in {x \in Unspent(txs) : AccountOf(x.script) \in Member}}

Places == {u.coin : u \in store} \cup CoinsOf(hand)

UsedIds ==
    {tx.id : tx \in node \cup {pset, order}} \cup {c.tx : c \in Places}

NewId == CHOOSE id \in Txid \ UsedIds : TRUE

Handed(accounts) == {i \in hand : AccountOf(i.utxo.coin.script) \in accounts}

CustomersLeft == {c \in Customer : Handed({c}) # {}}

Init ==
    /\ node = {} /\ mined = {}
    /\ store = View({})
    /\ hand = {} /\ pset = NoTx /\ order = NoTx
    /\ misused = FALSE /\ refused = FALSE
    /\ spends = 0 /\ faults = 0

Fault == faults < MaxFaults /\ faults' = faults + 1

-----------------------------------------------------------------------------
(***************************************************************************)
(* The migration starts or starts over.  Each coin is paired with the      *)
(* wollet of its version; the fee account may have been moved before.      *)
(***************************************************************************)
OldCustomerCoin(u) ==
    AccountOf(u.coin.script) \in Customer /\ VersionOf(u.coin.script) = "old"

ToMove(u) == OldCustomerCoin(u) \/ AccountOf(u.coin.script) = FeeAccount

PairedWith(u, version) == [utxo |-> u, owner |-> <<AccountOf(u.coin.script), version>>]

ListUnspent ==
    /\ hand = {} /\ pset = NoTx
    /\ \E u \in store : OldCustomerCoin(u)
    /\ hand' = {PairedWith(u, VersionOf(u.coin.script)) : u \in {x \in store : ToMove(x)}}
    /\ UNCHANGED <<node, mined, store, pset, order, misused, refused, spends, faults>>

(***************************************************************************)
(* The application takes every coin of the wallets' ids for one of the old *)
(* federation: the record does not say.                                    *)
(***************************************************************************)
ListAllAsOld ==
    /\ hand = {} /\ pset = NoTx /\ Fault
    /\ hand' = {PairedWith(u, "old") : u \in store}
    /\ misused' = TRUE
    /\ UNCHANGED <<node, mined, store, pset, order, refused, spends>>

(***************************************************************************)
(* One hop.  It takes all coins in hand of the batch and of the fee        *)
(* account; nobody left to move makes it the last.  Mutant: a customer's   *)
(* change coins are left out of the sum.                                   *)
(***************************************************************************)
ChangeDest == AddressOf(<<FeeAccount, "old">>, "external", 0)

FeeDest(batch) ==
    IF batch = {} THEN AddressOf(<<FeeAccount, "new">>, "external", 1) ELSE ChangeDest

RecipientsOfReceived(batch) ==
    {Recipient(AddressOf(<<c, "new">>, "external", 1),
               SumOf({x \in CoinsOf(Handed({c})) : x.script[3] = "external"})) :
        c \in batch}

RecipientsOf(batch) ==
    {Recipient(AddressOf(<<c, "new">>, "external", 1), SumOf(CoinsOf(Handed({c})))) :
        c \in batch}

Build(batch, fee) ==
    /\ pset = NoTx /\ hand # {} /\ Txid \ UsedIds # {}
    /\ batch = {} <=> CustomersLeft = {}
    /\ LET inputs == Handed(batch \cup {FeeAccount})
           recipients == RecipientsOf(batch)
           funded == Funded(inputs, recipients, fee)
       IN  IF funded /\ Enriched(inputs)
           THEN /\ pset' = MigrationTx(NewId, FeeAccount, inputs, recipients,
                                       FeeDest(batch), fee)
                /\ UNCHANGED <<hand, refused>>
           ELSE /\ hand' = {} /\ refused' = (refused \/ funded)
                /\ UNCHANGED pset
    /\ UNCHANGED <<node, mined, store, order, misused, spends, faults>>

(***************************************************************************)
(* Broadcast, and capture of the change for the next hop.  The node takes  *)
(* a transaction whose inputs are unspent in its view.                     *)
(***************************************************************************)
Accepts(tx) == tx.ins \subseteq Unspent(node)

Change(tx) == {c \in tx.outs : c.script = ChangeDest}

Chained(tx, index) ==
    {i \in hand : i.utxo.coin \notin tx.ins}
        \cup {[utxo |-> CapturedFromOutput(c, index), owner |-> <<FeeAccount, "old">>]
                 : c \in Change(tx)}

Broadcast(index) ==
    /\ pset # NoTx /\ Accepts(pset)
    /\ node' = node \cup {pset}
    /\ hand' = Chained(pset, index)
    /\ pset' = NoTx
    /\ UNCHANGED <<mined, store, order, refused, spends>>

BroadcastOk == Broadcast(0) /\ UNCHANGED <<misused, faults>>

BroadcastWrongIndex == Broadcast(1) /\ misused' = TRUE /\ Fault

BroadcastRejected ==
    /\ pset # NoTx /\ ~Accepts(pset)
    /\ hand' = {} /\ pset' = NoTx
    /\ UNCHANGED <<node, mined, store, order, misused, refused, spends, faults>>

(***************************************************************************)
(* The node takes the transaction and the reply is lost; the application   *)
(* dies.                                                                   *)
(***************************************************************************)
ReplyLost ==
    /\ pset # NoTx /\ Accepts(pset) /\ Fault
    /\ node' = node \cup {pset}
    /\ hand' = {} /\ pset' = NoTx
    /\ UNCHANGED <<mined, store, order, misused, refused, spends>>

Restart ==
    /\ Fault
    /\ hand' = {} /\ pset' = NoTx /\ order' = NoTx
    /\ UNCHANGED <<node, mined, store, misused, refused, spends>>

-----------------------------------------------------------------------------
(***************************************************************************)
(* An ordinary spend or sweep of all coins a member has in the store: of   *)
(* one version, or of both by mistake, through one wollet all the same.    *)
(***************************************************************************)
OwnCoins(a, versions) ==
    {u \in store : AccountOf(u.coin.script) = a /\ VersionOf(u.coin.script) \in versions}

Payments == {Recipient(AddressOf(<<Outside, "old">>, "external", 0), n) : n \in Amounts}

Orders(wollet, inputs, fee) ==
    {SpendTx(NewId, wollet, inputs, r, fee) :
        r \in {x \in Payments : Funded(inputs, {x}, fee)}}
    \cup IF Funded(inputs, {}, fee)
         THEN {SweepTx(NewId, wollet, inputs, AddressOf(<<wollet[1], "new">>, "external", 1), fee)}
         ELSE {}

BuildOrder(a, version, versions, fee) ==
    /\ order = NoTx /\ spends < MaxSpends /\ Txid \ UsedIds # {}
    /\ OwnCoins(a, versions) # {}
    /\ LET inputs == {[utxo |-> u, owner |-> <<a, version>>] : u \in OwnCoins(a, versions)}
       IN  \E tx \in Orders(<<a, version>>, inputs, fee) :
              IF Enriched(inputs)
              THEN order' = tx /\ UNCHANGED refused
              ELSE refused' = TRUE /\ UNCHANGED order
    /\ misused' = (misused \/ versions # {version})
    /\ spends' = spends + 1
    /\ UNCHANGED <<node, mined, store, hand, pset, faults>>

BroadcastOrder ==
    /\ order # NoTx
    /\ node' = IF Accepts(order) THEN node \cup {order} ELSE node
    /\ order' = NoTx
    /\ UNCHANGED <<mined, store, hand, pset, misused, refused, spends, faults>>

-----------------------------------------------------------------------------
(***************************************************************************)
(* The node mines a transaction, drops some from its mempool or returns    *)
(* some from its blocks to it, with those that spend their coins.  The     *)
(* application scans the blocks (a whole pass; BlockScan is about its      *)
(* steps).                                                                 *)
(***************************************************************************)
Mine(tx) ==
    /\ tx \in node \ mined /\ tx.ins \subseteq Unspent(mined)
    /\ mined' = mined \cup {tx}
    /\ UNCHANGED <<node, store, hand, pset, order, misused, refused, spends, faults>>

ClosedIn(gone, txs) ==
    \A t \in gone, s \in txs : t.outs \cap s.ins # {} => s \in gone

Evict ==
    /\ Fault
    /\ \E gone \in SUBSET (node \ mined) \ {{}} :
          ClosedIn(gone, node) /\ node' = node \ gone
    /\ UNCHANGED <<mined, store, hand, pset, order, misused, refused, spends>>

Reorg ==
    /\ Fault
    /\ \E gone \in SUBSET mined \ {{}} :
          ClosedIn(gone, mined) /\ mined' = mined \ gone
    /\ UNCHANGED <<node, store, hand, pset, order, misused, refused, spends>>

Scan ==
    /\ store # View(mined)
    /\ store' = View(mined)
    /\ UNCHANGED <<node, mined, hand, pset, order, misused, refused, spends, faults>>

-----------------------------------------------------------------------------
BuildHop == \E batch \in SUBSET Customer, fee \in 1 .. MaxFee :
                batch \subseteq CustomersLeft /\ Build(batch, fee)

BuildSome == \E a \in Member, version \in Version, fee \in 1 .. MaxFee :
                \E versions \in {{version}, Version} : BuildOrder(a, version, versions, fee)

MineSome == \E tx \in node : Mine(tx)

MigrationStep == ListUnspent \/ BuildHop \/ BroadcastOk \/ BroadcastRejected

Next ==
    \/ MigrationStep
    \/ ListAllAsOld \/ BroadcastWrongIndex \/ ReplyLost \/ Restart
    \/ BuildSome \/ BroadcastOrder
    \/ MineSome \/ Evict \/ Reorg \/ Scan

Spec == Init /\ [][Next]_vars

(***************************************************************************)
(* The application carries its migration on and keeps scanning; the node   *)
(* mines what it has.                                                      *)
(***************************************************************************)
FairSpec == Spec /\ WF_vars(MigrationStep) /\ WF_vars(MineSome) /\ WF_vars(Scan)

-----------------------------------------------------------------------------
(***************************************************************************)
(* Every variable holds values of its kind.                                *)
(***************************************************************************)
TypeOK ==
    /\ node \subseteq Tx /\ mined \subseteq node
    /\ store \subseteq Captured /\ hand \subseteq Input
    /\ pset \in Tx \cup {NoTx} /\ order \in Tx \cup {NoTx}
    /\ misused \in BOOLEAN /\ refused \in BOOLEAN
    /\ spends \in 0 .. MaxSpends /\ faults \in 0 .. MaxFaults

(***************************************************************************)
(* Whatever the node has of all this, every account holds what it had,     *)
(* less the payments and fees of its own orders, and what it was paid:     *)
(* the migration costs the fee account its fees, and a customer nothing    *)
(* ("each customer paid their exact amount, and the fee account pays the   *)
(* mining fee", src/src/spend.rs:82).                                      *)
(***************************************************************************)
BalanceOf(a, coins) == SumOf({c \in coins : AccountOf(c.script) = a})

Gives(a, tx) == IF tx.payer = a THEN tx.fee + tx.amount ELSE 0
Gets(a, tx)  == IF tx.payee = a THEN tx.amount ELSE 0

Spent(a, txs)    == SumFunctionOnSet([tx \in txs |-> Gives(a, tx)], txs)
Received(a, txs) == SumFunctionOnSet([tx \in txs |-> Gets(a, tx)], txs)

Conserved == \A a \in Account :
    BalanceOf(a, Unspent(node)) =
        BalanceOf(a, Funding) - Spent(a, node) + Received(a, node)

(***************************************************************************)
(* The books are in order, of what the node has and of what waits to be    *)
(* broadcast: transactions are told apart by their ids and coins name the  *)
(* one that made them, no coin is spent twice, none is spent that nobody   *)
(* made (an eviction takes the spenders too), and a builder gives every    *)
(* account of a transaction its inputs back less what the order costs it.  *)
(***************************************************************************)
Made == {tx \in node \cup {pset, order} : tx # NoTx}

OwnIds == \A s, t \in Made : s.id = t.id => s = t

CoinsNameTheirTx == \A tx \in Made : \A c \in tx.outs : c.tx = tx.id

SpentOnce == \A s, t \in node : s # t => s.ins \cap t.ins = {}

SpentAreMade == \A tx \in node :
    tx.ins \subseteq Funding \cup UNION {t.outs : t \in node}

Balanced(tx) == \A a \in Account :
    BalanceOf(a, tx.outs) = BalanceOf(a, tx.ins) - Gives(a, tx) + Gets(a, tx)

AllFinite ==
    /\ IsFiniteSet(node) /\ IsFiniteSet(store) /\ IsFiniteSet(hand)
    /\ \A tx \in Made : IsFiniteSet(tx.ins) /\ IsFiniteSet(tx.outs)

BooksInOrder ==
    /\ OwnIds /\ CoinsNameTheirTx /\ SpentOnce /\ SpentAreMade
    /\ \A tx \in Made : Balanced(tx)
    /\ AllFinite

(***************************************************************************)
(* A hop of the migration takes no coin a customer has at the new          *)
(* federation, also if the application mistakes it for an old one.         *)
(***************************************************************************)
NewCoinsStay == \A tx \in node \cup {pset} :
    tx # NoTx /\ tx.migrates =>
        \A c \in tx.ins : AccountOf(c.script) \in Customer => VersionOf(c.script) = "old"

(***************************************************************************)
(* What a build is given describes its coins, through any number of hops,  *)
(* restarts and ordinary spends in between: SpendError::Enrich comes from  *)
(* a caller that mixes versions or gives a wrong index, and from nothing   *)
(* else.                                                                   *)
(***************************************************************************)
RefusedOnlyMisuse == refused => misused

(***************************************************************************)
(* The inductive invariant: outputs pay to scripts, the store has captures *)
(* of the scan, a customer's coin in hand is paired with the old wollet,   *)
(* and without misuse an input's capture and owner lead to its script.     *)
(***************************************************************************)
PaysToScripts ==
    /\ NoTx \notin node
    /\ \A tx \in node \cup {pset, order} :
          tx # NoTx => \A c \in tx.outs : c.script \in Script

StoreOfScan == \A u \in store :
    u = CapturedByScan(u.coin) /\ u.coin.script \in Script

HandPaired == \A i \in hand :
    /\ i.utxo.coin.script \in Script
    /\ AccountOf(i.utxo.coin.script) \in Customer => i.owner[2] = "old"

HandDescribed == misused \/ \A i \in hand : Definite(i) = i.utxo.coin.script

OrderIsNoHop == order # NoTx => ~order.migrates

IndInv ==
    /\ mined \subseteq node /\ OrderIsNoHop
    /\ PaysToScripts /\ StoreOfScan /\ HandPaired /\ HandDescribed
    /\ NewCoinsStay /\ RefusedOnlyMisuse

(***************************************************************************)
(* Every customer is moved in the end: no reply lost, restart, race with   *)
(* an ordinary spend, eviction or reorg leaves the migration stuck.        *)
(***************************************************************************)
AllMoved == <>[](\A c \in Unspent(node) :
                    AccountOf(c.script) \in Customer => VersionOf(c.script) = "new")
=============================================================================
