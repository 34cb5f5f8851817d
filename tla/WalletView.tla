----------------------------- MODULE WalletView -----------------------------
(***************************************************************************)
(* What a set of blocks says about the watched outputs: the contents a     *)
(* UTXO store ought to have once exactly these blocks were scanned.        *)
(***************************************************************************)
EXTENDS WatchIndex, SyncStores

(***************************************************************************)
(* l is a partial function from heights to blocks.                         *)
(***************************************************************************)
Appears(l, op) == \E h \in DOMAIN l : op \in Creates(l[h])
IsSpent(l, op) == \E h \in DOMAIN l : op \in Spends(l[h])
BirthHeight(l, op) == CHOOSE h \in DOMAIN l : op \in Creates(l[h])
SpendHeight(l, op) == CHOOSE h \in DOMAIN l : op \in Spends(l[h])

(***************************************************************************)
(* The entry of a captured output: its owner, the height it was confirmed  *)
(* at, whether a later transaction of the ledger spends it, and where.     *)
(***************************************************************************)
EntryOf(l, op) ==
    [utxo |-> [wallet_id |-> Owner(op),
               height    |-> BirthHeight(l, op),
               is_spent  |-> IsSpent(l, op)],
     spent_height |-> IF IsSpent(l, op) THEN SpendHeight(l, op) ELSE NoHeight]

ViewOf(l) ==
    [op \in {o \in OutPoint : Captures(o) /\ Appears(l, o)} |-> EntryOf(l, op)]
=============================================================================
