----------------------------- MODULE UtxoLedger -----------------------------
(***************************************************************************)
(* What the sync pipeline promises, without its passes, cursor and stores: *)
(* a ledger of scanned blocks that follows the node's chain, growing one   *)
(* block at a time and dropping its top blocks on a reorg, and a view of   *)
(* the wallets' outputs that is always exactly what the ledger says.       *)
(***************************************************************************)
EXTENDS WalletView

VARIABLES
    ledger,     \* height -> block, the blocks whose effects are in the view
    view        \* outpoint -> entry of the UTXO store

vars == <<ledger, view>>

(***************************************************************************)
(* The ledger takes the next block of some chain it is a prefix of.        *)
(***************************************************************************)
Extend ==
    \E c \in Chains : \E h \in DOMAIN c :
        /\ DOMAIN ledger = 0 .. h - 1
        /\ OnChain(ledger, c)
        /\ ledger' = StoreBlock(ledger, h, c[h])
        /\ view' = ViewOf(ledger')

Rollback ==
    \E h \in DOMAIN ledger :
        /\ ledger' = RollbackBlocksAbove(ledger, h)
        /\ view' = ViewOf(ledger')

Init == ledger = [h \in {} |-> NoHash] /\ view = ViewOf(ledger)
Next == Extend \/ Rollback
Spec == Init /\ [][Next]_vars
=============================================================================
