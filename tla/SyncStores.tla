----------------------------- MODULE SyncStores -----------------------------
(***************************************************************************)
(* The stores the scan engine writes, in the behaviour of their in-memory  *)
(* implementations (src/src/sync/fakes.rs), which the traits' other        *)
(* implementations must match.  Each operator is one trait method and runs *)
(* under the store's lock, so it is one step of its caller.                *)
(*                                                                         *)
(* A MemUtxoStore is a partial function from outpoints to entries          *)
(* [utxo, spent_height], with utxo a CapturedUtxo; a MemBlockStore is a    *)
(* partial function from heights to block hashes, and a SyncedTip.         *)
(***************************************************************************)
EXTENDS Integers, FiniteSetsExt

NoHeight == -1    \* Option::None of spent_height

(***************************************************************************)
(* upsert_utxos: us maps the captured outpoints to their CapturedUtxo.  An *)
(* existing entry keeps its spent_height and has its utxo replaced.        *)
(***************************************************************************)
UpsertUtxos(m, us) ==
    [op \in DOMAIN m \cup DOMAIN us |->
        IF op \notin DOMAIN us THEN m[op]
        ELSE [utxo         |-> us[op],
              spent_height |-> IF op \in DOMAIN m THEN m[op].spent_height
                                                  ELSE NoHeight]]

(***************************************************************************)
(* Mutant of MarkSpentAt: the height of the spend is not recorded.         *)
(***************************************************************************)
MarkSpentNowhere(m, ops, h) ==
    [op \in DOMAIN m |->
        IF op \in ops THEN [m[op] EXCEPT !.utxo.is_spent = TRUE] ELSE m[op]]

(***************************************************************************)
(* mark_spent: an outpoint without an entry is ignored.                    *)
(***************************************************************************)
MarkSpentAt(m, ops, h) ==
    [op \in DOMAIN m |->
        IF op \in ops
        THEN [m[op] EXCEPT !.utxo.is_spent = TRUE, !.spent_height = h]
        ELSE m[op]]

UnspentOutpoints(m) == {op \in DOMAIN m : ~m[op].utxo.is_spent}

(***************************************************************************)
(* Mutant of RollbackUtxosAbove: spends above h stay.                      *)
(***************************************************************************)
RollbackCapturesOnly(m, h) == Restrict(m, {op \in DOMAIN m : m[op].utxo.height <= h})

(***************************************************************************)
(* WalletUtxoStore::rollback_above: drop the captures above h, un-spend    *)
(* the entries whose spend is above h.                                     *)
(***************************************************************************)
RollbackUtxosAbove(m, h) ==
    [op \in {o \in DOMAIN m : m[o].utxo.height <= h} |->
        IF m[op].spent_height > h
        THEN [m[op] EXCEPT !.utxo.is_spent = FALSE, !.spent_height = NoHeight]
        ELSE m[op]]

(***************************************************************************)
(* Mutant of CursorAfterRollback: the cursor is left where it was.         *)
(***************************************************************************)
CursorNotRolledBack(synced, bs, h, none) == synced

(***************************************************************************)
(* store_block, and BlockStore::rollback_above: its blocks and its cursor, *)
(* which falls back to the highest block kept, or to none.                 *)
(***************************************************************************)
StoreBlock(bs, h, b) == [k \in DOMAIN bs \cup {h} |-> IF k = h THEN b ELSE bs[k]]

RollbackBlocksAbove(bs, h) == Restrict(bs, {k \in DOMAIN bs : k <= h})

CursorAfterRollback(synced, bs, h, none) ==
    LET kept == {k \in DOMAIN bs : k <= h}
    IN  CASE synced.height <= h -> synced
          [] synced.height > h /\ kept # {} ->
                [height |-> Max(kept), hash |-> bs[Max(kept)]]
          [] OTHER -> none
=============================================================================
