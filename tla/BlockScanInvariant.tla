------------------------- MODULE BlockScanInvariant -------------------------
(***************************************************************************)
(* The inductive invariant of BlockScan, from which CursorCovered and      *)
(* ExactView follow.  It has a part that holds whatever happens            *)
(* (Positions) and a part that holds while no reorg has pulled the stored  *)
(* blocks from under a pass (Undisturbed).                                 *)
(***************************************************************************)
EXTENDS BlockScan

(***************************************************************************)
(* The height a pass works on relative to what is stored.                  *)
(***************************************************************************)
Positions ==
    /\ pc \in {"ancestor", "rollback_blocks", "rollback_utxos", "upsert", "mark"}
          => height \in DOMAIN blocks
    /\ pc \in {"index", "scan"} => 0 .. height - 1 \subseteq DOMAIN blocks
    /\ pc \in {"upsert", "mark"} => height <= tip
    /\ pc = "scan" => height <= tip + 1

(***************************************************************************)
(* The stored blocks come from one chain, the cursor's hash is of one of   *)
(* them, and once a pass relies on them they are the node's.               *)
(***************************************************************************)
Lineage ==
    /\ \E c \in Chains : OnChain(blocks, c)
    /\ synced_tip # NoTip => blocks[synced_tip.height] = synced_tip.hash
    /\ Unsettled => OnChain(ReliedOn, chain)
    /\ pc \in {"ancestor", "rollback_blocks"} => synced_tip # NoTip /\ ~Leftovers
    /\ pc = "rollback_utxos" => DOMAIN blocks = 0 .. height
    /\ pc = "cursor" /\ Leftovers => DOMAIN blocks \subseteq 0 .. tip
    /\ pc = "index" => DOMAIN blocks = 0 .. height - 1 \/ DOMAIN blocks \subseteq 0 .. tip
    /\ pc \in {"upsert", "mark"} => DOMAIN blocks \subseteq 0 .. tip
    /\ pc = "scan" /\ height <= tip => DOMAIN blocks \subseteq 0 .. tip

(***************************************************************************)
(* The heights whose blocks have been carried over to the UTXO store.      *)
(***************************************************************************)
Applied ==
    CASE pc = "idle" -> DOMAIN blocks
      [] pc = "rollback_utxos" -> 0 .. height
      [] pc \in {"index", "scan", "upsert", "mark"} ->
            IF DOMAIN blocks \subseteq 0 .. tip THEN 0 .. height - 1 ELSE DOMAIN blocks
      [] OTHER -> 0 .. synced_tip.height

Entries == IF pc = "rollback_utxos" THEN RollbackUtxosAbove(utxos, height) ELSE utxos

(***************************************************************************)
(* Every entry is warranted by the stored blocks ...                       *)
(***************************************************************************)
Sound ==
    \A op \in DOMAIN Entries :
        LET e == Entries[op]
        IN  /\ Captures(op)
            /\ e.utxo.wallet_id = Owner(op)
            /\ e.utxo.height \in DOMAIN blocks
            /\ op \in Creates(blocks[e.utxo.height])
            /\ e.utxo.is_spent => e.spent_height # NoHeight
            /\ e.spent_height # NoHeight =>
                  e.spent_height \in DOMAIN blocks /\ op \in Spends(blocks[e.spent_height])

(***************************************************************************)
(* ... and what the applied blocks say, at least those up to the cursor,   *)
(* has an entry.                                                           *)
(***************************************************************************)
Complete ==
    /\ 0 .. synced_tip.height \subseteq Applied
    /\ \A h \in Applied : \A op \in Creates(blocks[h]) :
          Captures(op) => op \in DOMAIN Entries
    /\ \A h \in Applied : \A op \in Spends(blocks[h]) :
          op \in DOMAIN Entries => Entries[op].utxo.is_spent

(***************************************************************************)
(* The pass will not miss a spend: what is unspent in the store is looked  *)
(* for, or was found in this block.                                        *)
(***************************************************************************)
Watchful ==
    /\ pc \in {"scan", "upsert", "mark"} =>
          UnspentOutpoints(utxos) \subseteq spend_index \cup spent
    /\ pc \notin {"upsert", "mark"} => spent = {}
    /\ pc \in {"upsert", "mark"} =>
          /\ captured = CapturedIn(blocks[height])
          /\ captured \cap Spends(blocks[height]) \subseteq spent
          /\ captured \subseteq spend_index \cup spent
          /\ UnspentOutpoints(utxos) \cap Spends(blocks[height]) \subseteq spent
          /\ spent \subseteq Spends(blocks[height])
    /\ pc = "mark" => captured \subseteq DOMAIN utxos

Undisturbed == Lineage /\ Sound /\ Complete /\ Watchful

IndInv == TypeOK /\ CursorCovered /\ Positions /\ (~tainted => Undisturbed)

-----------------------------------------------------------------------------
(***************************************************************************)
(* What an environment that breaks off no started rollback or scan and     *)
(* never lowers the node's tip adds to it, and ImplementsLedger rests on:  *)
(* nothing disturbs, no pass leaves blocks above the cursor or scans past  *)
(* a block it does not find, and the stored blocks are at every point the  *)
(* very ones the pass counts on.                                           *)
(***************************************************************************)
StoredHeights ==
    CASE pc = "scan" -> 0 .. height - 1
      [] pc \in {"upsert", "mark"} -> 0 .. height
      [] OTHER -> 0 .. synced_tip.height

InStep ==
    /\ ~tainted
    /\ synced_tip.height <= TipHeight(chain)
    /\ pc \in InPass => synced_tip.height <= tip /\ tip <= TipHeight(chain)
    /\ DOMAIN blocks = StoredHeights
    /\ pc = "rollback_utxos" => height = synced_tip.height
    /\ pc = "index" => height = synced_tip.height + 1
    /\ pc = "upsert" => utxos = ViewOf(AppliedBlocks)
=============================================================================
