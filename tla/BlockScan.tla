----------------------------- MODULE BlockScan -----------------------------
(***************************************************************************)
(* BlockScanEngine::sync (src/src/sync/scan.rs) run again and again by the *)
(* application against one node and one pair of stores.                    *)
(*                                                                         *)
(* The pass is a sequence of calls on the node and the stores; the node    *)
(* extends and reorganises its chain between them, and a call may fail or  *)
(* the process die, which ends the pass and loses its locals while the     *)
(* stores keep what was written.  A step of the model holds at most one    *)
(* store write; the node reads that feed it happen in the same step.       *)
(***************************************************************************)
EXTENDS WalletView

CONSTANTS
    MaxReorgs,      \* bound on the reorgs of a behaviour
    MaxFailures,    \* bound on its failed or crashed passes
    ReorgPoints,    \* the points of a pass at which the node may reorganise
    FailPoints,     \* the points at which a call may fail
    ShorterTips     \* whether a reorg may leave the node with a lower tip

VARIABLES
    chain,          \* the node's active chain
    blocks,         \* the block store's blocks
    synced_tip,     \* and its cursor
    utxos,          \* the UTXO store
    pc,             \* where the pass is
    tip,            \* locals of the pass: the tip it read when it began,
    height,         \*   the height it works on,
    spend_index,    \*   outpoints whose spend it would recognise,
    captured,       \*   outpoints the block at height captures
    spent,          \*   and known outpoints it spends
    reorgs,         \* reorgs so far
    failures,       \* failed passes so far
    tainted         \* a disturbance the pass has no defence against happened

node   == <<chain, reorgs>>
stores == <<blocks, synced_tip, utxos>>
locals == <<tip, height, spend_index, captured, spent>>
vars   == <<node, stores, pc, locals, failures, tainted>>

NoTip == [height |-> -1, hash |-> NoHash]

Idle     == {"idle", "failed"}
Deciding == {"cursor", "ancestor"}
Working  == {"rollback_blocks", "rollback_utxos", "index", "scan", "upsert", "mark"}
InPass   == Deciding \cup Working

ASSUME EnvironmentAssumption ==
    /\ MaxReorgs \in Nat /\ MaxFailures \in Nat
    /\ ReorgPoints \subseteq Idle \cup InPass
    /\ FailPoints \subseteq InPass
    /\ ShorterTips \in BOOLEAN

Init ==
    /\ chain \in Chains
    /\ blocks = [h \in {} |-> NoHash]
    /\ synced_tip = NoTip
    /\ utxos = [op \in {} |-> NoHeight]
    /\ pc = "idle"
    /\ tip = 0 /\ height = 0
    /\ spend_index = {} /\ captured = {} /\ spent = {}
    /\ reorgs = 0 /\ failures = 0
    /\ tainted = FALSE

(***************************************************************************)
(* The end of a pass: return, error or crash.                              *)
(***************************************************************************)
EndPass(outcome) ==
    /\ pc' = outcome
    /\ tip' = 0 /\ height' = 0
    /\ spend_index' = {} /\ captured' = {} /\ spent' = {}

GoTo(point) == pc' = point /\ UNCHANGED <<tip, spend_index, captured, spent>>

-----------------------------------------------------------------------------
(***************************************************************************)
(* Mutant of StartPass: the number of blocks taken for the tip's height.   *)
(***************************************************************************)
StartPassAtBlockCount ==
    /\ pc \in Idle
    /\ tip' = TipHeight(chain) + 1
    /\ pc' = "cursor"
    /\ UNCHANGED <<node, stores, height, spend_index, captured, spent, failures, tainted>>

(***************************************************************************)
(* The pass.  tip_height is read first.                                    *)
(***************************************************************************)
StartPass ==
    /\ pc \in Idle
    /\ tip' = TipHeight(chain)
    /\ pc' = "cursor"
    /\ UNCHANGED <<node, stores, height, spend_index, captured, spent, failures, tainted>>

(***************************************************************************)
(* Where to start: from genesis without a cursor, after the cursor if the  *)
(* node still has its block.  block_hash of a height above the node's tip  *)
(* is an error, and ends the pass.                                         *)
(***************************************************************************)
CheckCursor ==
    /\ pc = "cursor"
    /\ CASE synced_tip = NoTip ->
              height' = 0 /\ GoTo("index")
         [] synced_tip # NoTip /\ synced_tip.height \notin DOMAIN chain ->
              EndPass("failed")
         [] OTHER ->
              IF chain[synced_tip.height] = synced_tip.hash
              THEN height' = synced_tip.height + 1 /\ GoTo("index")
              ELSE height' = synced_tip.height /\ GoTo("ancestor")
    /\ UNCHANGED <<node, stores, failures, tainted>>

(***************************************************************************)
(* One iteration of find_common_ancestor: a stored height is compared with *)
(* the node's, and may be above the node's tip; height 0 is the answer     *)
(* whatever the comparison says.                                           *)
(***************************************************************************)
FindAncestor ==
    /\ pc = "ancestor"
    /\ IF height \in DOMAIN blocks /\ height \notin DOMAIN chain
       THEN EndPass("failed")
       ELSE LET common == height \in DOMAIN blocks /\ blocks[height] = chain[height]
            IN  IF common \/ height = 0
                THEN GoTo("rollback_blocks") /\ UNCHANGED height
                ELSE GoTo("ancestor") /\ height' = height - 1
    /\ UNCHANGED <<node, stores, failures, tainted>>

RollbackBlocks ==
    /\ pc = "rollback_blocks"
    /\ blocks' = RollbackBlocksAbove(blocks, height)
    /\ synced_tip' = CursorAfterRollback(synced_tip, blocks, height, NoTip)
    /\ GoTo("rollback_utxos")
    /\ UNCHANGED <<node, utxos, height, failures, tainted>>

RollbackUtxos ==
    /\ pc = "rollback_utxos"
    /\ utxos' = RollbackUtxosAbove(utxos, height)
    /\ height' = height + 1
    /\ GoTo("index")
    /\ UNCHANGED <<node, blocks, synced_tip, failures, tainted>>

(***************************************************************************)
(* Clamp the start to one above the tip that was read, and take the        *)
(* unspent outpoints of the store as the spends to look for.               *)
(***************************************************************************)
LoadSpendIndex ==
    /\ pc = "index"
    /\ height' = IF height > tip + 1 THEN tip + 1 ELSE height
    /\ spend_index' = UnspentOutpoints(utxos)
    /\ pc' = "scan"
    /\ UNCHANGED <<node, stores, tip, captured, spent, failures, tainted>>

-----------------------------------------------------------------------------
(***************************************************************************)
(* Mutants of CapturedIn (the blinding key is not tried) and of SpentIn    *)
(* (an output spent in the block that creates it is missed).               *)
(***************************************************************************)
MatchedIn(b) == {op \in Creates(b) : Indexed(SpkOf[op])}
SpentOfIndex(b, idx) == Spends(b) \cap idx

(***************************************************************************)
(* The block at height: what it captures, and what it spends of the spend  *)
(* index and of the outputs an earlier transaction of it captured.         *)
(***************************************************************************)
CapturedIn(b) == {op \in Creates(b) : Captures(op)}

SpentIn(b, idx) ==
    {op \in Spends(b) :
        \E i \in DOMAIN Txs[b] :
            /\ op \in Txs[b][i].ins
            /\ \/ op \in idx
               \/ Captures(op) /\ \E j \in 1 .. i - 1 : op \in Txs[b][j].outs}

ScanBlock ==
    /\ pc = "scan"
    /\ height <= tip
    /\ IF height \notin DOMAIN chain
       THEN EndPass("failed") /\ UNCHANGED blocks
       ELSE LET b == chain[height]
            IN  /\ blocks' = StoreBlock(blocks, height, b)
                /\ captured' = CapturedIn(b)
                /\ spent' = SpentIn(b, spend_index)
                /\ spend_index' = (spend_index \cup captured') \ spent'
                /\ pc' = "upsert"
                /\ UNCHANGED <<tip, height>>
    /\ UNCHANGED <<node, synced_tip, utxos, failures, tainted>>

CapturedUtxos(h) ==
    [op \in captured |-> [wallet_id |-> Owner(op), height |-> h, is_spent |-> FALSE]]

Upsert ==
    /\ pc = "upsert"
    /\ utxos' = UpsertUtxos(utxos, CapturedUtxos(height))
    /\ GoTo("mark")
    /\ UNCHANGED <<node, blocks, synced_tip, height, failures, tainted>>

MarkSpent ==
    /\ pc = "mark"
    /\ utxos' = MarkSpentAt(utxos, spent, height)
    /\ height' = height + 1
    /\ pc' = "scan"
    /\ captured' = {} /\ spent' = {}
    /\ UNCHANGED <<node, blocks, synced_tip, tip, spend_index, failures, tainted>>

(***************************************************************************)
(* After the last block the node is asked again for the hash at the tip    *)
(* read at the start of the pass.                                          *)
(***************************************************************************)
SetCursor ==
    /\ pc = "scan"
    /\ height > tip
    /\ IF tip \in DOMAIN chain
       THEN /\ synced_tip' = [height |-> tip, hash |-> chain[tip]]
            /\ EndPass("idle")
       ELSE UNCHANGED synced_tip /\ EndPass("failed")
    /\ UNCHANGED <<node, blocks, utxos, failures, tainted>>

EngineStep ==
    \/ StartPass \/ CheckCursor \/ FindAncestor \/ RollbackBlocks \/ RollbackUtxos
    \/ LoadSpendIndex \/ ScanBlock \/ Upsert \/ MarkSpent \/ SetCursor

-----------------------------------------------------------------------------
(***************************************************************************)
(* The environment.  A store call or an RPC fails, or the process dies.    *)
(* Between the two rollbacks the stores are left apart for good: the       *)
(* cursor has moved, so that no later pass rolls the UTXOs back.           *)
(***************************************************************************)
Fail ==
    /\ pc \in FailPoints
    /\ failures < MaxFailures
    /\ failures' = failures + 1
    /\ tainted' = (tainted \/ pc = "rollback_utxos")
    /\ EndPass("failed")
    /\ UNCHANGED <<node, stores>>

PushBlock ==
    /\ \E c \in Chains : ExtendsByOne(c, chain) /\ chain' = c
    /\ UNCHANGED <<reorgs, stores, pc, locals, failures, tainted>>

(***************************************************************************)
(* What a pass has decided, or an unfinished pass has left behind, rests   *)
(* on the stored blocks: on those up to the ancestor once it is found.     *)
(***************************************************************************)
Leftovers == \E h \in DOMAIN blocks : h > synced_tip.height
Unsettled == pc \in Working \/ Leftovers

ReliedOn == IF pc = "rollback_blocks" THEN RollbackBlocksAbove(blocks, height) ELSE blocks

Reorg ==
    /\ pc \in ReorgPoints
    /\ reorgs < MaxReorgs
    /\ \E c \in Chains :
          /\ ~OnChain(chain, c)
          /\ ShorterTips \/ TipHeight(c) >= TipHeight(chain)
          /\ chain' = c
          /\ tainted' = (tainted \/ (Unsettled /\ ~OnChain(ReliedOn, c)))
    /\ reorgs' = reorgs + 1
    /\ UNCHANGED <<stores, pc, locals, failures>>

Next == EngineStep \/ Fail \/ PushBlock \/ Reorg

Spec == Init /\ [][Next]_vars

(***************************************************************************)
(* The application keeps calling sync, and a pass that is not failed goes  *)
(* on.  Nothing is assumed of the node.                                    *)
(***************************************************************************)
FairSpec == Spec /\ WF_vars(EngineStep)

-----------------------------------------------------------------------------
(***************************************************************************)
(* Every variable holds values of its kind.                                *)
(***************************************************************************)
CapturedUtxo == [wallet_id : Wallet, height : Nat, is_spent : BOOLEAN]
StoreEntry   == [utxo : CapturedUtxo, spent_height : Nat \cup {NoHeight}]

TypeOK ==
    /\ chain \in Chains
    /\ DOMAIN blocks \subseteq Nat /\ blocks \in [DOMAIN blocks -> Block]
    /\ synced_tip \in [height : Nat, hash : Block] \cup {NoTip}
    /\ DOMAIN utxos \subseteq OutPoint /\ utxos \in [DOMAIN utxos -> StoreEntry]
    /\ pc \in Idle \cup InPass
    /\ tip \in Nat /\ height \in Nat
    /\ spend_index \subseteq OutPoint
    /\ captured \subseteq {op \in OutPoint : Captures(op)}
    /\ spent \subseteq OutPoint
    /\ reorgs \in Nat /\ failures \in Nat /\ tainted \in BOOLEAN

(***************************************************************************)
(* However the node moves and wherever a pass is cut short, the stored     *)
(* blocks are the heights from genesis to some top without a gap, and the  *)
(* cursor never points above them: the walk back to a common ancestor      *)
(* always finds a stored hash to compare, and no height is skipped.        *)
(***************************************************************************)
CursorCovered ==
    /\ \E n \in DOMAIN blocks \cup {-1} : DOMAIN blocks = 0 .. n
    /\ 0 .. synced_tip.height \subseteq DOMAIN blocks

(***************************************************************************)
(* When sync has returned Ok, the UTXO store is exactly what the scanned   *)
(* blocks say (each watched output once, with its owner, the height it was *)
(* confirmed at, its spend and the height of the spend) and the cursor is  *)
(* the hash of the block stored there, provided no reorg crossed a pass in *)
(* flight or the blocks an unfinished pass had left, and no pass ended     *)
(* between the two rollbacks.                                              *)
(***************************************************************************)
ExactView ==
    pc = "idle" /\ ~tainted =>
        /\ utxos = ViewOf(blocks)
        /\ synced_tip # NoTip => blocks[synced_tip.height] = synced_tip.hash

(***************************************************************************)
(* If the node's tip stops falling below the cursor, the cursor reaches    *)
(* the node's tip and follows it, after any reorgs and failures, even      *)
(* those ExactView excludes.                                               *)
(***************************************************************************)
AtTip == synced_tip = [height |-> TipHeight(chain), hash |-> chain[TipHeight(chain)]]

CatchesUp == <>[](synced_tip.height <= TipHeight(chain)) => <>[]AtTip

(***************************************************************************)
(* The pipeline implements the ledger: the blocks applied so far are the   *)
(* stored ones but for the one whose captures are not written yet; the     *)
(* view is the UTXO store with the pending rollback or spends carried out. *)
(***************************************************************************)
AppliedBlocks ==
    IF pc = "upsert" THEN RollbackBlocksAbove(blocks, height - 1) ELSE blocks

AppliedView ==
    CASE pc = "rollback_utxos" -> RollbackUtxosAbove(utxos, height)
      [] pc = "mark" -> MarkSpentAt(utxos, spent, height)
      [] OTHER -> utxos

Ledger == INSTANCE UtxoLedger WITH ledger <- AppliedBlocks, view <- AppliedView

(***************************************************************************)
(* The environment under which nothing is left half done: a reorg finds    *)
(* the pass not yet past its search for the ancestor and leaves no lower   *)
(* tip; a pass fails before its first write or with both rollbacks done.   *)
(***************************************************************************)
QuietEnvironment ==
    /\ ReorgPoints \subseteq Idle \cup Deciding
    /\ FailPoints \subseteq Deciding \cup {"rollback_blocks", "index"}
    /\ ~ShorterTips

(***************************************************************************)
(* In a quiet environment every step of a pass is a step of the abstract   *)
(* ledger or leaves it unchanged: between any two calls on the stores the  *)
(* view is exactly what a prefix of some chain says.                       *)
(***************************************************************************)
ImplementsLedger == Ledger!Spec

-----------------------------------------------------------------------------
(***************************************************************************)
(* What the documentation says of the code and the code does not do.       *)
(*                                                                         *)
(* "The last block the pipeline has fully scanned and persisted [...]      *)
(* Block hash at that height (used for reorg detection)" (sync/mod.rs):    *)
(* the cursor's hash is the hash of the block stored and scanned there.    *)
(* sync asks the node for it again after the scan, when it may be the hash *)
(* of a block that replaced the scanned one, and no later pass notices.    *)
(***************************************************************************)
CursorIsScannedBlock ==
    pc = "idle" /\ synced_tip # NoTip => blocks[synced_tip.height] = synced_tip.hash

(***************************************************************************)
(* "Block height at which this output was confirmed" (sync/mod.rs): once a *)
(* pass has returned Ok, the block stored at an entry's height has the     *)
(* output.  A pass that ends between the two rollbacks has moved the       *)
(* cursor below the orphaned blocks but kept their captures.               *)
(***************************************************************************)
CapturesAreConfirmed ==
    pc = "idle" => \A op \in DOMAIN utxos :
        /\ utxos[op].utxo.height \in DOMAIN blocks
        /\ op \in Creates(blocks[utxos[op].utxo.height])

(***************************************************************************)
(* "Stored tip is ahead of the node [...]; clamp defensively"              *)
(* (sync/scan.rs): a node whose tip stays below the cursor is handled, the *)
(* pass succeeds and the cursor follows.  The hash comparison before the   *)
(* clamp asks the node for a height it does not have, and every pass ends  *)
(* in its error.  The clamp acts only when the node has grown past the     *)
(* cursor between the reading of the tip and the comparison.               *)
(***************************************************************************)
FollowsShorterNode == <>[]AtTip
=============================================================================
