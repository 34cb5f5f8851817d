-------------------------- MODULE BlockScanProofs --------------------------
(***************************************************************************)
(* Proofs about BlockScan.                                                 *)
(***************************************************************************)
EXTENDS BlockScanInvariant, IndexLemmas, TLAPS

-----------------------------------------------------------------------------
(***************************************************************************)
(* Facts about chains and about the operators on the stores.               *)
(***************************************************************************)

(***************************************************************************)
(* tip_height is the last height block_hash answers for, and a chain has   *)
(* a block at each height up to it.                                        *)
(***************************************************************************)
LEMMA ChainShape ==
    ASSUME NEW c \in Chains
    PROVE  /\ TipHeight(c) \in Nat
           /\ DOMAIN c = 0 .. TipHeight(c)
           /\ \A h \in DOMAIN c : c[h] \in Block
<1>1. PICK n \in DOMAIN c : n \in Nat /\ c \in [0 .. n -> Block]
  BY ChainsAssumption
<1>2. TipHeight(c) \in DOMAIN c /\ DOMAIN c = 0 .. TipHeight(c)
  BY <1>1 DEF TipHeight
<1> QED
  BY <1>1, <1>2

(***************************************************************************)
(* Equal hashes mean equal histories: a block at height h of two chains    *)
(* puts the same blocks below it.                                          *)
(***************************************************************************)
LEMMA SameHistory ==
    ASSUME NEW c \in Chains, NEW d \in Chains,
           NEW h \in DOMAIN c, h \in DOMAIN d, c[h] = d[h]
    PROVE  \A j \in 0 .. h : c[j] = d[j]
BY CommitmentAssumption

(***************************************************************************)
(* The highest of the heights up to h, h being one of them, is h.          *)
(***************************************************************************)
LEMMA MaxUpTo ==
    ASSUME NEW S, S \subseteq Nat, NEW h \in S
    PROVE  Max({k \in S : k <= h}) = h
<1> DEFINE K == {k \in S : k <= h}
<1>1. h \in K
  OBVIOUS
<1>2. K \subseteq Nat
  OBVIOUS
<1>3. \A y \in K : h >= y
  OBVIOUS
<1> QED
  BY <1>1, <1>2, <1>3 DEF Max

(***************************************************************************)
(* A captured output has an owner: the last registration watching its      *)
(* script, of which there is one since some registration watches it.       *)
(***************************************************************************)
LEMMA OwnerType ==
    ASSUME NEW op, Captures(op)
    PROVE  Owner(op) \in Wallet
<1>1. IndexedBy(Registrations, SpkOf[op])
  BY DEF Captures, CapturedBy
<1>2. EntryIn(Registrations, SpkOf[op]) \in Registration
  BY <1>1, EntryIsLast, RegistrationAssumption
<1> QED
  BY <1>2 DEF Owner, Registration

(***************************************************************************)
(* A rollback to a stored height leaves the cursor on a stored height not  *)
(* above it.                                                               *)
(***************************************************************************)
LEMMA CursorRollback ==
    ASSUME TypeOK, CursorCovered, height \in DOMAIN blocks
    PROVE  LET t == CursorAfterRollback(synced_tip, blocks, height, NoTip)
           IN  \/ synced_tip.height <= height /\ t = synced_tip
               \/ synced_tip.height > height /\ t = [height |-> height, hash |-> blocks[height]]
<1> DEFINE kept == {k \in DOMAIN blocks : k <= height}
<1>1. height \in Nat /\ height \in kept /\ Max(kept) = height
  BY MaxUpTo DEF TypeOK
<1>2. synced_tip.height \in Int
  BY DEF TypeOK, NoTip
<1> QED
  BY <1>1, <1>2 DEF CursorAfterRollback

(***************************************************************************)
(* Store operations keep the types of the stores.                          *)
(***************************************************************************)

-----------------------------------------------------------------------------
(***************************************************************************)
(* What holds whatever the node does and wherever a pass is cut short.     *)
(***************************************************************************)
Structure == TypeOK /\ CursorCovered /\ Positions

(***************************************************************************)
(* An empty pair of stores before the first pass satisfies Structure.      *)
(***************************************************************************)
LEMMA InitStructure == Init => Structure
<1> SUFFICES ASSUME Init PROVE Structure
  OBVIOUS
<1>1. TypeOK
  BY DEF Init, TypeOK, NoTip, Idle, NoHeight, StoreEntry, CapturedUtxo
<1>2. CursorCovered
  BY DEF Init, CursorCovered, NoTip
<1>3. Positions
  BY DEF Init, Positions
<1> QED
  BY <1>1, <1>2, <1>3 DEF Structure

(***************************************************************************)
(* Reading tip_height leaves the stores and the height alone.              *)
(***************************************************************************)
LEMMA StartPassStructure == Structure /\ StartPass => Structure'
<1> SUFFICES ASSUME Structure, StartPass PROVE Structure'
  OBVIOUS
<1>1. TypeOK'
  BY ChainShape DEF Structure, TypeOK, StartPass, node, stores, InPass, Deciding
<1>2. CursorCovered' /\ Positions'
  BY DEF Structure, CursorCovered, Positions, StartPass, node, stores
<1> QED
  BY <1>1, <1>2 DEF Structure

(***************************************************************************)
(* The start that the cursor gives: genesis, the cursor or one above it,   *)
(* with every height below it stored.                                      *)
(***************************************************************************)
LEMMA CheckCursorStructure == Structure /\ CheckCursor => Structure'
<1> SUFFICES ASSUME Structure, CheckCursor PROVE Structure'
  OBVIOUS
<1> USE DEF CheckCursor, node, stores, Structure
<1>1. TypeOK'
  BY DEF TypeOK, NoTip, EndPass, GoTo, Idle, InPass, Deciding, Working
<1>2. CursorCovered'
  BY DEF CursorCovered
<1>3. Positions'
  BY DEF TypeOK, NoTip, EndPass, GoTo, CursorCovered, Positions
<1> QED
  BY <1>1, <1>2, <1>3

(***************************************************************************)
(* The walk back of find_common_ancestor stays on stored heights.          *)
(***************************************************************************)
LEMMA FindAncestorStructure == Structure /\ FindAncestor => Structure'
<1> SUFFICES ASSUME Structure, FindAncestor PROVE Structure'
  OBVIOUS
<1> USE DEF FindAncestor, node, stores, Structure
<1>1. TypeOK'
  BY DEF TypeOK, EndPass, GoTo, Idle, InPass, Deciding, Working
<1>2. CursorCovered'
  BY DEF CursorCovered
<1>3. Positions'
  BY DEF TypeOK, EndPass, GoTo, CursorCovered, Positions
<1> QED
  BY <1>1, <1>2, <1>3

(***************************************************************************)
(* Rolling the block store back to a stored height leaves the heights      *)
(* from genesis to it, and the cursor on one of them.                      *)
(***************************************************************************)
LEMMA RollbackBlocksStructure == Structure /\ RollbackBlocks => Structure'
<1> SUFFICES ASSUME Structure, RollbackBlocks PROVE Structure'
  OBVIOUS
<1> USE DEF RollbackBlocks, node, GoTo
<1>1. /\ TypeOK /\ CursorCovered
      /\ height \in DOMAIN blocks /\ height' = height
      /\ height \in Nat
  BY DEF Structure, Positions, TypeOK
<1>2. \/ synced_tip.height <= height /\ synced_tip' = synced_tip
      \/ synced_tip.height > height /\ synced_tip' = [height |-> height, hash |-> blocks[height]]
  BY <1>1, CursorRollback
<1>3. blocks' = [k \in {j \in DOMAIN blocks : j <= height} |-> blocks[k]]
  BY DEF RollbackBlocksAbove, Restrict
<1>4. DOMAIN blocks' = 0 .. height
  BY <1>1, <1>3 DEF CursorCovered, TypeOK
<1>5. TypeOK'
  BY <1>1, <1>2, <1>3 DEF TypeOK, InPass, Working
<1>6. CursorCovered'
  <2>1. \E n \in DOMAIN blocks' \cup {-1} : DOMAIN blocks' = 0 .. n
    BY <1>1, <1>4
  <2>2. synced_tip'.height <= height
    BY <1>1, <1>2
  <2>3. synced_tip'.height \in Int
    BY <1>5 DEF TypeOK, NoTip
  <2> QED
    BY <1>1, <1>4, <2>1, <2>2, <2>3 DEF CursorCovered
<1>7. Positions'
  BY <1>1, <1>4 DEF Positions
<1> QED
  BY <1>5, <1>6, <1>7 DEF Structure

(***************************************************************************)
(* The rollback of the UTXO store touches neither blocks nor cursor; the   *)
(* height moves to the first one to scan, everything below being stored.   *)
(***************************************************************************)
LEMMA RollbackUtxosStructure == Structure /\ RollbackUtxos => Structure'
<1> SUFFICES ASSUME Structure, RollbackUtxos PROVE Structure'
  OBVIOUS
<1> USE DEF RollbackUtxos, node, GoTo, Structure
<1>1. DOMAIN utxos' \subseteq OutPoint /\ utxos' \in [DOMAIN utxos' -> StoreEntry]
  BY DEF TypeOK, RollbackUtxosAbove, StoreEntry, CapturedUtxo
<1>2. TypeOK'
  BY <1>1 DEF TypeOK, InPass, Working
<1>3. CursorCovered'
  BY DEF CursorCovered
<1>4. Positions'
  BY DEF TypeOK, CursorCovered, Positions
<1> QED
  BY <1>2, <1>3, <1>4

(***************************************************************************)
(* Clamping the start to one above the tip never skips a height that is    *)
(* not stored.                                                             *)
(***************************************************************************)
LEMMA LoadSpendIndexStructure == Structure /\ LoadSpendIndex => Structure'
<1> SUFFICES ASSUME Structure, LoadSpendIndex PROVE Structure'
  OBVIOUS
<1> USE DEF LoadSpendIndex, node, stores, Structure
<1>1. TypeOK'
  BY DEF TypeOK, InPass, Working, UnspentOutpoints
<1>2. CursorCovered'
  BY DEF CursorCovered
<1>3. Positions'
  BY DEF TypeOK, Positions
<1> QED
  BY <1>1, <1>2, <1>3

(***************************************************************************)
(* The outpoints of a block's transactions are outpoints.                  *)
(***************************************************************************)
LEMMA BlockOutPoints ==
    ASSUME NEW b \in Block
    PROVE  Creates(b) \subseteq OutPoint /\ Spends(b) \subseteq OutPoint
<1>1. Txs[b] \in Seq(Tx)
  BY BlockAssumption
<1>2. \A i \in DOMAIN Txs[b] : Txs[b][i] \in Tx
  BY <1>1
<1> QED
  BY <1>2 DEF Creates, Spends, Tx

(***************************************************************************)
(* store_block adds the next height or overwrites a stored one.            *)
(***************************************************************************)
LEMMA ScanBlockStructure == Structure /\ ScanBlock => Structure'
<1> SUFFICES ASSUME Structure, ScanBlock PROVE Structure'
  OBVIOUS
<1> USE DEF ScanBlock, node, Structure
<1>1. CASE height \notin DOMAIN chain
  <2>1. TypeOK'
    BY <1>1 DEF TypeOK, EndPass, Idle
  <2>2. CursorCovered' /\ Positions'
    BY <1>1 DEF CursorCovered, Positions, EndPass
  <2> QED
    BY <2>1, <2>2
<1>2. CASE height \in DOMAIN chain
  <2> DEFINE b == chain[height]
  <2>1. b \in Block /\ height \in Nat
    BY <1>2, ChainShape DEF TypeOK
  <2>2. DOMAIN blocks' = DOMAIN blocks \cup {height} /\ blocks' \in [DOMAIN blocks' -> Block]
    BY <1>2, <2>1 DEF StoreBlock, TypeOK
  <2>3. captured' \subseteq {op \in OutPoint : Captures(op)}
    BY <1>2, <2>1, BlockOutPoints DEF CapturedIn
  <2>4. spent' \subseteq OutPoint
    BY <1>2, <2>1, BlockOutPoints DEF SpentIn
  <2>5. spend_index' \subseteq OutPoint
    BY <1>2, <2>3 DEF TypeOK
  <2>6. TypeOK'
    BY <1>2, <2>1, <2>2, <2>3, <2>4, <2>5 DEF TypeOK, InPass, Working
  <2>7. CursorCovered'
    <3>1. PICK n \in DOMAIN blocks \cup {-1} : DOMAIN blocks = 0 .. n
      BY DEF CursorCovered
    <3>2. 0 .. height - 1 \subseteq 0 .. n /\ n \in Int
      BY <3>1 DEF Positions, TypeOK
    <3>3. DOMAIN blocks' = 0 .. n \/ DOMAIN blocks' = 0 .. height
      BY <2>1, <2>2, <3>1, <3>2
    <3> QED
      BY <1>2, <2>1, <2>2, <3>1, <3>3 DEF CursorCovered
  <2>8. Positions'
    BY <1>2, <2>2 DEF Positions
  <2> QED
    BY <2>6, <2>7, <2>8
<1> QED
  BY <1>1, <1>2

(***************************************************************************)
(* upsert_utxos adds entries of the captured outpoints only.               *)
(***************************************************************************)
LEMMA UpsertStructure == Structure /\ Upsert => Structure'
<1> SUFFICES ASSUME Structure, Upsert PROVE Structure'
  OBVIOUS
<1> USE DEF Upsert, node, GoTo, Structure
<1> DEFINE us == CapturedUtxos(height)
<1>1. DOMAIN us = captured /\ \A op \in captured : us[op] \in CapturedUtxo
  BY OwnerType DEF CapturedUtxos, CapturedUtxo, TypeOK
<1>2. DOMAIN utxos' \subseteq OutPoint /\ utxos' \in [DOMAIN utxos' -> StoreEntry]
  BY <1>1 DEF UpsertUtxos, TypeOK, StoreEntry
<1>3. TypeOK'
  BY <1>2 DEF TypeOK, InPass, Working
<1>4. CursorCovered' /\ Positions'
  BY DEF CursorCovered, Positions
<1> QED
  BY <1>3, <1>4

(***************************************************************************)
(* mark_spent changes entries in place; every height below the next one    *)
(* is stored.                                                              *)
(***************************************************************************)
LEMMA MarkSpentStructure == Structure /\ MarkSpent => Structure'
<1> SUFFICES ASSUME Structure, MarkSpent PROVE Structure'
  OBVIOUS
<1> USE DEF MarkSpent, node, Structure
<1>1. DOMAIN utxos' \subseteq OutPoint /\ utxos' \in [DOMAIN utxos' -> StoreEntry]
  BY DEF MarkSpentAt, TypeOK, StoreEntry, CapturedUtxo
<1>2. TypeOK'
  BY <1>1 DEF TypeOK, InPass, Working
<1>3. CursorCovered'
  BY DEF CursorCovered
<1>4. Positions'
  BY DEF TypeOK, CursorCovered, Positions
<1> QED
  BY <1>2, <1>3, <1>4

(***************************************************************************)
(* The cursor is set to the tip of the pass, up to which all is scanned.   *)
(***************************************************************************)
LEMMA SetCursorStructure == Structure /\ SetCursor => Structure'
<1> SUFFICES ASSUME Structure, SetCursor PROVE Structure'
  OBVIOUS
<1> USE DEF SetCursor, node, EndPass, Structure
<1>1. synced_tip' \in [height : Nat, hash : Block] \cup {NoTip}
  BY ChainShape DEF TypeOK
<1>2. TypeOK'
  BY <1>1 DEF TypeOK, Idle
<1>3. CursorCovered'
  BY DEF CursorCovered, Positions, TypeOK
<1>4. Positions'
  BY DEF Positions
<1> QED
  BY <1>2, <1>3, <1>4

(***************************************************************************)
(* A failure, a new block and a reorg leave the stores as they are.        *)
(***************************************************************************)
LEMMA EnvironmentStructure ==
    Structure /\ (Fail \/ PushBlock \/ Reorg \/ UNCHANGED vars) => Structure'
<1> SUFFICES ASSUME Structure, Fail \/ PushBlock \/ Reorg \/ UNCHANGED vars
             PROVE  Structure'
  OBVIOUS
<1> USE DEF Structure, node, stores, locals
<1>1. CASE Fail
  <2>1. TypeOK'
    BY <1>1 DEF Fail, EndPass, TypeOK, Idle
  <2>2. CursorCovered' /\ Positions'
    BY <1>1 DEF Fail, EndPass, CursorCovered, Positions
  <2> QED
    BY <2>1, <2>2
<1>2. CASE PushBlock
  <2>1. TypeOK'
    BY <1>2 DEF PushBlock, TypeOK
  <2>2. CursorCovered' /\ Positions'
    BY <1>2 DEF PushBlock, CursorCovered, Positions
  <2> QED
    BY <2>1, <2>2
<1>3. CASE Reorg
  <2>1. TypeOK'
    BY <1>3 DEF Reorg, TypeOK
  <2>2. CursorCovered' /\ Positions'
    BY <1>3 DEF Reorg, CursorCovered, Positions
  <2> QED
    BY <2>1, <2>2
<1>4. CASE UNCHANGED vars
  <2>1. TypeOK'
    BY <1>4 DEF vars, TypeOK
  <2>2. CursorCovered' /\ Positions'
    BY <1>4 DEF vars, CursorCovered, Positions
  <2> QED
    BY <2>1, <2>2
<1> QED
  BY <1>1, <1>2, <1>3, <1>4

(***************************************************************************)
(* Every step of the engine and of its environment keeps Structure.        *)
(***************************************************************************)
THEOREM StructureInvariant == Spec => []Structure
<1>1. Structure /\ [Next]_vars => Structure'
  BY StartPassStructure, CheckCursorStructure, FindAncestorStructure,
     RollbackBlocksStructure, RollbackUtxosStructure, LoadSpendIndexStructure,
     ScanBlockStructure, UpsertStructure, MarkSpentStructure, SetCursorStructure,
     EnvironmentStructure
  DEF Next, EngineStep
<1> QED
  BY InitStructure, <1>1, PTL DEF Spec

(***************************************************************************)
(* The variables keep their types in every behaviour.                      *)
(***************************************************************************)
THEOREM TypeCorrect == Spec => []TypeOK
BY StructureInvariant, PTL DEF Structure

(***************************************************************************)
(* In every behaviour, disturbed or not, the stored blocks are the heights *)
(* from genesis without a gap and the cursor is one of them.               *)
(***************************************************************************)
THEOREM CursorIsCovered == Spec => []CursorCovered
BY StructureInvariant, PTL DEF Structure

-----------------------------------------------------------------------------
(***************************************************************************)
(* Blocks of one chain: an output is in one of them at most, as an output  *)
(* or as an input, and is not spent below the block that creates it.       *)
(***************************************************************************)
LEMMA OneBirth ==
    ASSUME NEW l, \E c \in Chains : OnChain(l, c),
           NEW h \in DOMAIN l, NEW k \in DOMAIN l,
           NEW op, op \in Creates(l[h]), op \in Creates(l[k])
    PROVE  h = k
BY ConsensusAssumption DEF OnChain

(***************************************************************************)
(* An outpoint is an input of one block of a chain at most.                *)
(***************************************************************************)
LEMMA OneSpend ==
    ASSUME NEW l, \E c \in Chains : OnChain(l, c),
           NEW h \in DOMAIN l, NEW k \in DOMAIN l,
           NEW op, op \in Spends(l[h]), op \in Spends(l[k])
    PROVE  h = k
BY ConsensusAssumption DEF OnChain

(***************************************************************************)
(* No block of a chain spends an output that a later one creates.          *)
(***************************************************************************)
LEMMA BirthBeforeSpend ==
    ASSUME NEW l, \E c \in Chains : OnChain(l, c),
           NEW h \in DOMAIN l, NEW k \in DOMAIN l,
           NEW op, op \in Creates(l[h]), op \in Spends(l[k])
    PROVE  ~ (k < h)
BY ConsensusAssumption DEF OnChain

(***************************************************************************)
(* The steps that leave the stores alone keep the entries sound; only what *)
(* counts as applied and where the pass is have to be looked at.           *)
(***************************************************************************)
LEMMA InitUndisturbed == Init => Undisturbed
<1> SUFFICES ASSUME Init PROVE Undisturbed
  OBVIOUS
<1>1. DOMAIN blocks = {} /\ DOMAIN utxos = {} /\ pc = "idle" /\ synced_tip = NoTip
  BY DEF Init
<1>2. Lineage
  BY <1>1, ChainsAssumption DEF Lineage, OnChain, Unsettled, Leftovers, Working
<1>3. Sound
  BY <1>1 DEF Sound, Entries
<1>4. Complete
  BY <1>1 DEF Complete, Applied, NoTip
<1>5. Watchful
  BY <1>1 DEF Watchful, Init
<1> QED
  BY <1>2, <1>3, <1>4, <1>5 DEF Undisturbed

(***************************************************************************)
(* A pass that begins on leftovers of an earlier one finds them on the     *)
(* chain of the node, below the tip it reads.                              *)
(***************************************************************************)
LEMMA StartPassUndisturbed ==
    ASSUME Structure, Undisturbed, StartPass
    PROVE  Undisturbed'
<1> USE DEF Undisturbed, StartPass, node, stores
<1>1. Lineage'
  <2>1. Unsettled' = Leftovers /\ Leftovers' = Leftovers
    BY DEF Unsettled, Leftovers, Working
  <2>2. Leftovers => OnChain(blocks, chain)
    BY DEF Lineage, Unsettled, ReliedOn, Idle
  <2>3. ReliedOn' = blocks
    BY DEF ReliedOn
  <2>4. Leftovers => DOMAIN blocks \subseteq 0 .. tip'
    BY <2>2, ChainShape DEF OnChain, Structure, TypeOK
  <2> QED
    BY <2>1, <2>2, <2>3, <2>4 DEF Lineage
<1>2. Sound'
  BY DEF Sound, Entries, Idle
<1>3. Complete'
  <2>1. Applied' = 0 .. synced_tip.height /\ Applied' \subseteq Applied
    BY DEF Applied, Idle, Complete
  <2> QED
    BY <2>1 DEF Complete, Entries, Idle
<1>4. Watchful'
  BY DEF Watchful, Idle
<1> QED
  BY <1>1, <1>2, <1>3, <1>4

(***************************************************************************)
(* A node that has the block stored at a height has all that is stored     *)
(* below; with no block above the cursor, that is all up to the cursor.    *)
(***************************************************************************)
LEMMA MatchMeansOnChain ==
    ASSUME Structure, \E c \in Chains : OnChain(blocks, c),
           NEW h \in DOMAIN blocks, h \in DOMAIN chain, chain[h] = blocks[h]
    PROVE  OnChain(RollbackBlocksAbove(blocks, h), chain)
<1>1. PICK c \in Chains : OnChain(blocks, c)
  OBVIOUS
<1>2. chain \in Chains /\ DOMAIN blocks \subseteq Nat
  BY DEF Structure, TypeOK
<1>3. h \in DOMAIN c /\ c[h] = chain[h]
  BY <1>1 DEF OnChain
<1>4. \A j \in 0 .. h : c[j] = chain[j]
  BY <1>2, <1>3, SameHistory
<1>5. \A j \in 0 .. h : j \in DOMAIN chain
  BY <1>2, ChainShape
<1> QED
  BY <1>1, <1>2, <1>4, <1>5 DEF OnChain, RollbackBlocksAbove, Restrict

(***************************************************************************)
(* Without blocks above the cursor the stored heights end at the cursor.   *)
(***************************************************************************)
LEMMA NoLeftovers ==
    ASSUME Structure, ~Leftovers
    PROVE  DOMAIN blocks = 0 .. synced_tip.height
<1>1. PICK n \in DOMAIN blocks \cup {-1} : DOMAIN blocks = 0 .. n
  BY DEF Structure, CursorCovered
<1>2. n \in Int /\ n >= -1
  BY <1>1
<1>3. synced_tip.height \in Int /\ synced_tip.height >= -1
  BY DEF Structure, TypeOK, NoTip
<1>4. synced_tip.height <= n
  BY <1>1, <1>2, <1>3 DEF Structure, CursorCovered
<1>5. n <= synced_tip.height
  BY <1>1, <1>2, <1>3 DEF Leftovers
<1> QED
  BY <1>1, <1>2, <1>3, <1>4, <1>5

(***************************************************************************)
(* If the node has the block of the cursor,                                *)
(* the stored ones are on its chain.                                       *)
(***************************************************************************)
LEMMA CheckCursorUndisturbed ==
    ASSUME Structure, Undisturbed, CheckCursor
    PROVE  Undisturbed'
<1> USE DEF Undisturbed, CheckCursor, node, stores
<1>1. /\ synced_tip.height \in Int /\ DOMAIN blocks \subseteq Nat
      /\ 0 .. synced_tip.height \subseteq DOMAIN blocks
      /\ synced_tip # NoTip => synced_tip.height \in DOMAIN blocks
  BY DEF Structure, TypeOK, NoTip, CursorCovered
<1>2. ~Leftovers => DOMAIN blocks = 0 .. synced_tip.height
  BY NoLeftovers
<1>3. /\ Leftovers' = Leftovers /\ Entries' = Entries /\ Entries = utxos
      /\ Leftovers => OnChain(blocks, chain) /\ DOMAIN blocks \subseteq 0 .. tip
      /\ Applied = 0 .. synced_tip.height /\ spent = {} /\ ReliedOn = blocks
  BY DEF Leftovers, Entries, EndPass, GoTo, Lineage, Unsettled, ReliedOn, Applied, Watchful
<1>4. Sound'
  BY <1>3 DEF Sound
<1>5. CASE synced_tip = NoTip
  <2>1. pc' = "index" /\ height' = 0 /\ tip' = tip /\ spent' = {}
    BY <1>3, <1>5 DEF GoTo
  <2>2. DOMAIN blocks = {} \/ Leftovers
    BY <1>2, <1>5 DEF NoTip
  <2>3. Lineage'
    BY <1>3, <2>1, <2>2 DEF Lineage, OnChain, ReliedOn
  <2>4. Applied' = {}
    BY <1>3, <2>1, <2>2 DEF Applied
  <2>5. Complete'
    BY <1>5, <2>4 DEF Complete, NoTip
  <2> QED
    BY <1>4, <2>1, <2>3, <2>5 DEF Watchful
<1>6. CASE synced_tip # NoTip /\ synced_tip.height \notin DOMAIN chain
  <2>1. pc' = "failed" /\ spent' = {}
    BY <1>6 DEF EndPass
  <2>2. Lineage'
    BY <1>3, <2>1 DEF Lineage, Unsettled, ReliedOn, Working
  <2>3. Complete'
    BY <1>3, <2>1 DEF Complete, Applied
  <2> QED
    BY <1>4, <2>1, <2>2, <2>3 DEF Watchful
<1>7. CASE /\ synced_tip # NoTip /\ synced_tip.height \in DOMAIN chain
           /\ chain[synced_tip.height] = synced_tip.hash
  <2>1. pc' = "index" /\ height' = synced_tip.height + 1 /\ tip' = tip /\ spent' = {}
    BY <1>3, <1>7 DEF GoTo
  <2>2. blocks[synced_tip.height] = chain[synced_tip.height]
    BY <1>7 DEF Lineage
  <2>3. OnChain(blocks, chain)
    <3>1. CASE Leftovers
      BY <1>3, <3>1
    <3>2. CASE ~Leftovers
      <4>1. OnChain(RollbackBlocksAbove(blocks, synced_tip.height), chain)
        BY <1>1, <1>7, <2>2, MatchMeansOnChain DEF Lineage
      <4>2. \A k \in DOMAIN blocks : k <= synced_tip.height
        BY <1>1, <1>2, <3>2
      <4> QED
        BY <4>1, <4>2 DEF OnChain, RollbackBlocksAbove, Restrict
    <3> QED
      BY <3>1, <3>2
  <2>4. DOMAIN blocks = 0 .. height' - 1 \/ DOMAIN blocks \subseteq 0 .. tip
    BY <1>1, <1>2, <1>3, <2>1
  <2>5. Lineage'
    BY <2>1, <2>3, <2>4 DEF Lineage, ReliedOn
  <2>6. Applied' = 0 .. synced_tip.height
    BY <1>1, <1>2, <1>3, <2>1 DEF Applied
  <2>7. Complete'
    BY <1>3, <2>6 DEF Complete
  <2> QED
    BY <1>4, <2>1, <2>5, <2>7 DEF Watchful
<1>8. CASE /\ synced_tip # NoTip /\ synced_tip.height \in DOMAIN chain
           /\ chain[synced_tip.height] # synced_tip.hash
  <2>1. pc' = "ancestor" /\ spent' = {}
    BY <1>3, <1>8 DEF GoTo
  <2>2. ~OnChain(blocks, chain)
    BY <1>1, <1>8 DEF Lineage, OnChain
  <2>3. Lineage'
    BY <1>3, <1>8, <2>1, <2>2 DEF Lineage, Unsettled, Working
  <2>4. Complete'
    BY <1>3, <2>1 DEF Complete, Applied
  <2> QED
    BY <1>4, <2>1, <2>3, <2>4 DEF Watchful
<1> QED
  BY <1>5, <1>6, <1>7, <1>8

(***************************************************************************)
(* The height at which the walk back stops is a common ancestor.           *)
(***************************************************************************)
LEMMA FindAncestorUndisturbed ==
    ASSUME Structure, Undisturbed, FindAncestor
    PROVE  Undisturbed'
<1> USE DEF Undisturbed, FindAncestor, node, stores
<1>1. /\ ~Leftovers' /\ Entries' = Entries /\ Entries = utxos
      /\ Applied = 0 .. synced_tip.height /\ spent = {} /\ synced_tip # NoTip
  BY DEF Leftovers, Entries, EndPass, GoTo, Lineage, Applied, Watchful
<1>2. /\ height \in DOMAIN blocks /\ height \in Nat /\ chain \in Chains
      /\ DOMAIN blocks \subseteq Nat
  BY DEF Structure, Positions, TypeOK
<1>3. /\ Applied' = Applied /\ spent' = {} /\ pc' \in {"failed", "ancestor", "rollback_blocks"}
  BY <1>1 DEF Applied, EndPass, GoTo
<1>4. pc' = "rollback_blocks" => OnChain(ReliedOn', chain)
  <2> SUFFICES ASSUME pc' = "rollback_blocks" PROVE OnChain(ReliedOn', chain)
    OBVIOUS
  <2>1. /\ height' = height /\ height \in DOMAIN chain
        /\ blocks[height] = chain[height] \/ height = 0
    BY <1>2 DEF EndPass, GoTo
  <2>2. blocks[height] = chain[height]
    <3>1. PICK c \in Chains : OnChain(blocks, c)
      BY DEF Lineage
    <3>2. c[0] = chain[0]
      BY <1>2, CommitmentAssumption
    <3> QED
      BY <1>2, <2>1, <3>1, <3>2 DEF OnChain
  <2>3. OnChain(RollbackBlocksAbove(blocks, height), chain)
    BY <1>2, <2>1, <2>2, MatchMeansOnChain DEF Lineage
  <2> QED
    BY <2>1, <2>3 DEF ReliedOn
<1>5. Lineage'
  BY <1>1, <1>3, <1>4 DEF Lineage, Unsettled, Working
<1>6. Complete'
  BY <1>1, <1>3 DEF Complete
<1> QED
  BY <1>1, <1>3, <1>5, <1>6 DEF Sound, Watchful

(***************************************************************************)
(* The rollback of the blocks already decides what the rollback of the     *)
(* UTXOs has to leave, which is what Entries stands for between the two.   *)
(***************************************************************************)
LEMMA RollbackBlocksUndisturbed ==
    ASSUME Structure, Undisturbed, RollbackBlocks
    PROVE  Undisturbed'
<1> DEFINE rolled == RollbackUtxosAbove(utxos, height)
<1>1. /\ height \in DOMAIN blocks /\ height \in Nat /\ DOMAIN blocks \subseteq Nat
      /\ pc' = "rollback_utxos" /\ height' = height /\ chain' = chain /\ utxos' = utxos
      /\ spent' = spent /\ spent = {}
  BY DEF Structure, Positions, TypeOK, RollbackBlocks, GoTo, node, Undisturbed, Watchful
<1>2. /\ DOMAIN blocks' = {k \in DOMAIN blocks : k <= height}
      /\ \A k \in DOMAIN blocks' : blocks'[k] = blocks[k]
      /\ blocks' = RollbackBlocksAbove(blocks, height)
  BY DEF RollbackBlocks, RollbackBlocksAbove, Restrict
<1>3. DOMAIN blocks' = 0 .. height
  <2>1. PICK n \in DOMAIN blocks \cup {-1} : DOMAIN blocks = 0 .. n
    BY DEF Structure, CursorCovered
  <2> QED
    BY <1>1, <1>2, <2>1
<1>4. \/ synced_tip.height <= height /\ synced_tip' = synced_tip
      \/ synced_tip.height > height /\ synced_tip' = [height |-> height, hash |-> blocks[height]]
  BY <1>1, CursorRollback DEF RollbackBlocks, Structure
<1>5. synced_tip.height \in Int /\ synced_tip'.height \in Int /\ synced_tip'.height <= height
  BY <1>1, <1>4 DEF Structure, TypeOK, NoTip
<1>6. /\ Entries = utxos /\ Entries' = rolled
      /\ DOMAIN rolled = {op \in DOMAIN utxos : utxos[op].utxo.height <= height}
  BY <1>1 DEF RollbackBlocks, Entries, RollbackUtxosAbove
<1>7. Applied = 0 .. synced_tip.height /\ Applied' = 0 .. height /\ DOMAIN blocks = Applied
  BY <1>1, NoLeftovers DEF RollbackBlocks, Applied, Undisturbed, Lineage
<1>8. Lineage'
  <2>1. OnChain(blocks', chain)
    BY <1>1, <1>2 DEF Undisturbed, Lineage, RollbackBlocks, Unsettled, ReliedOn, Working
  <2>2. \E c \in Chains : OnChain(blocks', c)
    BY <2>1 DEF Structure, TypeOK
  <2>3. synced_tip' # NoTip => blocks'[synced_tip'.height] = synced_tip'.hash
    <3>1. CASE synced_tip' = synced_tip
      <4>1. synced_tip' # NoTip => synced_tip.height \in DOMAIN blocks'
        BY <1>3, <1>5, <3>1 DEF Structure, TypeOK, NoTip
      <4> QED
        BY <1>2, <3>1, <4>1 DEF Undisturbed, Lineage
    <3>2. CASE synced_tip' = [height |-> height, hash |-> blocks[height]]
      BY <1>1, <1>2, <1>3, <3>2
    <3> QED
      BY <1>4, <3>1, <3>2
  <2> QED
    BY <1>1, <1>3, <2>1, <2>2, <2>3 DEF Lineage, ReliedOn
<1>9. Sound'
  <2> SUFFICES ASSUME NEW op \in DOMAIN rolled
               PROVE  LET e == rolled[op]
                      IN  /\ Captures(op)
                          /\ e.utxo.wallet_id = Owner(op)
                          /\ e.utxo.height \in DOMAIN blocks'
                          /\ op \in Creates(blocks'[e.utxo.height])
                          /\ e.utxo.is_spent => e.spent_height # NoHeight
                          /\ e.spent_height # NoHeight =>
                                /\ e.spent_height \in DOMAIN blocks'
                                /\ op \in Spends(blocks'[e.spent_height])
    BY <1>6 DEF Sound
  <2> DEFINE e == utxos[op]
  <2>1. /\ op \in DOMAIN utxos /\ e.utxo.height <= height
        /\ e \in StoreEntry
    BY <1>6 DEF Structure, TypeOK
  <2>2. /\ Captures(op)
        /\ e.utxo.wallet_id = Owner(op)
        /\ e.utxo.height \in DOMAIN blocks
        /\ op \in Creates(blocks[e.utxo.height])
        /\ e.utxo.is_spent => e.spent_height # NoHeight
        /\ e.spent_height # NoHeight =>
              e.spent_height \in DOMAIN blocks /\ op \in Spends(blocks[e.spent_height])
    BY <1>6, <2>1 DEF Undisturbed, Sound
  <2>3. CASE e.spent_height > height
    <3>1. rolled[op] = [e EXCEPT !.utxo.is_spent = FALSE, !.spent_height = NoHeight]
      BY <1>6, <2>1, <2>3 DEF RollbackUtxosAbove
    <3>2. /\ rolled[op].utxo.wallet_id = e.utxo.wallet_id
          /\ rolled[op].utxo.height = e.utxo.height
          /\ rolled[op].utxo.is_spent = FALSE
          /\ rolled[op].spent_height = NoHeight
      BY <2>1, <3>1 DEF StoreEntry, CapturedUtxo
    <3> QED
      BY <1>2, <2>1, <2>2, <3>2
  <2>4. CASE ~(e.spent_height > height)
    <3>1. rolled[op] = e
      BY <1>6, <2>1, <2>4 DEF RollbackUtxosAbove
    <3>2. e.spent_height \in Int /\ e.spent_height <= height
      BY <1>1, <2>1, <2>4 DEF StoreEntry, NoHeight
    <3> QED
      BY <1>2, <2>1, <2>2, <3>1, <3>2
  <2> QED
    BY <2>3, <2>4
<1>10. Complete'
  <2>1. 0 .. synced_tip'.height \subseteq Applied'
    BY <1>1, <1>5, <1>7
  <2>2. ASSUME NEW h \in 0 .. height
        PROVE  h \in Applied /\ h \in DOMAIN blocks /\ blocks'[h] = blocks[h] /\ h <= height
    BY <1>1, <1>2, <1>3, <1>7
  <2>3. ASSUME NEW h \in 0 .. height, NEW op \in Creates(blocks'[h]), Captures(op)
        PROVE  op \in DOMAIN rolled
    <3>1. op \in DOMAIN utxos
      BY <1>6, <2>2, <2>3 DEF Undisturbed, Complete
    <3>2. utxos[op].utxo.height \in DOMAIN blocks /\ op \in Creates(blocks[utxos[op].utxo.height])
      BY <1>6, <3>1 DEF Undisturbed, Sound
    <3>3. utxos[op].utxo.height = h
      BY <2>2, <2>3, <3>2, OneBirth DEF Undisturbed, Lineage
    <3> QED
      BY <1>6, <2>2, <3>1, <3>3
  <2>4. ASSUME NEW h \in 0 .. height, NEW op \in Spends(blocks'[h]), op \in DOMAIN rolled
        PROVE  rolled[op].utxo.is_spent
    <3>1. op \in DOMAIN utxos /\ utxos[op].utxo.is_spent
      BY <1>6, <2>2, <2>4 DEF Undisturbed, Complete
    <3>2. /\ utxos[op].spent_height \in DOMAIN blocks
          /\ op \in Spends(blocks[utxos[op].spent_height])
      BY <1>6, <3>1 DEF Undisturbed, Sound
    <3>3. utxos[op].spent_height = h
      BY <2>2, <2>4, <3>2, OneSpend DEF Undisturbed, Lineage
    <3>4. ~(utxos[op].spent_height > height)
      BY <1>1, <2>2, <3>3
    <3> QED
      BY <1>6, <2>4, <3>1, <3>4 DEF RollbackUtxosAbove
  <2> QED
    BY <1>6, <1>7, <2>1, <2>3, <2>4 DEF Complete
<1>11. Watchful'
  BY <1>1 DEF Watchful
<1> QED
  BY <1>8, <1>9, <1>10, <1>11 DEF Undisturbed

(***************************************************************************)
(* The second rollback writes what Entries already stood for.              *)
(***************************************************************************)
LEMMA RollbackUtxosUndisturbed ==
    ASSUME Structure, Undisturbed, RollbackUtxos
    PROVE  Undisturbed'
<1>1. /\ height \in Nat /\ pc = "rollback_utxos" /\ pc' = "index" /\ height' = height + 1
      /\ tip' = tip /\ chain' = chain /\ blocks' = blocks /\ synced_tip' = synced_tip
      /\ spent' = spent /\ spent = {}
  BY DEF RollbackUtxos, Structure, TypeOK, GoTo, node, Undisturbed, Watchful
<1>2. Entries' = Entries
  BY <1>1 DEF RollbackUtxos, Entries
<1>3. DOMAIN blocks = 0 .. height
  BY <1>1 DEF Undisturbed, Lineage
<1>4. Applied = 0 .. height /\ Applied' = 0 .. height
  BY <1>1, <1>3 DEF Applied
<1>5. Lineage'
  <2>1. OnChain(blocks, chain)
    BY <1>1 DEF Undisturbed, Lineage, Unsettled, ReliedOn, Working
  <2> QED
    BY <1>1, <1>3, <2>1 DEF Undisturbed, Lineage, ReliedOn
<1>6. Sound'
  BY <1>1, <1>2 DEF Undisturbed, Sound
<1>7. Complete'
  BY <1>1, <1>2, <1>4 DEF Undisturbed, Complete
<1>8. Watchful'
  BY <1>1 DEF Watchful
<1> QED
  BY <1>5, <1>6, <1>7, <1>8 DEF Undisturbed

(***************************************************************************)
(* The unspent entries of the store become the spends to look for.         *)
(***************************************************************************)
LEMMA LoadSpendIndexUndisturbed ==
    ASSUME Structure, Undisturbed, LoadSpendIndex
    PROVE  Undisturbed'
<1>1. /\ height \in Nat /\ tip \in Nat /\ pc = "index" /\ pc' = "scan"
      /\ height' = IF height > tip + 1 THEN tip + 1 ELSE height
      /\ spend_index' = UnspentOutpoints(utxos) /\ spent' = spent /\ spent = {}
      /\ UNCHANGED <<tip, chain, blocks, synced_tip, utxos>>
  BY DEF LoadSpendIndex, Structure, TypeOK, node, stores, Undisturbed, Watchful
<1>2. 0 .. height - 1 \subseteq DOMAIN blocks
  BY <1>1 DEF Structure, Positions
<1>3. DOMAIN blocks \subseteq 0 .. tip => height' = height
  BY <1>1, <1>2
<1>4. Applied' = Applied
  BY <1>1, <1>3 DEF Applied
<1>5. Entries' = Entries
  BY <1>1 DEF Entries
<1>6. Lineage'
  <2>1. OnChain(blocks, chain)
    BY <1>1 DEF Undisturbed, Lineage, Unsettled, ReliedOn, Working
  <2>2. height' <= tip => DOMAIN blocks \subseteq 0 .. tip
    BY <1>1 DEF Undisturbed, Lineage
  <2> QED
    BY <1>1, <2>1, <2>2 DEF Undisturbed, Lineage, ReliedOn
<1>7. Sound'
  BY <1>1, <1>5 DEF Undisturbed, Sound
<1>8. Complete'
  BY <1>1, <1>4, <1>5 DEF Undisturbed, Complete
<1>9. Watchful'
  BY <1>1 DEF Watchful
<1> QED
  BY <1>6, <1>7, <1>8, <1>9 DEF Undisturbed

(***************************************************************************)
(* A pass that ends without having touched the stores leaves applied what  *)
(* is up to the cursor.                                                    *)
(***************************************************************************)
LEMMA FailedPassUndisturbed ==
    ASSUME Structure, Undisturbed, pc # "rollback_utxos",
           EndPass("failed"), UNCHANGED <<chain, blocks, synced_tip, utxos>>
    PROVE  Undisturbed'
<1>1. pc' = "failed" /\ spent' = {}
  BY DEF EndPass
<1>2. Entries' = Entries
  BY <1>1 DEF Entries
<1>3. Applied' = 0 .. synced_tip.height /\ Applied' \subseteq Applied
  BY <1>1 DEF Applied, Undisturbed, Complete
<1>4. Lineage'
  <2>1. Leftovers' = Leftovers /\ Unsettled' = Leftovers /\ ReliedOn' = blocks
    BY <1>1 DEF Leftovers, Unsettled, ReliedOn, Working
  <2>2. Leftovers => OnChain(blocks, chain)
    BY DEF Undisturbed, Lineage, Unsettled, ReliedOn
  <2> QED
    BY <1>1, <2>1, <2>2 DEF Undisturbed, Lineage
<1>5. Sound'
  BY <1>2 DEF Undisturbed, Sound
<1>6. Complete'
  BY <1>2, <1>3 DEF Undisturbed, Complete
<1>7. Watchful'
  BY <1>1 DEF Watchful
<1> QED
  BY <1>4, <1>5, <1>6, <1>7 DEF Undisturbed

(***************************************************************************)
(* An input of a block that spends an output the block captures comes in a *)
(* later transaction, so the engine sees it.                               *)
(***************************************************************************)
LEMMA BlockSpendsSeen ==
    ASSUME NEW b \in Block, NEW idx
    PROVE  /\ CapturedIn(b) \cap Spends(b) \subseteq SpentIn(b, idx)
           /\ idx \cap Spends(b) \subseteq SpentIn(b, idx)
           /\ SpentIn(b, idx) \subseteq Spends(b)
<1>1. ASSUME NEW op \in CapturedIn(b), op \in Spends(b)
      PROVE  op \in SpentIn(b, idx)
  <2>1. PICK i \in DOMAIN Txs[b] : op \in Txs[b][i].ins
    BY <1>1 DEF Spends
  <2>2. PICK j \in DOMAIN Txs[b] : op \in Txs[b][j].outs
    BY <1>1 DEF CapturedIn, Creates
  <2>3. DOMAIN Txs[b] = 1 .. Len(Txs[b]) /\ Len(Txs[b]) \in Nat
    BY BlockAssumption
  <2>4. ~(i <= j)
    BY <2>1, <2>2, BlockOrderAssumption
  <2>5. j \in 1 .. i - 1
    BY <2>3, <2>4
  <2> QED
    BY <1>1, <2>1, <2>2, <2>5 DEF SpentIn, CapturedIn
<1>2. ASSUME NEW op \in idx, op \in Spends(b)
      PROVE  op \in SpentIn(b, idx)
  <2>1. PICK i \in DOMAIN Txs[b] : op \in Txs[b][i].ins
    BY <1>2 DEF Spends
  <2> QED
    BY <1>2, <2>1 DEF SpentIn
<1>3. SpentIn(b, idx) \subseteq Spends(b)
  BY DEF SpentIn
<1> QED
  BY <1>1, <1>2, <1>3

(***************************************************************************)
(* A scanned block finds every spend of a known output, also of one that   *)
(* the block itself captures.                                              *)
(***************************************************************************)
LEMMA ScanBlockUndisturbed ==
    ASSUME Structure, Undisturbed, ScanBlock
    PROVE  Undisturbed'
<1>1. CASE height \notin DOMAIN chain
  BY <1>1, FailedPassUndisturbed DEF ScanBlock, node
<1>2. CASE height \in DOMAIN chain
  <2> DEFINE b == chain[height]
  <2>1. /\ height \in Nat /\ tip \in Nat /\ height <= tip /\ pc = "scan" /\ pc' = "upsert"
        /\ blocks' = StoreBlock(blocks, height, b)
        /\ captured' = CapturedIn(b)
        /\ spent' = SpentIn(b, spend_index)
        /\ spend_index' = (spend_index \cup captured') \ spent'
        /\ UNCHANGED <<tip, height, chain, synced_tip, utxos>>
    BY <1>2 DEF ScanBlock, Structure, TypeOK, node
  <2>2. b \in Block /\ chain \in Chains /\ DOMAIN blocks \subseteq Nat
    BY <1>2, ChainShape DEF Structure, TypeOK
  <2>3. OnChain(blocks, chain) /\ DOMAIN blocks \subseteq 0 .. tip
    BY <2>1 DEF Undisturbed, Lineage, Unsettled, ReliedOn, Working
  <2>4. /\ DOMAIN blocks' = DOMAIN blocks \cup {height} /\ blocks'[height] = b
        /\ \A k \in DOMAIN blocks : blocks'[k] = blocks[k]
    BY <2>1, <2>3 DEF StoreBlock, OnChain
  <2>5. OnChain(blocks', chain)
    BY <1>2, <2>3, <2>4 DEF OnChain
  <2>6. DOMAIN blocks' \subseteq 0 .. tip
    BY <2>1, <2>3, <2>4
  <2>7. Applied = 0 .. height - 1 /\ Applied' = 0 .. height - 1
    BY <2>1, <2>3, <2>6 DEF Applied
  <2>8. Entries' = utxos /\ Entries = utxos
    BY <2>1 DEF Entries
  <2>9. Lineage'
    <3>1. synced_tip # NoTip => synced_tip.height \in DOMAIN blocks
      BY DEF Structure, TypeOK, NoTip, CursorCovered
    <3> QED
      BY <2>1, <2>2, <2>4, <2>5, <2>6, <3>1 DEF Undisturbed, Lineage, ReliedOn
  <2>10. Sound'
    BY <2>4, <2>8 DEF Undisturbed, Sound
  <2>11. Complete'
    <3>1. \A h \in 0 .. height - 1 : h \in DOMAIN blocks /\ blocks'[h] = blocks[h]
      BY <2>1, <2>4 DEF Structure, Positions
    <3> QED
      BY <2>1, <2>7, <2>8, <3>1 DEF Undisturbed, Complete
  <2>12. Watchful'
    <3>1. UnspentOutpoints(utxos) \subseteq spend_index
      BY <2>1 DEF Undisturbed, Watchful
    <3> HIDE DEF b
    <3>2. /\ captured' \cap Spends(b) \subseteq spent'
          /\ spend_index \cap Spends(b) \subseteq spent'
          /\ spent' \subseteq Spends(b)
      BY <2>1, <2>2, BlockSpendsSeen
    <3> QED
      BY <2>1, <2>4, <3>1, <3>2 DEF Watchful
  <2> QED
    BY <2>9, <2>10, <2>11, <2>12 DEF Undisturbed
<1> QED
  BY <1>1, <1>2

(***************************************************************************)
(* The captured outputs get entries, the block being stored already.       *)
(***************************************************************************)
LEMMA UpsertUndisturbed ==
    ASSUME Structure, Undisturbed, Upsert
    PROVE  Undisturbed'
<1>1. /\ height \in Nat /\ height \in DOMAIN blocks /\ pc = "upsert" /\ pc' = "mark"
      /\ UNCHANGED <<tip, height, chain, blocks, synced_tip, spend_index, captured, spent>>
  BY DEF Upsert, Structure, Positions, TypeOK, GoTo, node
<1>2. /\ DOMAIN utxos' = DOMAIN utxos \cup captured
      /\ \A op \in DOMAIN utxos \ captured : utxos'[op] = utxos[op]
      /\ \A op \in captured :
            utxos'[op] = [utxo |-> [wallet_id |-> Owner(op), height |-> height, is_spent |-> FALSE],
                          spent_height |-> IF op \in DOMAIN utxos THEN utxos[op].spent_height
                                                                  ELSE NoHeight]
  BY DEF Upsert, UpsertUtxos, CapturedUtxos
<1>3. /\ captured = CapturedIn(blocks[height]) /\ DOMAIN blocks \subseteq 0 .. tip
      /\ OnChain(blocks, chain) /\ chain \in Chains
  BY <1>1 DEF Undisturbed, Watchful, Lineage, Unsettled, ReliedOn, Working, Structure, TypeOK
<1>4. Applied = 0 .. height - 1 /\ Applied' = 0 .. height - 1
  BY <1>1, <1>3 DEF Applied
<1>5. Entries = utxos /\ Entries' = utxos'
  BY <1>1 DEF Entries
<1>6. Lineage'
  BY <1>1, <1>3 DEF Undisturbed, Lineage, ReliedOn
<1>7. Sound'
  <2> SUFFICES ASSUME NEW op \in DOMAIN utxos'
               PROVE  LET e == utxos'[op]
                      IN  /\ Captures(op)
                          /\ e.utxo.wallet_id = Owner(op)
                          /\ e.utxo.height \in DOMAIN blocks
                          /\ op \in Creates(blocks[e.utxo.height])
                          /\ e.utxo.is_spent => e.spent_height # NoHeight
                          /\ e.spent_height # NoHeight =>
                                /\ e.spent_height \in DOMAIN blocks
                                /\ op \in Spends(blocks[e.spent_height])
    BY <1>1, <1>5 DEF Sound
  <2>1. CASE op \in captured
    <3>1. Captures(op) /\ op \in Creates(blocks[height])
      BY <1>3, <2>1 DEF CapturedIn
    <3>2. op \in DOMAIN utxos /\ utxos[op].spent_height # NoHeight =>
             /\ utxos[op].spent_height \in DOMAIN blocks
             /\ op \in Spends(blocks[utxos[op].spent_height])
      BY <1>5 DEF Undisturbed, Sound
    <3> QED
      BY <1>1, <1>2, <2>1, <3>1, <3>2
  <2>2. CASE op \notin captured
    BY <1>2, <1>5, <2>2 DEF Undisturbed, Sound
  <2> QED
    BY <2>1, <2>2
<1>8. Complete'
  <2>1. ASSUME NEW h \in 0 .. height - 1
        PROVE  h \in DOMAIN blocks /\ h < height
    BY <1>1, <2>1 DEF Structure, CursorCovered
  <2>2. ASSUME NEW h \in 0 .. height - 1, NEW op \in Spends(blocks[h]), op \in DOMAIN utxos'
        PROVE  utxos'[op].utxo.is_spent
    <3>1. op \notin captured
      BY <1>1, <1>3, <2>1, <2>2, BirthBeforeSpend DEF CapturedIn
    <3> QED
      BY <1>2, <1>4, <1>5, <2>2, <3>1 DEF Undisturbed, Complete
  <2> QED
    BY <1>1, <1>2, <1>4, <1>5, <2>2 DEF Undisturbed, Complete
<1>9. Watchful'
  <2>1. UnspentOutpoints(utxos)' \subseteq UnspentOutpoints(utxos) \cup captured
    BY <1>2 DEF UnspentOutpoints
  <2> QED
    BY <1>1, <1>2, <2>1 DEF Undisturbed, Watchful
<1> QED
  BY <1>6, <1>7, <1>8, <1>9 DEF Undisturbed

(***************************************************************************)
(* Once its spends are marked the block is carried over.                   *)
(***************************************************************************)
LEMMA MarkSpentUndisturbed ==
    ASSUME Structure, Undisturbed, MarkSpent
    PROVE  Undisturbed'
<1>1. /\ height \in Nat /\ height \in DOMAIN blocks /\ pc = "mark" /\ pc' = "scan"
      /\ height' = height + 1 /\ spent' = {}
      /\ UNCHANGED <<tip, chain, blocks, synced_tip, spend_index>>
      /\ utxos \in [DOMAIN utxos -> StoreEntry]
  BY DEF MarkSpent, Structure, Positions, TypeOK, node
<1>2. /\ DOMAIN utxos' = DOMAIN utxos
      /\ \A op \in DOMAIN utxos \ spent : utxos'[op] = utxos[op]
      /\ \A op \in DOMAIN utxos \cap spent :
            /\ utxos'[op].utxo.wallet_id = utxos[op].utxo.wallet_id
            /\ utxos'[op].utxo.height = utxos[op].utxo.height
            /\ utxos'[op].utxo.is_spent = TRUE
            /\ utxos'[op].spent_height = height
  BY <1>1 DEF MarkSpent, MarkSpentAt, StoreEntry, CapturedUtxo
<1>3. /\ captured = CapturedIn(blocks[height]) /\ captured \subseteq DOMAIN utxos
      /\ UnspentOutpoints(utxos) \subseteq spend_index \cup spent
      /\ UnspentOutpoints(utxos) \cap Spends(blocks[height]) \subseteq spent
      /\ spent \subseteq Spends(blocks[height])
      /\ DOMAIN blocks \subseteq 0 .. tip /\ OnChain(blocks, chain)
  BY <1>1 DEF Undisturbed, Watchful, Lineage, Unsettled, ReliedOn, Working
<1>4. Applied = 0 .. height - 1 /\ Applied' = 0 .. height
  BY <1>1, <1>3 DEF Applied
<1>5. Entries = utxos /\ Entries' = utxos'
  BY <1>1 DEF Entries
<1>6. Lineage'
  BY <1>1, <1>3 DEF Undisturbed, Lineage, ReliedOn
<1>7. Sound'
  <2>1. ASSUME NEW op \in spent
        PROVE  op \in Spends(blocks[height]) /\ height # NoHeight
    BY <1>1, <1>3, <2>1 DEF NoHeight
  <2> QED
    BY <1>1, <1>2, <1>5, <2>1 DEF Undisturbed, Sound
<1>8. Complete'
  <2>1. 0 .. synced_tip.height \subseteq 0 .. height
    <3>1. 0 .. synced_tip.height \subseteq 0 .. height - 1
      BY <1>4 DEF Undisturbed, Complete
    <3> QED
      BY <1>1, <3>1
  <2>2. ASSUME NEW h \in 0 .. height, NEW op \in Creates(blocks[h]), Captures(op)
        PROVE  op \in DOMAIN utxos'
    <3>1. CASE h = height
      BY <1>2, <1>3, <2>2, <3>1 DEF CapturedIn
    <3>2. CASE h \in 0 .. height - 1
      BY <1>2, <1>4, <1>5, <2>2, <3>2 DEF Undisturbed, Complete
    <3> QED
      BY <1>1, <3>1, <3>2
  <2>3. ASSUME NEW h \in 0 .. height, NEW op \in Spends(blocks[h]), op \in DOMAIN utxos'
        PROVE  utxos'[op].utxo.is_spent
    <3>1. CASE h = height
      BY <1>2, <1>3, <2>3, <3>1 DEF UnspentOutpoints
    <3>2. CASE h \in 0 .. height - 1
      BY <1>2, <1>4, <1>5, <2>3, <3>2 DEF Undisturbed, Complete
    <3> QED
      BY <1>1, <3>1, <3>2
  <2> QED
    BY <1>1, <1>4, <1>5, <2>1, <2>2, <2>3 DEF Complete
<1>9. Watchful'
  <2>1. UnspentOutpoints(utxos)' \subseteq spend_index
    BY <1>2, <1>3 DEF UnspentOutpoints
  <2> QED
    BY <1>1, <2>1 DEF Watchful
<1> QED
  BY <1>6, <1>7, <1>8, <1>9 DEF Undisturbed

(***************************************************************************)
(* At the end of a pass all stored blocks have been carried over.          *)
(***************************************************************************)
LEMMA SetCursorUndisturbed ==
    ASSUME Structure, Undisturbed, SetCursor
    PROVE  Undisturbed'
<1>1. CASE tip \notin DOMAIN chain
  BY <1>1, FailedPassUndisturbed DEF SetCursor, node
<1>2. CASE tip \in DOMAIN chain
  <2>1. /\ height \in Nat /\ tip \in Nat /\ pc = "scan" /\ pc' = "idle"
        /\ height = tip + 1 /\ spent' = {}
        /\ synced_tip' = [height |-> tip, hash |-> chain[tip]]
        /\ UNCHANGED <<chain, blocks, utxos>>
    BY <1>2 DEF SetCursor, EndPass, Structure, Positions, TypeOK, node
  <2>2. 0 .. tip \subseteq DOMAIN blocks
    BY <2>1 DEF Structure, Positions
  <2>3. OnChain(blocks, chain)
    BY <2>1 DEF Undisturbed, Lineage, Unsettled, ReliedOn, Working
  <2>4. Entries = utxos /\ Entries' = utxos
    BY <2>1 DEF Entries
  <2>5. Applied' = DOMAIN blocks /\ DOMAIN blocks \subseteq Applied
    BY <2>1 DEF Applied
  <2>6. Lineage'
    BY <2>1, <2>2, <2>3 DEF Undisturbed, Lineage, ReliedOn, OnChain
  <2>7. Sound'
    BY <2>1, <2>4 DEF Undisturbed, Sound
  <2>8. Complete'
    BY <2>1, <2>2, <2>4, <2>5 DEF Undisturbed, Complete
  <2>9. Watchful'
    BY <2>1 DEF Watchful
  <2> QED
    BY <2>6, <2>7, <2>8, <2>9 DEF Undisturbed
<1> QED
  BY <1>1, <1>2

(***************************************************************************)
(* A failure or crash outside the gap between the two rollbacks, a longer  *)
(* chain, and a reorg that takes no block from under a pass.               *)
(***************************************************************************)
LEMMA EnvironmentUndisturbed ==
    ASSUME Structure, Undisturbed, ~tainted',
           Fail \/ PushBlock \/ Reorg \/ UNCHANGED vars
    PROVE  Undisturbed'
<1>1. CASE Fail
  BY <1>1, FailedPassUndisturbed DEF Fail, node, stores
<1>2. ASSUME UNCHANGED <<stores, pc, locals>>, Unsettled => OnChain(ReliedOn, chain')
      PROVE  Undisturbed'
  <2>1. UNCHANGED <<blocks, synced_tip, utxos, pc, tip, height, spend_index, captured, spent>>
    BY <1>2 DEF stores, locals
  <2>2. /\ Leftovers' = Leftovers /\ Unsettled' = Unsettled /\ ReliedOn' = ReliedOn
        /\ Entries' = Entries /\ Applied' = Applied
    BY <2>1 DEF Leftovers, Unsettled, ReliedOn, Entries, Applied
  <2>3. Lineage'
    BY <1>2, <2>1, <2>2 DEF Undisturbed, Lineage
  <2>4. Sound' /\ Complete'
    BY <2>1, <2>2 DEF Undisturbed, Sound, Complete
  <2>5. Watchful'
    BY <2>1 DEF Undisturbed, Watchful
  <2> QED
    BY <2>3, <2>4, <2>5 DEF Undisturbed
<1>3. CASE PushBlock
  <2>1. OnChain(chain, chain')
    BY <1>3 DEF PushBlock, ExtendsByOne
  <2>2. Unsettled => OnChain(ReliedOn, chain')
    BY <2>1 DEF Undisturbed, Lineage, OnChain
  <2> QED
    BY <1>2, <1>3, <2>2 DEF PushBlock
<1>4. CASE Reorg
  BY <1>2, <1>4 DEF Reorg
<1>5. CASE UNCHANGED vars
  BY <1>2, <1>5 DEF vars, node, Undisturbed, Lineage
<1> QED
  BY <1>1, <1>3, <1>4, <1>5

-----------------------------------------------------------------------------
(***************************************************************************)
(* A disturbance is remembered for the rest of the behaviour.              *)
(***************************************************************************)
LEMMA TaintStays == [Next]_vars /\ tainted => tainted'
BY DEF Next, EngineStep, vars, StartPass, CheckCursor, FindAncestor, RollbackBlocks,
       RollbackUtxos, LoadSpendIndex, ScanBlock, Upsert, MarkSpent, SetCursor,
       Fail, PushBlock, Reorg

(***************************************************************************)
(* Every step that is not itself a disturbance keeps Undisturbed.          *)
(***************************************************************************)
LEMMA UndisturbedStep ==
    Structure /\ (~tainted => Undisturbed) /\ [Next]_vars => (~tainted => Undisturbed)'
<1> SUFFICES ASSUME Structure, ~tainted => Undisturbed, [Next]_vars, ~tainted'
             PROVE  Undisturbed'
  OBVIOUS
<1>1. Undisturbed
  BY TaintStays
<1> QED
  BY <1>1, StartPassUndisturbed, CheckCursorUndisturbed, FindAncestorUndisturbed,
     RollbackBlocksUndisturbed, RollbackUtxosUndisturbed, LoadSpendIndexUndisturbed,
     ScanBlockUndisturbed, UpsertUndisturbed, MarkSpentUndisturbed, SetCursorUndisturbed,
     EnvironmentUndisturbed
  DEF Next, EngineStep

(***************************************************************************)
(* The invariant the runs check under the name IndInv.                     *)
(***************************************************************************)
THEOREM IndInvInvariant == Spec => []IndInv
<1>1. Init => (~tainted => Undisturbed)
  BY InitUndisturbed
<1>2. Structure /\ (~tainted => Undisturbed) => IndInv
  BY DEF Structure, IndInv
<1> QED
  BY <1>1, <1>2, StructureInvariant, UndisturbedStep, PTL DEF Spec

(***************************************************************************)
(* What the blocks l have to say for e to be an entry of output op.        *)
(***************************************************************************)
WarrantedBy(l, op, e) ==
    /\ Captures(op)
    /\ e.utxo.wallet_id = Owner(op)
    /\ e.utxo.height \in DOMAIN l
    /\ op \in Creates(l[e.utxo.height])
    /\ e.utxo.is_spent => e.spent_height # NoHeight
    /\ e.spent_height # NoHeight =>
          e.spent_height \in DOMAIN l /\ op \in Spends(l[e.spent_height])

(***************************************************************************)
(* The store whose entries the blocks l warrant, and that has all that l   *)
(* asks for, is the view of l: birth and spend are each in one block only. *)
(***************************************************************************)
LEMMA WarrantedIsExact ==
    ASSUME NEW l, \E c \in Chains : OnChain(l, c),
           NEW m, DOMAIN m \subseteq OutPoint, m \in [DOMAIN m -> StoreEntry],
           \A op \in DOMAIN m : WarrantedBy(l, op, m[op]),
           \A h \in DOMAIN l : \A op \in Creates(l[h]) : Captures(op) => op \in DOMAIN m,
           \A h \in DOMAIN l : \A op \in Spends(l[h]) :
               op \in DOMAIN m => m[op].utxo.is_spent
    PROVE  m = ViewOf(l)
<1> DEFINE ops == {o \in OutPoint : Captures(o) /\ Appears(l, o)}
<1>1. ASSUME NEW op \in DOMAIN m
      PROVE  op \in ops /\ m[op] = EntryOf(l, op)
  <2> DEFINE e == m[op]
  <2>1. /\ Captures(op)
        /\ e.utxo.wallet_id = Owner(op)
        /\ e.utxo.height \in DOMAIN l
        /\ op \in Creates(l[e.utxo.height])
        /\ e.utxo.is_spent => e.spent_height # NoHeight
        /\ e.spent_height # NoHeight =>
              e.spent_height \in DOMAIN l /\ op \in Spends(l[e.spent_height])
    BY <1>1 DEF WarrantedBy
  <2>2. op \in ops
    BY <1>1, <2>1 DEF Appears
  <2>3. e.utxo.height = BirthHeight(l, op)
    <3>1. BirthHeight(l, op) \in DOMAIN l /\ op \in Creates(l[BirthHeight(l, op)])
      BY <2>1 DEF BirthHeight
    <3> QED
      BY <2>1, <3>1, OneBirth
  <2>4. e.spent_height # NoHeight => IsSpent(l, op)
    BY <2>1 DEF IsSpent
  <2>5. IsSpent(l, op) => e.utxo.is_spent
    BY <1>1 DEF IsSpent
  <2>6. e.utxo.is_spent = IsSpent(l, op)
    <3>1. e.utxo.is_spent \in BOOLEAN /\ IsSpent(l, op) \in BOOLEAN
      BY <1>1 DEF StoreEntry, CapturedUtxo, IsSpent
    <3> QED
      BY <2>1, <2>4, <2>5, <3>1
  <2>7. e.spent_height = IF IsSpent(l, op) THEN SpendHeight(l, op) ELSE NoHeight
    <3>1. CASE IsSpent(l, op)
      <4>1. SpendHeight(l, op) \in DOMAIN l /\ op \in Spends(l[SpendHeight(l, op)])
        BY <3>1 DEF SpendHeight, IsSpent
      <4>2. e.spent_height \in DOMAIN l /\ op \in Spends(l[e.spent_height])
        BY <2>1, <2>5, <3>1
      <4>3. e.spent_height = SpendHeight(l, op)
        BY <4>1, <4>2, OneSpend
      <4> QED
        BY <3>1, <4>3
    <3>2. CASE ~IsSpent(l, op)
      BY <2>4, <3>2
    <3> QED
      BY <3>1, <3>2
  <2>8. e = [utxo |-> [wallet_id |-> e.utxo.wallet_id, height |-> e.utxo.height,
                       is_spent |-> e.utxo.is_spent],
             spent_height |-> e.spent_height]
    BY <1>1 DEF StoreEntry, CapturedUtxo
  <2> QED
    BY <2>1, <2>2, <2>3, <2>6, <2>7, <2>8 DEF EntryOf
<1>2. ops \subseteq DOMAIN m
  BY DEF Appears
<1>3. DOMAIN m = ops
  BY <1>1, <1>2
<1>4. m = [op \in DOMAIN m |-> m[op]]
  OBVIOUS
<1> QED
  BY <1>1, <1>3, <1>4 DEF ViewOf

(***************************************************************************)
(* The stores agree whenever all stored blocks have been applied.          *)
(***************************************************************************)
LEMMA ViewIsExact ==
    ASSUME Structure, Undisturbed, Applied = DOMAIN blocks, Entries = utxos
    PROVE  utxos = ViewOf(blocks)
<1>1. utxos \in [DOMAIN utxos -> StoreEntry] /\ DOMAIN utxos \subseteq OutPoint
  BY DEF Structure, TypeOK
<1>2. \E c \in Chains : OnChain(blocks, c)
  BY DEF Undisturbed, Lineage
<1>3. \A op \in DOMAIN utxos : WarrantedBy(blocks, op, utxos[op])
  BY DEF Undisturbed, Sound, WarrantedBy
<1>4. /\ \A h \in DOMAIN blocks : \A op \in Creates(blocks[h]) :
             Captures(op) => op \in DOMAIN utxos
      /\ \A h \in DOMAIN blocks : \A op \in Spends(blocks[h]) :
             op \in DOMAIN utxos => utxos[op].utxo.is_spent
  BY DEF Undisturbed, Complete
<1> QED
  BY <1>1, <1>2, <1>3, <1>4, WarrantedIsExact

(***************************************************************************)
(* Whatever the chain, the transactions and the registered wallets are:    *)
(* when sync returns Ok the UTXO store is exactly what the scanned blocks  *)
(* say and the cursor is the hash of the block scanned there, unless a     *)
(* reorg took blocks from under a pass or what it had left, or a pass      *)
(* ended between its two rollbacks.                                        *)
(***************************************************************************)
THEOREM ViewExactness == Spec => []ExactView
<1>1. ASSUME IndInv, pc = "idle", ~tainted
      PROVE  utxos = ViewOf(blocks)
  <2>1. Structure /\ Undisturbed
    BY <1>1 DEF IndInv, Structure
  <2>2. Applied = DOMAIN blocks /\ Entries = utxos
    BY <1>1 DEF Applied, Entries
  <2> QED
    BY <2>1, <2>2, ViewIsExact
<1>2. IndInv => ExactView
  BY <1>1 DEF IndInv, Undisturbed, Lineage, ExactView
<1> QED
  BY <1>2, IndInvInvariant, PTL
-----------------------------------------------------------------------------
(***************************************************************************)
(* In a quiet environment the pipeline implements the ledger.              *)
(***************************************************************************)

(***************************************************************************)
(* The stores before the first pass are in step.                           *)
(***************************************************************************)
LEMMA InitInStep == Init => InStep
<1> SUFFICES ASSUME Init PROVE InStep
  OBVIOUS
<1>1. DOMAIN blocks = {} /\ pc = "idle" /\ synced_tip = NoTip /\ tainted = FALSE
  BY DEF Init
<1>2. TipHeight(chain) \in Nat
  BY ChainShape DEF Init
<1>3. StoredHeights = 0 .. -1
  BY <1>1 DEF StoredHeights, NoTip
<1> QED
  BY <1>1, <1>2, <1>3 DEF InStep, NoTip, InPass, Deciding, Working

(***************************************************************************)
(* The pass begins with the tip at or above the cursor and never asks for  *)
(* a height the node does not have.                                        *)
(***************************************************************************)
LEMMA StartPassInStep ==
    ASSUME Structure, InStep, StartPass
    PROVE  InStep'
<1>1. /\ pc \in Idle /\ pc' = "cursor" /\ tip' = TipHeight(chain)
      /\ UNCHANGED <<chain, blocks, synced_tip, utxos, tainted>>
  BY DEF StartPass, node, stores
<1>2. DOMAIN blocks = 0 .. synced_tip.height
  BY <1>1 DEF InStep, StoredHeights, Idle
<1>3. StoredHeights' = 0 .. synced_tip.height
  BY <1>1 DEF StoredHeights
<1>4. TipHeight(chain) \in Nat
  BY ChainShape DEF Structure, TypeOK
<1> QED
  BY <1>1, <1>2, <1>3, <1>4 DEF InStep

(***************************************************************************)
(* The search starts at the cursor or one above it.                        *)
(***************************************************************************)
LEMMA CheckCursorInStep ==
    ASSUME Structure, InStep, CheckCursor
    PROVE  InStep'
<1>1. /\ pc = "cursor"
      /\ UNCHANGED <<chain, blocks, synced_tip, utxos, tainted>>
  BY DEF CheckCursor, node, stores
<1>2. DOMAIN blocks = 0 .. synced_tip.height
  BY <1>1 DEF InStep, StoredHeights
<1>3. CASE pc' = "failed"
  <2>1. StoredHeights' = 0 .. synced_tip.height
    BY <1>1, <1>3 DEF StoredHeights
  <2> QED
    BY <1>1, <1>2, <1>3, <2>1 DEF InStep, InPass, Deciding, Working
<1>4. CASE pc' = "index" /\ height' = synced_tip.height + 1 /\ tip' = tip
  <2>1. StoredHeights' = 0 .. synced_tip.height
    BY <1>1, <1>4 DEF StoredHeights
  <2> QED
    BY <1>1, <1>2, <1>4, <2>1 DEF InStep, InPass, Deciding, Working
<1>5. CASE pc' = "ancestor" /\ tip' = tip
  <2>1. StoredHeights' = 0 .. synced_tip.height
    BY <1>1, <1>5 DEF StoredHeights
  <2> QED
    BY <1>1, <1>2, <1>5, <2>1 DEF InStep, InPass, Deciding, Working
<1>6. \/ pc' = "failed"
      \/ pc' = "index" /\ height' = synced_tip.height + 1 /\ tip' = tip
      \/ pc' = "ancestor" /\ tip' = tip
  <2>1. CASE synced_tip = NoTip
    BY <2>1 DEF CheckCursor, GoTo, NoTip
  <2>2. CASE synced_tip # NoTip /\ synced_tip.height \notin DOMAIN chain
    BY <2>2 DEF CheckCursor, EndPass
  <2>3. CASE synced_tip # NoTip /\ synced_tip.height \in DOMAIN chain
    BY <2>3 DEF CheckCursor, GoTo
  <2> QED
    BY <2>1, <2>2, <2>3
<1> QED
  BY <1>3, <1>4, <1>5, <1>6

(***************************************************************************)
(* The walk back writes nothing.                                           *)
(***************************************************************************)
LEMMA FindAncestorInStep ==
    ASSUME Structure, InStep, FindAncestor
    PROVE  InStep'
<1>1. /\ pc = "ancestor"
      /\ UNCHANGED <<chain, blocks, synced_tip, utxos, tainted>>
  BY DEF FindAncestor, node, stores
<1>2. \/ pc' = "failed"
      \/ pc' \in {"ancestor", "rollback_blocks"} /\ tip' = tip
  <2>1. CASE height \in DOMAIN blocks /\ height \notin DOMAIN chain
    BY <2>1 DEF FindAncestor, EndPass
  <2>2. CASE ~(height \in DOMAIN blocks /\ height \notin DOMAIN chain)
    BY <2>2 DEF FindAncestor, GoTo
  <2> QED
    BY <2>1, <2>2
<1>3. DOMAIN blocks = 0 .. synced_tip.height
  BY <1>1 DEF InStep, StoredHeights
<1>4. StoredHeights' = 0 .. synced_tip.height
  BY <1>1, <1>2 DEF StoredHeights
<1> QED
  BY <1>1, <1>2, <1>3, <1>4 DEF InStep, InPass, Deciding, Working

(***************************************************************************)
(* The rollback of the blocks leaves the cursor on the last one kept.      *)
(***************************************************************************)
LEMMA RollbackBlocksInStep ==
    ASSUME Structure, InStep, RollbackBlocks
    PROVE  InStep'
<1>1. /\ pc = "rollback_blocks" /\ pc' = "rollback_utxos"
      /\ blocks' = RollbackBlocksAbove(blocks, height)
      /\ synced_tip' = CursorAfterRollback(synced_tip, blocks, height, NoTip)
      /\ UNCHANGED <<chain, utxos, height, tip, tainted>>
  BY DEF RollbackBlocks, GoTo, node
<1>2. DOMAIN blocks = 0 .. synced_tip.height /\ synced_tip.height <= tip /\ tip <= TipHeight(chain)
  BY <1>1 DEF InStep, StoredHeights, InPass, Working
<1>3. height \in DOMAIN blocks
  BY <1>1 DEF Structure, Positions
<1>4. height \in Nat /\ synced_tip.height \in Int /\ height <= synced_tip.height
      /\ tip \in Nat /\ TipHeight(chain) \in Nat
  BY <1>2, <1>3, ChainShape DEF Structure, TypeOK, NoTip
<1>5. synced_tip'.height = height
  BY <1>1, <1>3, <1>4, CursorRollback DEF Structure
<1>6. DOMAIN blocks' = 0 .. height
  <2>1. DOMAIN blocks' = {k \in DOMAIN blocks : k <= height}
    BY <1>1 DEF RollbackBlocksAbove, Restrict
  <2> QED
    BY <1>2, <1>4, <2>1
<1>7. StoredHeights' = 0 .. height
  BY <1>1, <1>5 DEF StoredHeights
<1> QED
  BY <1>1, <1>2, <1>4, <1>5, <1>6, <1>7 DEF InStep

(***************************************************************************)
(* The rollback of the UTXOs brings them level with the cursor.            *)
(***************************************************************************)
LEMMA RollbackUtxosInStep ==
    ASSUME Structure, InStep, RollbackUtxos
    PROVE  InStep'
<1>1. /\ pc = "rollback_utxos" /\ pc' = "index" /\ height' = height + 1
      /\ UNCHANGED <<chain, blocks, synced_tip, tip, tainted>>
  BY DEF RollbackUtxos, GoTo, node
<1>2. /\ DOMAIN blocks = 0 .. synced_tip.height /\ height = synced_tip.height
      /\ synced_tip.height <= tip /\ tip <= TipHeight(chain)
  BY <1>1 DEF InStep, StoredHeights, InPass, Working
<1>3. StoredHeights' = 0 .. synced_tip.height
  BY <1>1 DEF StoredHeights
<1> QED
  BY <1>1, <1>2, <1>3 DEF InStep

(***************************************************************************)
(* The clamp has nothing to do: the pass starts at most one above its tip. *)
(***************************************************************************)
LEMMA LoadSpendIndexInStep ==
    ASSUME Structure, InStep, LoadSpendIndex
    PROVE  InStep'
<1>1. /\ pc = "index" /\ pc' = "scan"
      /\ height' = IF height > tip + 1 THEN tip + 1 ELSE height
      /\ UNCHANGED <<chain, blocks, synced_tip, tip, tainted>>
  BY DEF LoadSpendIndex, node, stores
<1>2. /\ DOMAIN blocks = 0 .. synced_tip.height /\ height = synced_tip.height + 1
      /\ synced_tip.height <= tip /\ tip <= TipHeight(chain)
  BY <1>1 DEF InStep, StoredHeights, InPass, Working
<1>3. synced_tip.height \in Int /\ height \in Nat /\ tip \in Nat
  BY DEF Structure, TypeOK, NoTip
<1>4. height' = height
  BY <1>1, <1>2, <1>3
<1>5. StoredHeights' = 0 .. height - 1
  BY <1>1, <1>4 DEF StoredHeights
<1>6. height - 1 = synced_tip.height
  BY <1>2, <1>3
<1> QED
  BY <1>1, <1>2, <1>5, <1>6 DEF InStep

(***************************************************************************)
(* The view at every point where the store is not ahead of or behind the   *)
(* applied blocks.                                                         *)
(***************************************************************************)
LEMMA SettledView ==
    ASSUME Structure, Undisturbed, InStep,
           pc \notin {"rollback_utxos", "upsert", "mark"}
    PROVE  utxos = ViewOf(blocks)
<1>1. synced_tip.height \in Int /\ height \in Nat /\ tip \in Nat
  BY DEF Structure, TypeOK, NoTip
<1>2. Entries = utxos
  BY DEF Entries
<1>3. CASE pc \in {"index", "scan"}
  <2>1. DOMAIN blocks = 0 .. height - 1
    BY <1>1, <1>3 DEF InStep, StoredHeights
  <2>2. height <= tip + 1
    BY <1>1, <1>3 DEF InStep, InPass, Working, Structure, Positions
  <2>3. DOMAIN blocks \subseteq 0 .. tip
    BY <1>1, <2>1, <2>2
  <2>4. Applied = DOMAIN blocks
    BY <1>3, <2>1, <2>3 DEF Applied
  <2> QED
    BY <1>2, <2>4, ViewIsExact
<1>4. CASE pc \notin {"index", "scan"}
  <2>1. DOMAIN blocks = 0 .. synced_tip.height
    BY <1>4 DEF InStep, StoredHeights
  <2>2. Applied = DOMAIN blocks
    BY <1>4, <2>1 DEF Applied
  <2> QED
    BY <1>2, <2>2, ViewIsExact
<1> QED
  BY <1>3, <1>4

(***************************************************************************)
(* Between the two rollbacks the pending one makes the view exact.         *)
(***************************************************************************)
LEMMA RolledBackView ==
    ASSUME Structure, Undisturbed, InStep, pc = "rollback_utxos"
    PROVE  RollbackUtxosAbove(utxos, height) = ViewOf(blocks)
<1> DEFINE m == RollbackUtxosAbove(utxos, height)
<1>1. DOMAIN blocks = 0 .. height /\ height \in Nat
  BY DEF InStep, StoredHeights, Structure, TypeOK
<1>2. Applied = DOMAIN blocks /\ Entries = m
  BY <1>1 DEF Applied, Entries
<1>3. DOMAIN m \subseteq OutPoint /\ m \in [DOMAIN m -> StoreEntry]
  <2>1. utxos \in [DOMAIN utxos -> StoreEntry] /\ DOMAIN utxos \subseteq OutPoint
    BY DEF Structure, TypeOK
  <2>2. DOMAIN m = {o \in DOMAIN utxos : utxos[o].utxo.height <= height}
    BY DEF RollbackUtxosAbove
  <2>3. ASSUME NEW op \in DOMAIN m PROVE m[op] \in StoreEntry
    BY <2>1, <2>2, <2>3 DEF RollbackUtxosAbove, StoreEntry, CapturedUtxo
  <2>4. m = [op \in DOMAIN m |-> m[op]]
    BY DEF RollbackUtxosAbove
  <2> HIDE DEF m
  <2> QED
    BY <2>1, <2>2, <2>3, <2>4
<1>4. \E c \in Chains : OnChain(blocks, c)
  BY DEF Undisturbed, Lineage
<1> HIDE DEF m
<1>5. \A op \in DOMAIN m : WarrantedBy(blocks, op, m[op])
  BY <1>2 DEF Undisturbed, Sound, WarrantedBy
<1>6. /\ \A h \in DOMAIN blocks : \A op \in Creates(blocks[h]) :
             Captures(op) => op \in DOMAIN m
      /\ \A h \in DOMAIN blocks : \A op \in Spends(blocks[h]) :
             op \in DOMAIN m => m[op].utxo.is_spent
  BY <1>2 DEF Undisturbed, Complete
<1> QED
  BY <1>3, <1>4, <1>5, <1>6, WarrantedIsExact DEF m

(***************************************************************************)
(* Between the captures and the spends of a block the pending marks make   *)
(* the view exact.                                                         *)
(***************************************************************************)
LEMMA MarkedView ==
    ASSUME Structure, Undisturbed, InStep, pc = "mark"
    PROVE  MarkSpentAt(utxos, spent, height) = ViewOf(blocks)
<1> DEFINE m == MarkSpentAt(utxos, spent, height)
<1>1. /\ height \in Nat /\ height <= tip /\ tip \in Nat
      /\ utxos \in [DOMAIN utxos -> StoreEntry] /\ DOMAIN utxos \subseteq OutPoint
  BY DEF Structure, Positions, TypeOK
<1>2. DOMAIN blocks = 0 .. height
  BY DEF InStep, StoredHeights
<1>3. Applied = 0 .. height - 1 /\ Entries = utxos
  BY <1>1, <1>2 DEF Applied, Entries
<1>4. /\ captured = CapturedIn(blocks[height]) /\ captured \subseteq DOMAIN utxos
      /\ UnspentOutpoints(utxos) \cap Spends(blocks[height]) \subseteq spent
      /\ spent \subseteq Spends(blocks[height])
  BY DEF Undisturbed, Watchful
<1>5. \E c \in Chains : OnChain(blocks, c)
  BY DEF Undisturbed, Lineage
<1>6. /\ DOMAIN m = DOMAIN utxos
      /\ m = [op \in DOMAIN m |-> m[op]]
      /\ \A op \in DOMAIN utxos \ spent : m[op] = utxos[op]
  BY DEF MarkSpentAt
<1>7. ASSUME NEW op \in DOMAIN utxos \cap spent
      PROVE  /\ m[op] \in StoreEntry
             /\ m[op].utxo.wallet_id = utxos[op].utxo.wallet_id
             /\ m[op].utxo.height = utxos[op].utxo.height
             /\ m[op].utxo.is_spent = TRUE
             /\ m[op].spent_height = height
  BY <1>1, <1>7 DEF MarkSpentAt, StoreEntry, CapturedUtxo
<1> HIDE DEF m
<1>8. m \in [DOMAIN m -> StoreEntry]
  BY <1>1, <1>6, <1>7
<1>9. ASSUME NEW op \in DOMAIN m
      PROVE  WarrantedBy(blocks, op, m[op])
  <2>1. WarrantedBy(blocks, op, utxos[op])
    BY <1>3, <1>6, <1>9 DEF Undisturbed, Sound, WarrantedBy
  <2>2. CASE op \in spent
    <3>1. op \in Spends(blocks[height]) /\ height \in DOMAIN blocks /\ height # NoHeight
      BY <1>1, <1>2, <1>4, <2>2 DEF NoHeight
    <3> QED
      BY <1>6, <1>7, <1>9, <2>1, <2>2, <3>1 DEF WarrantedBy
  <2>3. CASE op \notin spent
    BY <1>6, <1>9, <2>1, <2>3
  <2> QED
    BY <2>2, <2>3
<1>10. ASSUME NEW h \in DOMAIN blocks, NEW op \in Creates(blocks[h]), Captures(op)
       PROVE  op \in DOMAIN m
  <2>1. CASE h = height
    BY <1>4, <1>6, <1>10, <2>1 DEF CapturedIn
  <2>2. CASE h \in 0 .. height - 1
    BY <1>3, <1>6, <1>10, <2>2 DEF Undisturbed, Complete
  <2> QED
    BY <1>1, <1>2, <2>1, <2>2
<1>11. ASSUME NEW h \in DOMAIN blocks, NEW op \in Spends(blocks[h]), op \in DOMAIN m
       PROVE  m[op].utxo.is_spent
  <2>1. CASE op \in spent
    BY <1>6, <1>7, <1>11, <2>1
  <2>2. CASE op \notin spent
    <3>1. h # height => utxos[op].utxo.is_spent
      <4>1. h # height => h \in 0 .. height - 1
        BY <1>1, <1>2
      <4> QED
        BY <1>3, <1>6, <1>11, <4>1 DEF Undisturbed, Complete
    <3>2. h = height => utxos[op].utxo.is_spent
      BY <1>4, <1>6, <1>11, <2>2 DEF UnspentOutpoints
    <3> QED
      BY <1>6, <1>11, <2>2, <3>1, <3>2
  <2> QED
    BY <2>1, <2>2
<1>12. DOMAIN m \subseteq OutPoint
  BY <1>1, <1>6
<1> QED
  BY <1>5, <1>8, <1>9, <1>10, <1>11, <1>12, WarrantedIsExact DEF m

(***************************************************************************)
(* At every point the view is exactly what the applied blocks say.         *)
(***************************************************************************)
AppliedExact == AppliedView = ViewOf(AppliedBlocks)

(***************************************************************************)
(* A pass in step, with nothing disturbing it, is at such a point always.  *)
(***************************************************************************)
LEMMA AppliedViewIsExact ==
    ASSUME Structure, Undisturbed, InStep
    PROVE  AppliedExact
<1> USE DEF AppliedExact
<1>1. CASE pc = "rollback_utxos"
  BY <1>1, RolledBackView DEF AppliedView, AppliedBlocks
<1>2. CASE pc = "mark"
  BY <1>2, MarkedView DEF AppliedView, AppliedBlocks
<1>3. CASE pc = "upsert"
  BY <1>3 DEF InStep, AppliedView
<1>4. CASE pc \notin {"rollback_utxos", "upsert", "mark"}
  BY <1>4, SettledView DEF AppliedView, AppliedBlocks
<1> QED
  BY <1>1, <1>2, <1>3, <1>4

(***************************************************************************)
(* Storing a block leaves the blocks below it as they were.                *)
(***************************************************************************)
LEMMA StoredOnTop ==
    ASSUME NEW n \in Nat, NEW l, DOMAIN l = 0 .. n - 1, l = [h \in DOMAIN l |-> l[h]], NEW b
    PROVE  /\ DOMAIN StoreBlock(l, n, b) = 0 .. n
           /\ RollbackBlocksAbove(StoreBlock(l, n, b), n - 1) = l
<1> DEFINE s == StoreBlock(l, n, b)
           r == RollbackBlocksAbove(s, n - 1)
<1>1. DOMAIN s = (0 .. n - 1) \cup {n} /\ \A h \in 0 .. n - 1 : s[h] = l[h]
  BY DEF StoreBlock
<1>2. DOMAIN s = 0 .. n
  BY <1>1
<1>3. DOMAIN r = {k \in DOMAIN s : k <= n - 1} /\ r = [h \in DOMAIN r |-> s[h]]
  BY DEF RollbackBlocksAbove, Restrict
<1> HIDE DEF s, r
<1>4. DOMAIN r = 0 .. n - 1
  BY <1>2, <1>3
<1>5. r = l
  BY <1>1, <1>3, <1>4
<1> QED
  BY <1>2, <1>5 DEF s, r

(***************************************************************************)
(* The node has every block up to the tip; what is scanned is the next     *)
(* height, and the view is still that of the blocks below.                 *)
(***************************************************************************)
LEMMA ScanBlockApplied ==
    ASSUME Structure, InStep, ScanBlock
    PROVE  /\ height \in DOMAIN chain /\ pc' = "upsert"
           /\ blocks' = StoreBlock(blocks, height, chain[height])
           /\ DOMAIN blocks' = 0 .. height
           /\ AppliedBlocks = blocks /\ AppliedBlocks' = blocks
           /\ UNCHANGED <<chain, synced_tip, utxos, tip, height, tainted>>
<1>1. pc = "scan" /\ height <= tip /\ height \in Nat /\ tip \in Nat
      /\ chain \in Chains /\ blocks \in [DOMAIN blocks -> Block]
  BY DEF ScanBlock, Structure, TypeOK
<1>2. tip <= TipHeight(chain) /\ DOMAIN blocks = 0 .. height - 1
  BY <1>1 DEF InStep, StoredHeights, InPass, Working
<1>3. height \in DOMAIN chain
  BY <1>1, <1>2, ChainShape
<1>4. /\ pc' = "upsert"
      /\ blocks' = StoreBlock(blocks, height, chain[height])
      /\ UNCHANGED <<chain, synced_tip, utxos, tip, height, tainted>>
  BY <1>3 DEF ScanBlock, node
<1>5. DOMAIN blocks' = 0 .. height /\ RollbackBlocksAbove(blocks', height - 1) = blocks
  BY <1>1, <1>2, <1>4, StoredOnTop
<1>6. AppliedBlocks' = RollbackBlocksAbove(blocks', height - 1)
  BY <1>4 DEF AppliedBlocks
<1>7. AppliedBlocks = blocks
  BY <1>1 DEF AppliedBlocks
<1> QED
  BY <1>3, <1>4, <1>5, <1>6, <1>7

(***************************************************************************)
(* The scan of a block stores the next height and no other.                *)
(***************************************************************************)
LEMMA ScanBlockInStep ==
    ASSUME Structure, Undisturbed, InStep, ScanBlock
    PROVE  InStep'
<1>1. /\ pc = "scan" /\ pc' = "upsert" /\ DOMAIN blocks' = 0 .. height
      /\ AppliedBlocks' = blocks
      /\ UNCHANGED <<chain, synced_tip, utxos, tip, height, tainted>>
  BY ScanBlockApplied DEF ScanBlock
<1>2. utxos = ViewOf(blocks)
  BY <1>1, SettledView
<1>3. utxos' = ViewOf(AppliedBlocks')
  BY <1>1, <1>2
<1>4. StoredHeights' = 0 .. height
  BY <1>1 DEF StoredHeights
<1> QED
  BY <1>1, <1>3, <1>4 DEF InStep, InPass, Working

(***************************************************************************)
(* The two writes of a scanned block move nothing but the height.          *)
(***************************************************************************)
LEMMA WritesInStep ==
    ASSUME Structure, InStep, Upsert \/ MarkSpent
    PROVE  InStep'
<1>1. CASE Upsert
  <2>1. /\ pc = "upsert" /\ pc' = "mark"
        /\ UNCHANGED <<chain, blocks, synced_tip, tip, height, tainted>>
    BY <1>1 DEF Upsert, GoTo, node
  <2>2. DOMAIN blocks = 0 .. height
    BY <2>1 DEF InStep, StoredHeights
  <2>3. StoredHeights' = 0 .. height
    BY <2>1 DEF StoredHeights
  <2> QED
    BY <2>1, <2>2, <2>3 DEF InStep, InPass, Working
<1>2. CASE MarkSpent
  <2>1. /\ pc = "mark" /\ pc' = "scan" /\ height' = height + 1
        /\ UNCHANGED <<chain, blocks, synced_tip, tip, tainted>>
    BY <1>2 DEF MarkSpent, node
  <2>2. DOMAIN blocks = 0 .. height /\ height \in Nat
    BY <2>1 DEF InStep, StoredHeights, Structure, TypeOK
  <2>3. StoredHeights' = 0 .. height' - 1
    BY <2>1 DEF StoredHeights
  <2>4. height' - 1 = height
    BY <2>1, <2>2
  <2> QED
    BY <2>1, <2>2, <2>3, <2>4 DEF InStep, InPass, Working
<1> QED
  BY <1>1, <1>2

(***************************************************************************)
(* The pass that ends has scanned to its tip, which the node still has.    *)
(***************************************************************************)
LEMMA SetCursorInStep ==
    ASSUME Structure, InStep, SetCursor
    PROVE  InStep'
<1>1. /\ pc = "scan" /\ height > tip /\ height \in Nat /\ tip \in Nat /\ chain \in Chains
  BY DEF SetCursor, Structure, TypeOK
<1>2. height = tip + 1
  BY <1>1 DEF Structure, Positions
<1>3. tip <= TipHeight(chain) /\ DOMAIN blocks = 0 .. height - 1
  BY <1>1 DEF InStep, StoredHeights, InPass, Working
<1>4. tip \in DOMAIN chain
  BY <1>1, <1>3, ChainShape
<1>5. /\ pc' = "idle" /\ synced_tip' = [height |-> tip, hash |-> chain[tip]]
      /\ UNCHANGED <<chain, blocks, utxos, tainted>>
  BY <1>4 DEF SetCursor, EndPass, node
<1>6. StoredHeights' = 0 .. tip
  BY <1>5 DEF StoredHeights
<1>7. DOMAIN blocks = 0 .. tip
  BY <1>1, <1>2, <1>3
<1> QED
  BY <1>3, <1>5, <1>6, <1>7 DEF InStep, InPass, Deciding, Working

(***************************************************************************)
(* A quiet environment leaves nothing half done and no lower tip.          *)
(***************************************************************************)
LEMMA EnvironmentInStep ==
    ASSUME QuietEnvironment, Structure, InStep,
           Fail \/ PushBlock \/ Reorg \/ UNCHANGED vars
    PROVE  InStep'
<1>1. CASE Fail
  <2>1. /\ pc \in Deciding \cup {"rollback_blocks", "index"} /\ pc' = "failed"
        /\ UNCHANGED <<chain, blocks, synced_tip, utxos>>
        /\ tainted' = (tainted \/ pc = "rollback_utxos")
    BY <1>1 DEF Fail, EndPass, QuietEnvironment, node, stores
  <2>2. tainted' = FALSE
    BY <2>1 DEF InStep, Deciding
  <2>3. DOMAIN blocks = 0 .. synced_tip.height
    BY <2>1 DEF InStep, StoredHeights, Deciding
  <2>4. StoredHeights' = 0 .. synced_tip.height
    BY <2>1 DEF StoredHeights
  <2> QED
    BY <2>1, <2>2, <2>3, <2>4 DEF InStep, InPass, Deciding, Working
<1>2. ASSUME UNCHANGED <<stores, pc, locals>>, tainted' = FALSE,
             chain' \in Chains, TipHeight(chain) <= TipHeight(chain')
      PROVE  InStep'
  <2>1. UNCHANGED <<blocks, synced_tip, utxos, pc, tip, height>>
    BY <1>2 DEF stores, locals
  <2>2. StoredHeights' = StoredHeights /\ AppliedBlocks' = AppliedBlocks
    BY <2>1 DEF StoredHeights, AppliedBlocks
  <2>3. /\ TipHeight(chain) \in Nat /\ TipHeight(chain') \in Nat
        /\ synced_tip.height \in Int /\ tip \in Nat
    BY <1>2, ChainShape DEF Structure, TypeOK, NoTip
  <2>4. /\ synced_tip.height <= TipHeight(chain)
        /\ pc \in InPass => tip <= TipHeight(chain)
    BY DEF InStep
  <2>5. /\ synced_tip.height <= TipHeight(chain')
        /\ pc \in InPass => tip <= TipHeight(chain')
    BY <1>2, <2>3, <2>4
  <2> QED
    BY <1>2, <2>1, <2>2, <2>5 DEF InStep
<1>3. CASE PushBlock
  <2>1. /\ chain' \in Chains /\ TipHeight(chain') = TipHeight(chain) + 1
        /\ UNCHANGED <<stores, pc, locals>> /\ tainted' = FALSE
    BY <1>3 DEF PushBlock, ExtendsByOne, InStep
  <2>2. TipHeight(chain) \in Nat
    BY ChainShape DEF Structure, TypeOK
  <2>3. TipHeight(chain) <= TipHeight(chain')
    BY <2>1, <2>2
  <2> QED
    BY <1>2, <2>1, <2>3
<1>4. CASE Reorg
  <2>1. /\ pc \in Idle \cup Deciding /\ UNCHANGED <<stores, pc, locals>>
        /\ chain' \in Chains /\ TipHeight(chain') >= TipHeight(chain)
        /\ tainted' = (tainted \/ (Unsettled /\ ~OnChain(ReliedOn, chain')))
    BY <1>4 DEF Reorg, QuietEnvironment
  <2>2. DOMAIN blocks = 0 .. synced_tip.height
    BY <2>1 DEF InStep, StoredHeights, Idle, Deciding
  <2>3. synced_tip.height \in Int
    BY DEF Structure, TypeOK, NoTip
  <2>4. ~Leftovers
    BY <2>2, <2>3 DEF Leftovers
  <2>5. ~Unsettled
    BY <2>1, <2>4 DEF Unsettled, Idle, Deciding, Working
  <2>6. tainted' = FALSE
    BY <2>1, <2>5 DEF InStep
  <2>7. TipHeight(chain) \in Nat /\ TipHeight(chain') \in Nat
    BY <2>1, ChainShape DEF Structure, TypeOK
  <2> QED
    BY <1>2, <2>1, <2>6, <2>7
<1>5. CASE UNCHANGED vars
  <2>1. /\ UNCHANGED <<stores, pc, locals>> /\ tainted' = FALSE /\ chain' = chain
    BY <1>5 DEF vars, node, InStep
  <2>2. chain \in Chains /\ TipHeight(chain) \in Nat
    BY ChainShape DEF Structure, TypeOK
  <2>3. TipHeight(chain) <= TipHeight(chain')
    BY <2>1, <2>2
  <2> QED
    BY <1>2, <2>1, <2>2, <2>3
<1> QED
  BY <1>1, <1>3, <1>4, <1>5

(***************************************************************************)
(* Every step in a quiet environment keeps the pass in step.               *)
(***************************************************************************)
LEMMA InStepStep ==
    ASSUME QuietEnvironment
    PROVE  Structure /\ (~tainted => Undisturbed) /\ InStep /\ [Next]_vars => InStep'
<1> SUFFICES ASSUME Structure, ~tainted => Undisturbed, InStep, [Next]_vars
             PROVE  InStep'
  OBVIOUS
<1>1. Undisturbed
  BY DEF InStep
<1> QED
  BY <1>1, StartPassInStep, CheckCursorInStep, FindAncestorInStep, RollbackBlocksInStep,
     RollbackUtxosInStep, LoadSpendIndexInStep, ScanBlockInStep, WritesInStep,
     SetCursorInStep, EnvironmentInStep
  DEF Next, EngineStep

(***************************************************************************)
(* In a quiet environment the stored blocks are at every point the very    *)
(* ones the pass counts on, below a tip the node still has.                *)
(***************************************************************************)
THEOREM PassInStep ==
    ASSUME QuietEnvironment
    PROVE  Spec => []InStep
<1>1. Structure /\ (~tainted => Undisturbed) /\ InStep /\ [Next]_vars => InStep'
  BY InStepStep
<1>2. IndInv => Structure /\ (~tainted => Undisturbed)
  BY DEF IndInv, Structure
<1> QED
  BY <1>1, <1>2, InitInStep, IndInvInvariant, PTL DEF Spec

(***************************************************************************)
(* The abstract ledger means the same view.                                *)
(***************************************************************************)
LEMMA LedgerView ==
    ASSUME NEW l
    PROVE  Ledger!ViewOf(l) = ViewOf(l)
<1>1. \A op : Ledger!Captures(op) = Captures(op) /\ Ledger!Owner(op) = Owner(op)
  <2>1. \A r, spk : Ledger!Watches(r, spk) = Watches(r, spk)
    BY DEF Ledger!Watches, Watches
  <2>2. \A rs, spk : Ledger!EntryIn(rs, spk) = EntryIn(rs, spk)
    BY <2>1 DEF Ledger!EntryIn, EntryIn
  <2>3. \A rs, spk : Ledger!IndexedBy(rs, spk) = IndexedBy(rs, spk)
    BY <2>1 DEF Ledger!IndexedBy, IndexedBy
  <2>4. \A key, to : Ledger!Unblinds(key, to) = Unblinds(key, to)
    BY DEF Ledger!Unblinds, Unblinds
  <2> QED
    BY <2>2, <2>3, <2>4
    DEF Ledger!Captures, Captures, Ledger!Owner, Owner, Ledger!CapturedBy, CapturedBy
<1>2. \A b : Ledger!Creates(b) = Creates(b) /\ Ledger!Spends(b) = Spends(b)
  BY DEF Ledger!Creates, Creates, Ledger!Spends, Spends
<1>3. \A op : Ledger!Appears(l, op) = Appears(l, op) /\ Ledger!IsSpent(l, op) = IsSpent(l, op)
  BY <1>2 DEF Ledger!Appears, Appears, Ledger!IsSpent, IsSpent
<1>4. \A op : /\ Ledger!BirthHeight(l, op) = BirthHeight(l, op)
              /\ Ledger!SpendHeight(l, op) = SpendHeight(l, op)
  BY <1>2 DEF Ledger!BirthHeight, BirthHeight, Ledger!SpendHeight, SpendHeight
<1>5. \A op : Ledger!EntryOf(l, op) = EntryOf(l, op)
  BY <1>1, <1>3, <1>4 DEF Ledger!EntryOf, EntryOf, Ledger!NoHeight, NoHeight
<1> QED
  BY <1>1, <1>3, <1>5 DEF Ledger!ViewOf, ViewOf

(***************************************************************************)
(* Before the first pass the ledger is empty.                              *)
(***************************************************************************)
LEMMA InitMaps == Init => Ledger!Init
<1> SUFFICES ASSUME Init PROVE Ledger!Init
  OBVIOUS
<1>1. AppliedBlocks = [h \in {} |-> NoHash] /\ AppliedView = utxos
  BY DEF Init, AppliedBlocks, AppliedView
<1>2. Structure /\ Undisturbed /\ InStep
  BY InitStructure, InitUndisturbed, InitInStep
<1>3. AppliedExact
  BY <1>2, AppliedViewIsExact
<1> QED
  BY <1>1, <1>3, LedgerView DEF Ledger!Init, AppliedExact

(***************************************************************************)
(* The captures of the block at height enter the store: the ledger takes   *)
(* the block from the node's chain.                                        *)
(***************************************************************************)
LEMMA UpsertExtends ==
    ASSUME Structure, Undisturbed, InStep, Upsert,
           AppliedView' = ViewOf(AppliedBlocks')
    PROVE  Ledger!Extend
<1>1. pc = "upsert" /\ pc' = "mark" /\ blocks' = blocks /\ height' = height /\ height \in Nat
  BY DEF Upsert, GoTo, Structure, TypeOK
<1>2. DOMAIN blocks = 0 .. height
  BY <1>1 DEF InStep, StoredHeights
<1>3. OnChain(blocks, chain) /\ chain \in Chains /\ blocks \in [DOMAIN blocks -> Block]
  BY <1>1 DEF Undisturbed, Lineage, Unsettled, ReliedOn, Working, Structure, TypeOK
<1> DEFINE l == RollbackBlocksAbove(blocks, height - 1)
<1>4. AppliedBlocks = l /\ AppliedBlocks' = blocks
  BY <1>1 DEF AppliedBlocks
<1>5. DOMAIN l = 0 .. height - 1 /\ \A h \in DOMAIN l : l[h] = blocks[h]
  BY <1>1, <1>2 DEF RollbackBlocksAbove, Restrict
<1> HIDE DEF l
<1>6. height \in DOMAIN chain /\ chain[height] = blocks[height]
  BY <1>1, <1>2, <1>3 DEF OnChain
<1>7. \A h \in DOMAIN l : h \in DOMAIN chain /\ chain[h] = l[h]
  BY <1>1, <1>2, <1>3, <1>5 DEF OnChain
<1>8. blocks = [k \in DOMAIN l \cup {height} |-> IF k = height THEN chain[height] ELSE l[k]]
  <2>1. DOMAIN blocks = DOMAIN l \cup {height}
    BY <1>1, <1>2, <1>5
  <2>2. \A k \in DOMAIN blocks : k = height \/ k \in DOMAIN l
    BY <2>1
  <2> QED
    BY <1>3, <1>5, <1>6, <2>1, <2>2
<1>9. AppliedBlocks' = Ledger!StoreBlock(l, height, chain[height])
  BY <1>4, <1>8 DEF Ledger!StoreBlock
<1>10. AppliedView' = Ledger!ViewOf(AppliedBlocks')
  BY LedgerView
<1>11. Ledger!OnChain(l, chain)
  BY <1>7 DEF Ledger!OnChain
<1> QED
  BY <1>3, <1>4, <1>5, <1>6, <1>9, <1>10, <1>11 DEF Ledger!Extend

(***************************************************************************)
(* The rollback of the block store is the ledger's: what is still pending  *)
(* for the UTXO store is part of the view.                                 *)
(***************************************************************************)
LEMMA RollbackMaps ==
    ASSUME Structure, InStep, RollbackBlocks,
           AppliedView' = ViewOf(AppliedBlocks')
    PROVE  Ledger!Rollback
<1>1. /\ pc = "rollback_blocks" /\ pc' = "rollback_utxos"
      /\ blocks' = RollbackBlocksAbove(blocks, height)
  BY DEF RollbackBlocks, GoTo
<1>2. AppliedBlocks = blocks /\ AppliedBlocks' = RollbackBlocksAbove(blocks, height)
  BY <1>1 DEF AppliedBlocks
<1>3. height \in DOMAIN blocks
  BY <1>1 DEF Structure, Positions
<1>4. RollbackBlocksAbove(blocks, height) = Ledger!RollbackBlocksAbove(blocks, height)
  BY DEF RollbackBlocksAbove, Ledger!RollbackBlocksAbove, Restrict, Ledger!Restrict
<1>5. AppliedView' = Ledger!ViewOf(AppliedBlocks')
  BY LedgerView
<1> QED
  BY <1>2, <1>3, <1>4, <1>5 DEF Ledger!Rollback

(***************************************************************************)
(* All other steps leave the applied blocks alone.                         *)
(***************************************************************************)
LEMMA AppliedUnchanged ==
    ASSUME QuietEnvironment, Structure, InStep, [Next]_vars,
           ~Upsert, ~RollbackBlocks
    PROVE  AppliedBlocks' = AppliedBlocks
<1>1. CASE ScanBlock
  BY <1>1, ScanBlockApplied
<1>2. ASSUME blocks' = blocks, pc # "upsert", pc' # "upsert"
      PROVE  AppliedBlocks' = AppliedBlocks
  BY <1>2 DEF AppliedBlocks
<1>3. ASSUME UNCHANGED <<blocks, pc, height>>
      PROVE  AppliedBlocks' = AppliedBlocks
  BY <1>3 DEF AppliedBlocks
<1>4. CASE StartPass \/ CheckCursor \/ FindAncestor
  <2>1. blocks' = blocks /\ pc # "upsert"
    BY <1>4 DEF StartPass, CheckCursor, FindAncestor, stores, Idle
  <2>2. pc' # "upsert"
    <3>1. CASE StartPass
      BY <3>1 DEF StartPass
    <3>2. CASE CheckCursor
      <4>1. CASE synced_tip = NoTip
        BY <3>2, <4>1 DEF CheckCursor, GoTo
      <4>2. CASE synced_tip # NoTip /\ synced_tip.height \notin DOMAIN chain
        BY <3>2, <4>2 DEF CheckCursor, EndPass
      <4>3. CASE synced_tip # NoTip /\ synced_tip.height \in DOMAIN chain
        BY <3>2, <4>3 DEF CheckCursor, GoTo
      <4> QED
        BY <4>1, <4>2, <4>3
    <3>3. CASE FindAncestor
      <4>1. CASE height \in DOMAIN blocks /\ height \notin DOMAIN chain
        BY <3>3, <4>1 DEF FindAncestor, EndPass
      <4>2. CASE ~(height \in DOMAIN blocks /\ height \notin DOMAIN chain)
        BY <3>3, <4>2 DEF FindAncestor, GoTo
      <4> QED
        BY <4>1, <4>2
    <3> QED
      BY <1>4, <3>1, <3>2, <3>3
  <2> QED
    BY <1>2, <2>1, <2>2
<1>5. CASE RollbackUtxos \/ LoadSpendIndex \/ MarkSpent
  BY <1>2, <1>5 DEF RollbackUtxos, LoadSpendIndex, MarkSpent, GoTo, stores
<1>6. CASE SetCursor
  BY <1>2, <1>6 DEF SetCursor, EndPass
<1>7. CASE Fail
  BY <1>2, <1>7 DEF Fail, EndPass, QuietEnvironment, Deciding, stores
<1>8. CASE PushBlock \/ Reorg \/ UNCHANGED vars
  BY <1>3, <1>8 DEF PushBlock, Reorg, vars, stores, locals
<1> QED
  BY <1>1, <1>4, <1>5, <1>6, <1>7, <1>8 DEF Next, EngineStep

(***************************************************************************)
(* Every step of the pipeline is a step of the ledger or leaves it alone.  *)
(***************************************************************************)
LEMMA StepMaps ==
    ASSUME QuietEnvironment
    PROVE  Structure /\ Undisturbed /\ InStep /\ AppliedExact' /\ [Next]_vars
              => [Ledger!Next]_Ledger!vars
<1> SUFFICES ASSUME Structure, Undisturbed, InStep, AppliedExact', [Next]_vars
             PROVE  [Ledger!Next]_Ledger!vars
  OBVIOUS
<1>1. AppliedView = ViewOf(AppliedBlocks)
  BY AppliedViewIsExact DEF AppliedExact
<1>2. AppliedView' = ViewOf(AppliedBlocks')
  BY DEF AppliedExact
<1>3. CASE Upsert
  BY <1>2, <1>3, UpsertExtends DEF Ledger!Next
<1>4. CASE RollbackBlocks
  BY <1>2, <1>4, RollbackMaps DEF Ledger!Next
<1>5. CASE ~Upsert /\ ~RollbackBlocks
  <2>1. AppliedBlocks' = AppliedBlocks
    BY <1>5, AppliedUnchanged
  <2>2. AppliedView' = AppliedView
    BY <1>1, <1>2, <2>1
  <2> QED
    BY <2>1, <2>2 DEF Ledger!vars
<1> QED
  BY <1>3, <1>4, <1>5

(***************************************************************************)
(* For every network, every set of registered wallets and any number of    *)
(* reorgs and failures: in a quiet environment the passes of the engine    *)
(* and the two stores implement the abstract ledger.                       *)
(***************************************************************************)
THEOREM LedgerImplemented ==
    ASSUME QuietEnvironment
    PROVE  Spec => ImplementsLedger
<1>1. InStep => ~tainted
  BY DEF InStep
<1>2. IndInv => Structure /\ (~tainted => Undisturbed)
  BY DEF IndInv, Structure
<1>3. Structure /\ Undisturbed /\ InStep => AppliedExact
  BY AppliedViewIsExact
<1>4. Structure /\ Undisturbed /\ InStep /\ AppliedExact' /\ [Next]_vars
         => [Ledger!Next]_Ledger!vars
  BY StepMaps
<1>5. Spec => []InStep
  BY PassInStep
<1> QED
  BY <1>1, <1>2, <1>3, <1>4, <1>5, InitMaps, IndInvInvariant, PTL
  DEF Spec, ImplementsLedger, Ledger!Spec

=============================================================================
